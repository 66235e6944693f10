-------------------------- MODULE Algorithms_proof --------------------------
(***************************************************************************)
(* Proofs about the pure modules: whatever the input, jobs and layouts     *)
(* (module Layout), rewritten texts, the pairing of calls with turns, the  *)
(* traces built from them and their validation (module TraceBuild),        *)
(* accounts of metric samples (module Resources) and of measurement        *)
(* windows (module Window) and the readers of a backend log (module        *)
(* BackendLog) are right.                                                  *)
(***************************************************************************)
EXTENDS Algorithms, Foundations, SequenceTheorems

\* What is chosen is one of the inputs of its kind.
Chosen ==
  /\ kind = "window" => input \in Windows
  /\ kind = "values" => input \in Values
  /\ kind = "log" => input \in Logs
  /\ kind = "turns" => input \in Sessions
  /\ kind = "nodes" => input \in Graphs
  /\ kind = "samples" => input \in Samplings
  /\ kind = "ticks" => input \in Ticks
  /\ kind = "text" => input \in Texts
  /\ kind = "config" => input \in Configs
  /\ kind = "allocation" => input \in Allocations
  /\ kind = "pack" => input \in Packs

LEMMA InputsChosen == Spec => []Chosen
<1>1. Init => Chosen
  BY DEF Init, Chosen
<1>2. Chosen /\ [Next]_<<kind, input>> => Chosen'
  BY DEF Chosen, Next, Choose, ChooseWindow, ChooseValues, ChooseLog, ChooseSamples, ChooseTicks,
     ChooseTurns, ChooseNodes, ChooseText, ChooseConfig, ChooseAllocation, ChoosePack
<1> QED BY <1>1, <1>2, PTL DEF Spec

-----------------------------------------------------------------------------
(* Layout: the nodes of an allocation                                       *)
Grown(nodes, host) == IF host \in P!ToSet(nodes) THEN nodes ELSE Append(nodes, host)
Growing(g, allocated, batch) ==
  g = [s \in SUBSET DOMAIN allocated |->
         IF s = {} THEN <<batch>>
         ELSE Grown(g[s \ {Greatest(s)}], allocated[Greatest(s)])]
AllNodes(allocated, batch) == CHOOSE g : Growing(g, allocated, batch)

LEMMA NodesGrow ==
  ASSUME NEW H, NEW allocated \in Seq(H), NEW batch \in H
  PROVE  /\ P!Nodes(allocated, batch) = AllNodes(allocated, batch)[DOMAIN allocated]
         /\ Growing(AllNodes(allocated, batch), allocated, batch)
<1> DEFINE n == Len(allocated)
           step == [x \in (1 .. n) \X Seq(H) |-> Grown(x[2], allocated[x[1]])]
<1>1. n \in Nat /\ DOMAIN allocated = 1 .. n
  OBVIOUS
<1>2. step \in [(1 .. n) \X Seq(H) -> Seq(H)]
  <2>1. ASSUME NEW x \in (1 .. n) \X Seq(H) PROVE Grown(x[2], allocated[x[1]]) \in Seq(H)
    <3>1. x[2] \in Seq(H) /\ allocated[x[1]] \in H
      OBVIOUS
    <3> QED BY <3>1 DEF Grown
  <2> QED BY <2>1
<1>3. <<batch>> \in Seq(H)
  OBVIOUS
<1>4. PICK g \in [SUBSET (1 .. n) -> Seq(H)] : Folding(<<batch>>, step, g, n)
  <2> HIDE DEF n, step
  <2> QED BY <1>1, <1>2, <1>3, FoldsExist, Zenon
<1>5. ASSUME NEW s \in SUBSET (1 .. n), s # {}
      PROVE  step[<<Greatest(s), g[s \ {Greatest(s)}]>>]
               = Grown(g[s \ {Greatest(s)}], allocated[Greatest(s)])
  <2>1. Greatest(s) \in s
    BY <1>1, <1>5, GreatestIn
  <2>2. <<Greatest(s), g[s \ {Greatest(s)}]>> \in (1 .. n) \X Seq(H)
    BY <2>1
  <2> QED BY <2>2
<1>6. Growing(g, allocated, batch)
  BY <1>1, <1>4, <1>5 DEF Growing, Folding, Folded
<1>7. Growing(AllNodes(allocated, batch), allocated, batch)
  BY <1>6, Zenon DEF AllNodes
<1>8. P!Nodes(allocated, batch) = AllNodes(allocated, batch)[DOMAIN allocated]
  BY Zenon DEF P!Nodes, P!FoldLeft, P!MapThenFoldSet, P!Max, Greatest, AllNodes, Growing, Grown
<1> QED BY <1>7, <1>8

\* The batch host and then the others, each once.
OneEach(nodes, H, hosts, batch) ==
  /\ nodes \in Seq(H) /\ nodes # <<>> /\ nodes[1] = batch /\ P!ToSet(nodes) = hosts
  /\ \A i, j \in DOMAIN nodes : nodes[i] = nodes[j] => i = j

LEMMA GrownOneEach ==
  ASSUME NEW H, NEW nodes, NEW hosts, NEW batch, OneEach(nodes, H, hosts, batch), NEW h \in H
  PROVE  OneEach(Grown(nodes, h), H, hosts \cup {h}, batch)
<1>1. CASE h \in P!ToSet(nodes)
  BY <1>1 DEF OneEach, Grown
<1>2. CASE h \notin P!ToSet(nodes)
  <2> DEFINE n == Len(nodes)
             more == Append(nodes, h)
  <2>1. /\ Grown(nodes, h) = more /\ nodes \in Seq(H) /\ n \in Nat \ {0} /\ DOMAIN nodes = 1 .. n
        /\ \A i \in 1 .. n : nodes[i] # h
    BY <1>2 DEF Grown, OneEach, P!ToSet
  <2>2. /\ more \in Seq(H) /\ DOMAIN more = 1 .. n + 1 /\ more # <<>> /\ more[n + 1] = h
        /\ \A i \in 1 .. n : more[i] = nodes[i]
    BY <2>1
  <2> HIDE DEF more, n
  <2>3. P!ToSet(more) = hosts \cup {h}
    <3>1. P!ToSet(nodes) = hosts
      BY DEF OneEach
    <3>2. \A i \in 1 .. n + 1 : i = n + 1 \/ i \in 1 .. n
      BY <2>1
    <3>3. \A i \in 1 .. n : i \in 1 .. n + 1
      BY <2>1
    <3>4. n + 1 \in 1 .. n + 1
      BY <2>1
    <3> QED BY <2>1, <2>2, <3>1, <3>2, <3>3, <3>4 DEF P!ToSet
  <2>4. ASSUME NEW i \in DOMAIN more, NEW j \in DOMAIN more, more[i] = more[j] PROVE i = j
    <3>1. (i = n + 1 \/ i \in 1 .. n) /\ (j = n + 1 \/ j \in 1 .. n)
      BY <2>1, <2>2
    <3> QED BY <2>1, <2>2, <2>4, <3>1 DEF OneEach
  <2>5. more[1] = batch
    <3>1. 1 \in 1 .. n
      BY <2>1
    <3> QED BY <2>2, <3>1 DEF OneEach
  <2> QED BY <2>1, <2>2, <2>3, <2>4, <2>5 DEF OneEach
<1> QED BY <1>1, <1>2

LEMMA NodesOneEach ==
  ASSUME NEW H, NEW allocated \in Seq(H), NEW batch \in H
  PROVE  OneEach(P!Nodes(allocated, batch), H, P!ToSet(allocated) \cup {batch}, batch)
<1> DEFINE n == Len(allocated)
           g == AllNodes(allocated, batch)
           Taken(k) == {allocated[i] : i \in 1 .. k} \cup {batch}
           Good(k) == k <= n => OneEach(g[1 .. k], H, Taken(k), batch)
           F == {k \in Nat : Good(k)}
<1>1. n \in Nat /\ DOMAIN allocated = 1 .. n /\ P!Nodes(allocated, batch) = g[1 .. n]
  BY NodesGrow
<1>2. g[{}] = <<batch>>
  <2>1. {} \in SUBSET DOMAIN allocated
    OBVIOUS
  <2> HIDE DEF g
  <2>2. Growing(g, allocated, batch)
    BY NodesGrow DEF g
  <2> QED BY <2>1, <2>2 DEF Growing
<1>3. ASSUME NEW k \in 1 .. n PROVE g[1 .. k] = Grown(g[1 .. k - 1], allocated[k])
  <2> HIDE DEF g, n
  <2>1. /\ (1 .. k) \in SUBSET DOMAIN allocated /\ 1 .. k # {}
        /\ Greatest(1 .. k) = k /\ (1 .. k) \ {k} = 1 .. k - 1
    BY <1>1, Segments
  <2>2. Growing(g, allocated, batch)
    BY NodesGrow DEF g
  <2> QED BY <2>1, <2>2 DEF Growing
<1> HIDE DEF g
<1>4. Good(0)
  <2>1. 1 .. 0 = {} /\ Taken(0) = {batch}
    OBVIOUS
  <2>2. OneEach(<<batch>>, H, {batch}, batch)
    BY DEF OneEach, P!ToSet
  <2> QED BY <1>2, <2>1, <2>2
<1>5. ASSUME NEW k \in Nat, Good(k) PROVE Good(k + 1)
  <2> SUFFICES ASSUME k + 1 <= n PROVE OneEach(g[1 .. k + 1], H, Taken(k + 1), batch)
    OBVIOUS
  <2>1. k + 1 \in 1 .. n /\ (k + 1) - 1 = k /\ k <= n
    BY <1>1
  <2>2. allocated[k + 1] \in H /\ g[1 .. k + 1] = Grown(g[1 .. k], allocated[k + 1])
    BY <1>3, <2>1
  <2>3. Taken(k + 1) = Taken(k) \cup {allocated[k + 1]}
    <3>1. 1 .. k + 1 = (1 .. k) \cup {k + 1}
      OBVIOUS
    <3> QED BY <3>1
  <2>4. OneEach(g[1 .. k], H, Taken(k), batch)
    BY <1>5, <2>1
  <2> HIDE DEF Taken
  <2> QED BY <2>2, <2>3, <2>4, GrownOneEach
<1>6. OneEach(g[1 .. n], H, Taken(n), batch)
  <2>2. n <= n
    BY <1>1
  <2>3. Good(n) => OneEach(g[1 .. n], H, Taken(n), batch)
    BY <2>2, Zenon
  <2> HIDE DEF Good
  <2>1. Nat \subseteq F
    <3>1. 0 \in F /\ \A k \in Nat : k \in F => k + 1 \in F
      BY <1>4, <1>5
    <3> HIDE DEF F
    <3> QED BY <3>1, NatSetInduction
  <2> QED BY <1>1, <2>1, <2>3
<1>7. Taken(n) = P!ToSet(allocated) \cup {batch}
  BY <1>1 DEF P!ToSet
<1> HIDE DEF Taken, n
<1> QED BY <1>1, <1>6, <1>7
\* The instance of Layout counts as this module does.
LEMMA SameCount == \A S : P!Cardinality(S) = Cardinality(S)
BY Zenon DEF P!Cardinality, Cardinality

\* A sequence without repetitions is as long as its set is large.
LEMMA Counted ==
  ASSUME NEW H, NEW nodes \in Seq(H), \A i, j \in DOMAIN nodes : nodes[i] = nodes[j] => i = j
  PROVE  IsFiniteSet(P!ToSet(nodes)) /\ Cardinality(P!ToSet(nodes)) = Len(nodes)
<1>1. Len(nodes) \in Nat /\ DOMAIN nodes = 1 .. Len(nodes)
  OBVIOUS
<1>2. IsFiniteSet(1 .. Len(nodes)) /\ Cardinality(1 .. Len(nodes)) = Len(nodes)
  BY <1>1, FS_Interval
<1>3. nodes \in Bijection(1 .. Len(nodes), P!ToSet(nodes))
  BY <1>1 DEF Bijection, Injection, Surjection, IsInjective, P!ToSet
<1>4. ExistsBijection(1 .. Len(nodes), P!ToSet(nodes))
  BY <1>3 DEF ExistsBijection
<1> QED BY <1>2, <1>4, FS_Bijection

-----------------------------------------------------------------------------
(* Layout: the roles of an allocation                                       *)
LEMMA RemainderOf ==
  ASSUME NEW f \in Nat \ {0}, NEW q \in Nat, NEW b \in 0 .. f - 1
  PROVE  (f * q + b) % f = b
<1> DEFINE x == f * q + b
<1>1. x \in Nat
  OBVIOUS
<1>2. x = f * (x \div f) + (x % f) /\ (x % f) \in 0 .. f - 1 /\ (x \div f) \in Int
  BY <1>1
<1>3. ASSUME NEW p \in Int, NEW r \in 0 .. f - 1, x = f * p + r PROVE r = b
  <2>1. f * q + b = f * p + r
    BY <1>3
  <2>2. q = p
    BY <2>1
  <2> QED BY <2>1, <2>2
<1> HIDE DEF x
<1>4. x % f = b
  BY <1>2, <1>3
<1> QED BY <1>4 DEF x

\* What a frontend serves: the replicas with its number as their remainder.
Served(r, f, a) == {i \in 0 .. r - 1 : i % f = a}

LEMMA ServedBalanced ==
  ASSUME NEW r \in Nat, NEW f \in Nat \ {0}, NEW a \in 0 .. f - 1, NEW b \in 0 .. f - 1
  PROVE  Cardinality(Served(r, f, a)) <= Cardinality(Served(r, f, b)) + 1
<1> DEFINE S == Served(r, f, a) \ {a}
           m == [i \in S |-> f * ((i \div f) - 1) + b]
<1>1. /\ IsFiniteSet(Served(r, f, a)) /\ IsFiniteSet(Served(r, f, b))
      /\ Cardinality(Served(r, f, a)) \in Nat /\ Cardinality(Served(r, f, b)) \in Nat
  <2>1. IsFiniteSet(0 .. r - 1)
    BY FS_Interval
  <2> QED BY <2>1, FS_Subset, FS_CardinalityType DEF Served
<1>2. ASSUME NEW i \in S
      PROVE  i \in 0 .. r - 1 /\ (i \div f) - 1 \in Nat /\ i = f * (i \div f) + a
  <2>1. i \in Nat /\ i \in 0 .. r - 1 /\ i % f = a /\ i # a
    BY DEF Served
  <2>2. i = f * (i \div f) + (i % f) /\ (i \div f) \in Nat
    BY <2>1
  <2>3. i \div f # 0
    BY <2>1, <2>2
  <2> QED BY <2>1, <2>2, <2>3
<1>3. ASSUME NEW i \in S PROVE m[i] \in Served(r, f, b)
  <2> DEFINE q == (i \div f) - 1
  <2>1. q \in Nat /\ i \in 0 .. r - 1 /\ i = f * (q + 1) + a /\ m[i] = f * q + b
    BY <1>2
  <2> HIDE DEF q, m
  <2>2. f * (q + 1) = f * q + f /\ f * q \in Nat
    BY <2>1
  <2>3. (f * q + b) % f = b
    BY <2>1, RemainderOf
  <2>4. m[i] \in 0 .. r - 1
    BY <2>1, <2>2
  <2> QED BY <2>1, <2>3, <2>4 DEF Served
<1>4. ASSUME NEW i \in S, NEW j \in S, m[i] = m[j] PROVE i = j
  <2> DEFINE p == (i \div f) - 1
             q == (j \div f) - 1
  <2>1. p \in Nat /\ q \in Nat /\ i = f * (p + 1) + a /\ j = f * (q + 1) + a /\ f * p + b = f * q + b
    BY <1>2, <1>4
  <2> HIDE DEF p, q, m
  <2>2. p = q
    BY <2>1
  <2> QED BY <2>1, <2>2
<1>5. m \in Injection(S, Served(r, f, b))
  <2>1. m \in [S -> Served(r, f, b)]
    BY <1>3
  <2>2. DOMAIN m = S
    OBVIOUS
  <2> HIDE DEF m, S
  <2> QED BY <1>4, <2>1, <2>2 DEF Injection, IsInjective
<1>6. Cardinality(S) <= Cardinality(Served(r, f, b))
  <2> HIDE DEF m, S
  <2> QED BY <1>1, <1>5, FS_Injection
<1>7. Cardinality(S) >= Cardinality(Served(r, f, a)) - 1
  BY <1>1, FS_RemoveElement
<1>8. Cardinality(S) \in Nat
  BY <1>1, FS_RemoveElement, FS_CardinalityType
<1> QED BY <1>1, <1>6, <1>7, <1>8

LEMMA RolesShareOut ==
  ASSUME NEW H, NEW r \in Nat, NEW f \in Nat \ {0}, NEW allocated \in Seq(H), NEW batch \in H
  PROVE  P!RolesPartition(r, f, allocated, batch)
<1> DEFINE nodes == P!Nodes(allocated, batch)
           hosts == P!ToSet(allocated)
           l == P!NodeLayout(r, f, allocated, batch)
           front == SubSeq(nodes, 1, f)
           rest == SubSeq(nodes, f + 1, Len(nodes))
           served == [i \in 0 .. r - 1 |-> nodes[(i % f) + 1]]
           load(x) == Cardinality({i \in DOMAIN served : served[i] = x})
<1> SUFFICES ASSUME l # P!Error
             PROVE  /\ P!IsInjective(front \o rest) /\ P!ToSet(front \o rest) = hosts
                    /\ front[1] = batch /\ Len(rest) = r
                    /\ \A x, y \in P!ToSet(front) : load(x) <= load(y) + 1
  <2>1. l # P!Error => l = [frontends |-> front, inference |-> rest, frontend_of |-> served]
    BY DEF P!NodeLayout
  <2> HIDE DEF l, front, rest, served
  <2>2. CASE l = P!Error
    BY <2>2, Zenon DEF P!RolesPartition, l
  <2>3. CASE l # P!Error
    <3>1. l.frontends = front /\ l.inference = rest /\ l.frontend_of = served
      BY <2>1, <2>3
    <3>2. \A x : load(x) = P!Cardinality({i \in DOMAIN l.frontend_of : l.frontend_of[i] = x})
      BY <3>1, SameCount, Zenon
    <3> HIDE DEF load
    <3>3. l # P!Error =>
            /\ P!IsInjective(l.frontends \o l.inference) /\ P!ToSet(l.frontends \o l.inference) = hosts
            /\ l.frontends[1] = batch /\ Len(l.inference) = r
            /\ \A x, y \in P!ToSet(l.frontends) :
                 P!Cardinality({i \in DOMAIN l.frontend_of : l.frontend_of[i] = x})
                   <= P!Cardinality({i \in DOMAIN l.frontend_of : l.frontend_of[i] = y}) + 1
      BY <2>3, <3>1, <3>2
    <3> QED BY <3>3, Zenon DEF P!RolesPartition, l
  <2> QED BY <2>2, <2>3
<1>1. batch \in hosts /\ Cardinality(hosts) = r + f
  BY SameCount, Zenon DEF P!NodeLayout
<1>2. OneEach(nodes, H, hosts, batch)
  <2>1. hosts \cup {batch} = hosts
    BY <1>1
  <2> QED BY <2>1, NodesOneEach
<1> HIDE DEF l, nodes, hosts, front, rest
<1>3. /\ nodes \in Seq(H) /\ Len(nodes) = r + f /\ DOMAIN nodes = 1 .. r + f /\ nodes[1] = batch
      /\ P!ToSet(nodes) = hosts /\ \A i, j \in DOMAIN nodes : nodes[i] = nodes[j] => i = j
  <2>1. nodes \in Seq(H) /\ nodes[1] = batch /\ P!ToSet(nodes) = hosts
    BY <1>2 DEF OneEach
  <2>2. \A i, j \in DOMAIN nodes : nodes[i] = nodes[j] => i = j
    BY <1>2 DEF OneEach
  <2>3. Cardinality(P!ToSet(nodes)) = Len(nodes)
    BY <2>1, <2>2, Counted
  <2> QED BY <1>1, <2>1, <2>2, <2>3
<1>4. /\ front \in Seq(H) /\ Len(front) = f /\ \A i \in 1 .. f : front[i] = nodes[i]
      /\ rest \in Seq(H) /\ Len(rest) = r /\ front \o rest = nodes
  <2>1. /\ front \in Seq(H) /\ Len(front) = f /\ \A i \in 1 .. f : front[i] = nodes[i]
        /\ rest \in Seq(H) /\ Len(rest) = r /\ \A i \in 1 .. r : rest[i] = nodes[f + i]
    <3>2. \A i \in 1 .. r + f : nodes[i] \in H
      BY <1>3
    <3>3. front \in Seq(H) /\ Len(front) = f /\ \A i \in 1 .. f : front[i] = nodes[i]
      <4>1. \A i \in 1 .. f : nodes[i] \in H
        BY <3>2
      <4>2. /\ front \in Seq(H) /\ Len(front) = IF 1 <= f THEN f - 1 + 1 ELSE 0
            /\ \A i \in 1 .. f - 1 + 1 : front[i] = nodes[1 + i - 1]
        BY <4>1, SubSeqProperties DEF front
      <4>3. f - 1 + 1 = f /\ 1 <= f /\ \A i \in 1 .. f : 1 + i - 1 = i
        OBVIOUS
      <4> QED BY <4>2, <4>3
    <3>4. rest \in Seq(H) /\ Len(rest) = r /\ \A i \in 1 .. r : rest[i] = nodes[f + i]
      <4>1. \A i \in f + 1 .. r + f : nodes[i] \in H
        BY <3>2
      <4>2. rest = SubSeq(nodes, f + 1, r + f)
        BY <1>3 DEF rest
      <4>3. /\ rest \in Seq(H) /\ Len(rest) = IF f + 1 <= r + f THEN (r + f) - (f + 1) + 1 ELSE 0
            /\ \A i \in 1 .. (r + f) - (f + 1) + 1 : rest[i] = nodes[f + 1 + i - 1]
        BY <4>1, <4>2, SubSeqProperties
      <4> QED BY <4>3
    <3> QED BY <3>3, <3>4
  <2>2. /\ front \o rest \in Seq(H) /\ Len(front \o rest) = r + f
        /\ \A i \in 1 .. r + f : (front \o rest)[i] = nodes[i]
    <3>1. /\ front \o rest \in Seq(H) /\ Len(front \o rest) = Len(front) + Len(rest)
          /\ \A i \in 1 .. Len(front) + Len(rest) :
               (front \o rest)[i] = IF i <= Len(front) THEN front[i] ELSE rest[i - Len(front)]
      BY <2>1, ConcatProperties
    <3>2. ASSUME NEW i \in 1 .. r + f PROVE (front \o rest)[i] = nodes[i]
      <4>1. CASE i <= f
        BY <2>1, <3>1, <4>1
      <4>2. CASE ~(i <= f)
        <5>1. i - f \in 1 .. r /\ f + (i - f) = i
          BY <4>2
        <5> QED BY <2>1, <3>1, <4>2, <5>1
      <4> QED BY <4>1, <4>2
    <3>3. Len(front) + Len(rest) = r + f
      BY <2>1
    <3> QED BY <3>1, <3>2, <3>3, Zenon
  <2>3. front \o rest = nodes
    BY <1>3, <2>2, SeqEqual
  <2> QED BY <2>1, <2>3
<1>5. front[1] = batch
  BY <1>3, <1>4
<1>6. P!IsInjective(front \o rest) /\ P!ToSet(front \o rest) = hosts
  BY <1>3, <1>4 DEF P!IsInjective
<1>7. ASSUME NEW x \in P!ToSet(front) PROVE \E a \in 0 .. f - 1 : load(x) = Cardinality(Served(r, f, a))
  <2>1. PICK k \in 1 .. f : x = nodes[k]
    BY <1>4 DEF P!ToSet
  <2>2. ASSUME NEW i \in 0 .. r - 1 PROVE served[i] = x <=> i % f = k - 1
    <3>1. i % f \in 0 .. f - 1
      OBVIOUS
    <3>2. (i % f) + 1 \in 1 .. r + f /\ k \in 1 .. r + f
      BY <3>1
    <3>3. nodes[(i % f) + 1] = nodes[k] <=> (i % f) + 1 = k
      BY <1>3, <3>2
    <3> QED BY <2>1, <3>1, <3>3
  <2>3. {i \in DOMAIN served : served[i] = x} = Served(r, f, k - 1)
    BY <2>2 DEF Served
  <2>4. k - 1 \in 0 .. f - 1
    OBVIOUS
  <2> HIDE DEF served
  <2> QED BY <2>3, <2>4
<1>8. ASSUME NEW x \in P!ToSet(front), NEW y \in P!ToSet(front) PROVE load(x) <= load(y) + 1
  <2> HIDE DEF served, load
  <2>1. PICK a \in 0 .. f - 1 : load(x) = Cardinality(Served(r, f, a))
    BY <1>7
  <2>2. PICK b \in 0 .. f - 1 : load(y) = Cardinality(Served(r, f, b))
    BY <1>7
  <2> QED BY <2>1, <2>2, ServedBalanced
<1> HIDE DEF served, load
<1> QED BY <1>4, <1>5, <1>6, <1>8

-----------------------------------------------------------------------------
(* Layout: the members of a pack                                            *)

\* The sums of a set are given by their recursion.
LEMMA SumsUnique ==
  ASSUME NEW f, NEW g, NEW S, IsFiniteSet(S), Sums(f, g, SUBSET S) PROVE g[S] = Sum(f, S)
<1> DEFINE F == {U \in SUBSET S : g[U] = Partial(f, S)[U]}
<1>1. ASSUME NEW U \in SUBSET S
      PROVE  g[U] = Summand(f, g, U) /\ Partial(f, S)[U] = Summand(f, Partial(f, S), U)
  BY PartialSums, Zenon DEF Sums
<1>2. {} \in F
  BY <1>1 DEF Summand
<1>3. ASSUME NEW U \in SUBSET S, U # {}, \A x \in U : U \ {x} \in F PROVE U \in F
  <2>1. Picked(U) \in U
    BY <1>3 DEF Picked
  <2>2. g[U \ {Picked(U)}] = Partial(f, S)[U \ {Picked(U)}]
    BY <1>3, <2>1
  <2> QED BY <1>1, <1>3, <2>2 DEF Summand
<1>4. S \in F
  <2> HIDE DEF F
  <2> QED BY <1>2, <1>3, SubsetInduction
<1> QED BY <1>4 DEF Sum

Width(member) == member.replicas + member.frontends
Widths(members) == [j \in DOMAIN members |-> Width(members[j])]
WidthSums(g, members, S) ==
  g = [s \in SUBSET S |-> IF s = {} THEN 0 ELSE Width(members[Picked(s)]) + g[s \ {Picked(s)}]]

LEMMA OffsetSum ==
  ASSUME NEW members, NEW i \in Nat, 1 .. i - 1 \subseteq DOMAIN members
  PROVE  P!Offset(members, i) = Sum(Widths(members), 1 .. i - 1)
<1> DEFINE S == 1 .. i - 1
           g == CHOOSE h : WidthSums(h, members, S)
<1>1. IsFiniteSet(S)
  BY FS_Interval
<1>2. ASSUME NEW h PROVE WidthSums(h, members, S) <=> Sums(Widths(members), h, SUBSET S)
  <2>1. ASSUME NEW s \in SUBSET S, s # {} PROVE Widths(members)[Picked(s)] = Width(members[Picked(s)])
    <3>1. Picked(s) \in s
      BY <2>1 DEF Picked
    <3> QED BY <3>1 DEF Widths
  <2> HIDE DEF S
  <2> QED BY <2>1 DEF WidthSums, Sums, Summand
<1>3. WidthSums(g, members, S)
  <2>1. \E h : Sums(Widths(members), h, SUBSET S)
    BY <1>1, SumsExist
  <2>2. \E h : WidthSums(h, members, S)
    BY <1>2, <2>1, Zenon
  <2> QED BY <2>2, Zenon
<1>4. P!Offset(members, i) = g[S]
  BY Zenon DEF P!Offset, P!MapThenSumSet, P!MapThenFoldSet, WidthSums, Width, Picked
<1> HIDE DEF g, S
<1>5. g[S] = Sum(Widths(members), S)
  BY <1>1, <1>2, <1>3, SumsUnique
<1> QED BY <1>4, <1>5 DEF S

LEMMA Increasing ==
  ASSUME NEW n \in Nat, NEW off \in [1 .. n + 1 -> Nat], \A i \in 1 .. n : off[i] <= off[i + 1],
         NEW i \in 1 .. n + 1, NEW j \in i .. n + 1
  PROVE  off[i] <= off[j]
<1> DEFINE Good(d) == i + d <= n + 1 => off[i] <= off[i + d]
           F == {d \in Nat : Good(d)}
<1>1. Good(0)
  OBVIOUS
<1>2. ASSUME NEW d \in Nat, Good(d) PROVE Good(d + 1)
  <2> SUFFICES ASSUME i + (d + 1) <= n + 1 PROVE off[i] <= off[i + (d + 1)]
    OBVIOUS
  <2>1. i + d \in 1 .. n /\ i + (d + 1) = (i + d) + 1 /\ (i + d) + 1 \in 1 .. n + 1
    OBVIOUS
  <2>2. off[i] <= off[i + d] /\ off[i + d] <= off[(i + d) + 1]
    BY <1>2, <2>1
  <2>3. off[i] \in Nat /\ off[i + d] \in Nat /\ off[(i + d) + 1] \in Nat
    BY <2>1
  <2> QED BY <2>1, <2>2, <2>3
<1>3. j - i \in Nat /\ i + (j - i) = j /\ j <= n + 1
  OBVIOUS
<1>4. Good(j - i)
  <2> HIDE DEF Good
  <2>1. 0 \in F /\ \A d \in Nat : d \in F => d + 1 \in F
    BY <1>1, <1>2
  <2> HIDE DEF F
  <2>2. Nat \subseteq F
    BY <2>1, NatSetInduction
  <2> QED BY <1>3, <2>2 DEF F
<1> QED BY <1>3, <1>4

\* Where the members' nodes begin, as a function.
Offsets(members) == [i \in 1 .. Len(members) + 1 |-> P!Offset(members, i)]

LEMMA OffsetsAdd ==
  ASSUME NEW members \in Seq(Members)
  PROVE  /\ Offsets(members) \in [1 .. Len(members) + 1 -> Nat] /\ Offsets(members)[1] = 0
         /\ \A i \in 1 .. Len(members) : /\ Width(members[i]) \in Nat
                                         /\ Offsets(members)[i + 1] = Offsets(members)[i] + Width(members[i])
<1> DEFINE n == Len(members)
           w == Widths(members)
           off == Offsets(members)
           F == {k \in Nat : k <= n => off[k + 1] \in Nat}
<1>1. n \in Nat /\ DOMAIN members = 1 .. n
  OBVIOUS
<1>2. ASSUME NEW i \in 1 .. n PROVE w[i] = Width(members[i]) /\ Width(members[i]) \in Nat
  <2>1. members[i] \in Members
    BY <1>1
  <2> QED BY <1>1, <2>1 DEF Widths, Width, Members
<1> HIDE DEF w, n
<1>3. ASSUME NEW i \in 1 .. n + 1 PROVE off[i] = Sum(w, 1 .. i - 1)
  <2>1. i \in Nat /\ 1 .. i - 1 \subseteq DOMAIN members
    BY <1>1
  <2>2. P!Offset(members, i) = Sum(w, 1 .. i - 1)
    BY <2>1, OffsetSum DEF w
  <2> QED BY <2>2 DEF Offsets, n
<1> HIDE DEF off
<1>4. off[1] = 0
  <2>1. 1 \in 1 .. n + 1 /\ 1 .. 1 - 1 = {}
    BY <1>1
  <2> QED BY <1>3, <2>1, SumEmpty
<1>5. ASSUME NEW i \in 1 .. n PROVE off[i + 1] = off[i] + Width(members[i])
  <2>1. /\ i \in 1 .. i /\ (1 .. i) \ {i} = 1 .. i - 1 /\ (i + 1) - 1 = i
        /\ i \in 1 .. n + 1 /\ i + 1 \in 1 .. n + 1
    BY <1>1
  <2>2. \A x \in 1 .. i : w[x] \in Int
    BY <1>1, <1>2
  <2>3. IsFiniteSet(1 .. i) /\ IsFiniteSet(1 .. i - 1)
    BY FS_Interval
  <2>4. Sum(w, 1 .. i) = w[i] + Sum(w, (1 .. i) \ {i})
    BY <2>1, <2>2, <2>3, SumTakesOut
  <2>5. off[i] = Sum(w, 1 .. i - 1) /\ off[i + 1] = Sum(w, 1 .. i)
    BY <1>3, <2>1
  <2>6. Sum(w, 1 .. i - 1) \in Int
    <3>1. \A x \in 1 .. i - 1 : w[x] \in Int
      BY <2>2
    <3> QED BY <2>3, <3>1, SumType
  <2>7. off[i + 1] = w[i] + off[i]
    BY <2>1, <2>4, <2>5, Zenon
  <2>8. w[i] = Width(members[i]) /\ Width(members[i]) \in Int /\ off[i] \in Int
    BY <1>2, <2>5, <2>6
  <2> QED BY <2>7, <2>8
<1>6. \A k \in 1 .. n + 1 : off[k] \in Nat
  <2>1. 0 \in F
    BY <1>4
  <2>2. ASSUME NEW k \in Nat, k \in F PROVE k + 1 \in F
    <3> SUFFICES ASSUME k + 1 <= n PROVE off[(k + 1) + 1] \in Nat
      OBVIOUS
    <3>1. k + 1 \in 1 .. n /\ off[k + 1] \in Nat
      BY <1>1, <2>2
    <3> QED BY <1>2, <1>5, <3>1
  <2>3. Nat \subseteq F
    <3> HIDE DEF F
    <3> QED BY <2>1, <2>2, NatSetInduction
  <2>4. ASSUME NEW k \in 1 .. n + 1 PROVE off[k] \in Nat
    <3>1. k - 1 \in Nat /\ k - 1 <= n /\ (k - 1) + 1 = k
      BY <1>1
    <3> QED BY <2>3, <3>1
  <2> QED BY <2>4
<1>7. off = [i \in 1 .. n + 1 |-> off[i]]
  BY DEF off, Offsets, n
<1>8. off \in [1 .. n + 1 -> Nat]
  BY <1>6, <1>7
<1> QED BY <1>2, <1>4, <1>5, <1>8 DEF off, n

\* Every place before the end of the last member is one member's.
LEMMA Blocks ==
  ASSUME NEW n \in Nat, NEW off \in [1 .. n + 1 -> Nat], off[1] = 0,
         \A i \in 1 .. n : off[i] <= off[i + 1], NEW k \in 1 .. off[n + 1]
  PROVE  \E i \in 1 .. n : /\ off[i] < k /\ k <= off[i + 1]
                           /\ \A j \in 1 .. n : off[j] < k /\ k <= off[j + 1] => j = i
<1> DEFINE ends == {i \in 1 .. n + 1 : k <= off[i]}
<1>0. n + 1 \in 1 .. n + 1 /\ 1 \in 1 .. n + 1 /\ off[n + 1] \in Nat /\ k \in Nat \ {0}
  OBVIOUS
<1>1. ends \subseteq Nat /\ ends # {}
  BY <1>0
<1>2. PICK m \in ends : \A j \in ends : m <= j
  <2> HIDE DEF ends
  <2> QED BY <1>1, Least
<1>3. m \in 1 .. n + 1 /\ k <= off[m] /\ m # 1
  BY <1>0
<1>4. m - 1 \in 1 .. n /\ (m - 1) + 1 = m /\ m - 1 \in 1 .. n + 1
  BY <1>3
<1>5. off[m - 1] < k
  <2>1. m - 1 \notin ends
    BY <1>2, <1>4
  <2>2. ~(k <= off[m - 1]) /\ off[m - 1] \in Nat
    BY <1>4, <2>1
  <2> QED BY <1>0, <2>2
<1>6. ASSUME NEW j \in 1 .. n, off[j] < k, k <= off[j + 1] PROVE j = m - 1
  <2>1. j + 1 \in ends /\ j \in 1 .. n + 1
    BY <1>6
  <2>2. m <= j + 1
    BY <1>2, <2>1
  <2>3. CASE m <= j
    <3>1. j \in m .. n + 1
      BY <1>3, <2>1, <2>3
    <3>2. off[m] <= off[j]
      BY <1>3, <3>1, Increasing
    <3>3. off[m] \in Nat /\ off[j] \in Nat
      BY <1>3, <2>1
    <3> QED BY <1>0, <1>3, <1>6, <3>2, <3>3
  <2>4. CASE m > j
    BY <1>3, <2>2, <2>4
  <2> QED BY <1>3, <2>3, <2>4
<1> QED BY <1>3, <1>4, <1>5, <1>6

\* A part of a sequence: what comes after place a and not after place b.
IsPart(part, nodes, a, b, H) ==
  /\ part \in Seq(H) /\ Len(part) = b - a /\ DOMAIN part = 1 .. b - a
  /\ \A i \in 1 .. b - a : part[i] = nodes[a + i]
  /\ \A h : h \in P!ToSet(part) <=> \E k \in DOMAIN nodes : a < k /\ k <= b /\ h = nodes[k]

LEMMA Part ==
  ASSUME NEW H, NEW nodes \in Seq(H), NEW a \in Nat, NEW b \in a .. Len(nodes),
         NEW part, part = SubSeq(nodes, a + 1, b)
  PROVE  IsPart(part, nodes, a, b, H)
<1>1. /\ Len(nodes) \in Nat /\ DOMAIN nodes = 1 .. Len(nodes) /\ b \in Nat /\ a <= b
      /\ \A i \in a + 1 .. b : nodes[i] \in H
  OBVIOUS
<1>2. /\ part \in Seq(H) /\ Len(part) = IF a + 1 <= b THEN b - (a + 1) + 1 ELSE 0
      /\ \A i \in 1 .. b - (a + 1) + 1 : part[i] = nodes[a + 1 + i - 1]
  BY <1>1, SubSeqProperties
<1>3. b - (a + 1) + 1 = b - a /\ (~(a + 1 <= b) => b - a = 0) /\ \A i \in 1 .. b - a : a + 1 + i - 1 = a + i
  BY <1>1
<1>4. /\ Len(part) = b - a /\ DOMAIN part = 1 .. b - a
      /\ \A i \in 1 .. b - a : part[i] = nodes[a + i]
  BY <1>2, <1>3
<1>5. ASSUME NEW h PROVE h \in P!ToSet(part) <=> \E k \in DOMAIN nodes : a < k /\ k <= b /\ h = nodes[k]
  <2>1. ASSUME h \in P!ToSet(part) PROVE \E k \in DOMAIN nodes : a < k /\ k <= b /\ h = nodes[k]
    <3>1. PICK i \in 1 .. b - a : h = part[i]
      BY <1>4, <2>1 DEF P!ToSet
    <3>2. a + i \in DOMAIN nodes /\ a < a + i /\ a + i <= b /\ h = nodes[a + i]
      BY <1>1, <1>4, <3>1
    <3> QED BY <3>2
  <2>2. ASSUME NEW k \in DOMAIN nodes, a < k, k <= b, h = nodes[k] PROVE h \in P!ToSet(part)
    <3>1. k - a \in 1 .. b - a /\ a + (k - a) = k
      BY <1>1, <2>2
    <3>2. h = part[k - a]
      BY <1>4, <2>2, <3>1
    <3> QED BY <1>4, <3>1, <3>2 DEF P!ToSet
  <2> QED BY <2>1, <2>2
<1> QED BY <1>2, <1>4, <1>5 DEF IsPart

\* Members that have as many nodes as they asked for are laid out on them.
LEMMA MemberLaidOut ==
  ASSUME NEW H, NEW nodes \in Seq(H), \A i, j \in DOMAIN nodes : nodes[i] = nodes[j] => i = j,
         NEW r \in Nat, NEW f \in Nat \ {0}, Len(nodes) = r + f
  PROVE  LET l == P!NodeLayout(r, f, nodes, nodes[1]) IN l # P!Error /\ l.frontends[1] = nodes[1]
<1> DEFINE laid == P!Nodes(nodes, nodes[1])
           front == SubSeq(laid, 1, f)
           rest == SubSeq(laid, f + 1, Len(laid))
           served == [i \in 0 .. r - 1 |-> laid[(i % f) + 1]]
           l == P!NodeLayout(r, f, nodes, nodes[1])
<1>1. /\ 1 \in DOMAIN nodes /\ nodes[1] \in H /\ nodes[1] \in P!ToSet(nodes)
      /\ P!Cardinality(P!ToSet(nodes)) = r + f
  <2>1. 1 \in DOMAIN nodes
    OBVIOUS
  <2>2. Cardinality(P!ToSet(nodes)) = r + f
    BY Counted
  <2> QED BY <2>1, <2>2, SameCount DEF P!ToSet
<1>2. l = [frontends |-> front, inference |-> rest, frontend_of |-> served]
  BY <1>1, Zenon DEF P!NodeLayout
<1>3. laid \in Seq(H) /\ laid # <<>> /\ laid[1] = nodes[1]
  BY <1>1, NodesOneEach DEF OneEach
<1> HIDE DEF laid, rest, served, l
<1>4. front[1] = laid[1]
  BY <1>3
<1> HIDE DEF front
<1>5. l # P!Error /\ l.frontends = front
  BY <1>2 DEF P!Error
<1> QED BY <1>3, <1>4, <1>5 DEF l

\* A rendered pack has no more nodes than an allocation.
LEMMA RenderedFits ==
  ASSUME NEW packs, P!RenderPacks(packs) # P!Error
  PROVE  \A i \in DOMAIN packs : ~(P!Offset(packs[i], Len(packs[i]) + 1) > PackNodes)
<1> SUFFICES ASSUME NEW i \in DOMAIN packs, P!Offset(packs[i], Len(packs[i]) + 1) > PackNodes
             PROVE  P!RenderPacks(packs) = P!Error
  OBVIOUS
<1>1. \E j \in DOMAIN packs : packs[j] = <<>> \/ P!Offset(packs[j], Len(packs[j]) + 1) > PackNodes
  OBVIOUS
<1> QED BY <1>1 DEF P!RenderPacks

LEMMA PacksApart ==
  ASSUME NEW H, NEW members \in Seq(Members), NEW size \in Nat, NEW allocated \in Seq(H), NEW batch \in H
  PROVE  P!PacksDisjoint(members, size, allocated, batch)
<1> DEFINE n == Len(members)
           off == Offsets(members)
           nodes == P!Nodes(allocated, batch)
           hosts == P!ToSet(allocated)
           part(i) == SubSeq(nodes, P!Offset(members, i) + 1, P!Offset(members, i + 1))
           rest == SubSeq(nodes, P!Offset(members, n + 1) + 1, Len(nodes))
           laid(i) == P!NodeLayout(members[i].replicas, members[i].frontends, part(i), part(i)[1])
           p == P!Partition(members, size, allocated, batch)
           parts == [i \in DOMAIN members |-> part(i)]
           mapping == [i \in DOMAIN members |-> laid(i)]
           out == [nodes |-> parts, mapping |-> mapping, unused |-> rest]
           fits == batch \in hosts /\ Cardinality(hosts) = size /\ ~(P!Offset(members, n + 1) > size)
           of(h) == {i \in DOMAIN members : h \in P!ToSet(part(i))}
<1>1. p = IF fits THEN out ELSE P!Error
  <2>1. p = IF \/ batch \notin hosts \/ Cardinality(hosts) # size
               \/ P!Offset(members, n + 1) > size
            THEN P!Error ELSE out
    BY SameCount, Zenon DEF P!Partition
  <2> HIDE DEF p, out, hosts
  <2> QED BY <2>1, Zenon
<1>2. /\ n \in Nat /\ DOMAIN members = 1 .. n
      /\ off \in [1 .. n + 1 -> Nat] /\ off[1] = 0 /\ n + 1 \in 1 .. n + 1
      /\ \A i \in 1 .. n : /\ Width(members[i]) \in Nat /\ off[i + 1] = off[i] + Width(members[i])
                           /\ i \in 1 .. n + 1 /\ i + 1 \in 1 .. n + 1
  <2>1. n \in Nat /\ DOMAIN members = 1 .. n /\ n + 1 \in 1 .. n + 1
    OBVIOUS
  <2> HIDE DEF off
  <2> QED BY <2>1, OffsetsAdd DEF off
<1>3. \A i \in 1 .. n + 1 : P!Offset(members, i) = off[i]
  BY DEF Offsets
<1> HIDE DEF off
<1>4. ASSUME NEW i \in 1 .. n
      PROVE  /\ off[i] \in Nat /\ off[i + 1] \in Nat /\ off[n + 1] \in Nat
             /\ off[i] <= off[i + 1] /\ off[i + 1] <= off[n + 1]
  <2>1. off[i] \in Nat /\ off[i + 1] \in Nat /\ off[n + 1] \in Nat
    BY <1>2
  <2>2. ASSUME NEW j \in 1 .. n PROVE off[j] <= off[j + 1]
    <3>1. j \in 1 .. n + 1 /\ off[j + 1] = off[j] + Width(members[j]) /\ Width(members[j]) \in Nat
      BY <1>2
    <3>2. off[j] \in Nat
      BY <1>2, <3>1
    <3> QED BY <3>1, <3>2
  <2>3. i + 1 \in 1 .. n + 1 /\ n + 1 \in i + 1 .. n + 1
    BY <1>2
  <2>4. off[i + 1] <= off[n + 1]
    <3> HIDE DEF n
    <3> QED BY <1>2, <2>2, <2>3, Increasing
  <2> QED BY <1>2, <2>1, <2>2, <2>4
<1> HIDE DEF n
<1>5. ASSUME fits
      PROVE  /\ \A h \in hosts : P!Cardinality(of(h)) + (IF h \in P!ToSet(rest) THEN 1 ELSE 0) = 1
             /\ \A i \in DOMAIN members : laid(i) # P!Error /\ laid(i).frontends[1] = part(i)[1]
  <2>1. OneEach(nodes, H, hosts, batch)
    <3>1. hosts \cup {batch} = hosts
      BY <1>5
    <3> QED BY <3>1, NodesOneEach
  <2> HIDE DEF nodes
  <2>2. /\ nodes \in Seq(H) /\ Len(nodes) = size /\ DOMAIN nodes = 1 .. size /\ P!ToSet(nodes) = hosts
        /\ \A i, j \in DOMAIN nodes : nodes[i] = nodes[j] => i = j
    <3>1. /\ nodes \in Seq(H) /\ P!ToSet(nodes) = hosts
          /\ \A i, j \in DOMAIN nodes : nodes[i] = nodes[j] => i = j
      BY <2>1 DEF OneEach
    <3>2. Cardinality(P!ToSet(nodes)) = Len(nodes)
      BY <3>1, Counted
    <3> QED BY <1>5, <3>1, <3>2
  <2> HIDE DEF hosts
  <2>3. off[n + 1] <= size /\ off[n + 1] \in Nat
    BY <1>2, <1>3, <1>5
  <2>4. ASSUME NEW i \in 1 .. n
        PROVE  /\ part(i) \in Seq(H) /\ Len(part(i)) = Width(members[i])
               /\ \A j \in 1 .. Width(members[i]) : part(i)[j] = nodes[off[i] + j]
               /\ \A h : h \in P!ToSet(part(i)) <=>
                           \E k \in DOMAIN nodes : off[i] < k /\ k <= off[i + 1] /\ h = nodes[k]
    <3>1. part(i) = SubSeq(nodes, off[i] + 1, off[i + 1])
      BY <1>2, <1>3
    <3>2. off[i] \in Nat /\ off[i + 1] \in off[i] .. Len(nodes) /\ off[i + 1] - off[i] = Width(members[i])
      BY <1>2, <1>4, <2>2, <2>3
    <3> HIDE DEF part
    <3>3. off[i] \in Nat /\ off[i + 1] \in off[i] .. Len(nodes) /\ nodes \in Seq(H)
      BY <2>2, <3>2
    <3>4. IsPart(part(i), nodes, off[i], off[i + 1], H)
      BY <3>1, <3>3, Part, Zenon
    <3> QED BY <3>2, <3>4 DEF IsPart
  <2>5. \A h : h \in P!ToSet(rest) <=> \E k \in DOMAIN nodes : off[n + 1] < k /\ k <= size /\ h = nodes[k]
    <3>1. rest = SubSeq(nodes, off[n + 1] + 1, Len(nodes))
      BY <1>2, <1>3
    <3>2. off[n + 1] \in Nat /\ Len(nodes) \in off[n + 1] .. Len(nodes) /\ Len(nodes) = size
      BY <2>2, <2>3
    <3> HIDE DEF rest
    <3>3. IsPart(rest, nodes, off[n + 1], Len(nodes), H)
      BY <2>2, <3>1, <3>2, Part, Zenon
    <3> QED BY <3>2, <3>3 DEF IsPart
  <2> HIDE DEF part, rest
  <2>6. ASSUME NEW h \in hosts
        PROVE  Cardinality(of(h)) + (IF h \in P!ToSet(rest) THEN 1 ELSE 0) = 1
    <3>1. PICK k \in 1 .. size : h = nodes[k]
      BY <2>2 DEF P!ToSet
    <3>2. /\ \A i \in 1 .. n : h \in P!ToSet(part(i)) <=> off[i] < k /\ k <= off[i + 1]
          /\ h \in P!ToSet(rest) <=> off[n + 1] < k
      BY <2>2, <2>4, <2>5, <3>1
    <3>3. CASE k <= off[n + 1]
      <4>1. k \in 1 .. off[n + 1] /\ \A i \in 1 .. n : off[i] <= off[i + 1]
        BY <1>4, <2>3, <3>3
      <4>2. PICK i \in 1 .. n : /\ off[i] < k /\ k <= off[i + 1]
                                /\ \A j \in 1 .. n : off[j] < k /\ k <= off[j + 1] => j = i
        BY <1>2, <4>1, Blocks
      <4>3. of(h) = {i}
        BY <1>2, <3>2, <4>2
      <4>4. h \notin P!ToSet(rest)
        BY <2>3, <3>2, <3>3
      <4>5. Cardinality({i}) = 1
        BY FS_Singleton
      <4> HIDE DEF of
      <4> QED BY <4>3, <4>4, <4>5
    <3>4. CASE ~(k <= off[n + 1])
      <4>1. \A i \in 1 .. n : ~(k <= off[i + 1])
        BY <1>4, <3>4
      <4>2. of(h) = {}
        BY <1>2, <3>2, <4>1
      <4>3. h \in P!ToSet(rest)
        BY <2>3, <3>2, <3>4
      <4>4. Cardinality({}) = 0
        BY FS_EmptySet
      <4> HIDE DEF of
      <4> QED BY <4>2, <4>3, <4>4
    <3> QED BY <3>3, <3>4
  <2>7. ASSUME NEW i \in 1 .. n PROVE laid(i) # P!Error /\ laid(i).frontends[1] = part(i)[1]
    <3>1. members[i].replicas \in Nat /\ members[i].frontends \in Nat \ {0}
      <4>1. members[i] \in Members
        BY <1>2
      <4> QED BY <4>1 DEF Members
    <3>2. part(i) \in Seq(H) /\ Len(part(i)) = members[i].replicas + members[i].frontends
      BY <2>4 DEF Width
    <3>3. ASSUME NEW j \in DOMAIN part(i), NEW k \in DOMAIN part(i), part(i)[j] = part(i)[k] PROVE j = k
      <4>1. j \in 1 .. Width(members[i]) /\ k \in 1 .. Width(members[i])
        BY <2>4
      <4>2. off[i] + j \in 1 .. size /\ off[i] + k \in 1 .. size
        <5>1. /\ off[i] \in Nat /\ off[n + 1] \in Nat /\ off[i + 1] = off[i] + Width(members[i])
              /\ off[i + 1] <= off[n + 1] /\ Width(members[i]) \in Nat
          BY <1>2, <1>4
        <5> DEFINE o == off[i]
                   w == Width(members[i])
                   e == off[n + 1]
        <5>2. /\ o \in Nat /\ w \in Nat /\ e \in Nat /\ o + w <= e /\ e <= size
              /\ j \in 1 .. w /\ k \in 1 .. w
          BY <2>3, <4>1, <5>1
        <5> HIDE DEF o, w, e
        <5>3. o + j \in 1 .. size /\ o + k \in 1 .. size
          BY <5>2
        <5> QED BY <5>3 DEF o
      <4>3. nodes[off[i] + j] = nodes[off[i] + k]
        BY <2>4, <3>3, <4>1
      <4>4. off[i] + j = off[i] + k
        BY <2>2, <4>2, <4>3
      <4> QED BY <1>4, <4>1, <4>4
    <3> QED BY <3>1, <3>2, <3>3, MemberLaidOut
  <2> HIDE DEF of, laid
  <2> QED BY <1>2, <2>6, <2>7, SameCount
<1>6. ASSUME P!RenderPacks(<<members>>) # P!Error, size = PackNodes, batch \in hosts,
            Cardinality(hosts) = size
      PROVE  fits
  <2>1. ~(P!Offset(members, n + 1) > PackNodes)
    <3> DEFINE packs == <<members>>
    <3>1. \A i \in DOMAIN packs : ~(P!Offset(packs[i], Len(packs[i]) + 1) > PackNodes)
      BY <1>6, RenderedFits, Zenon
    <3>2. 1 \in DOMAIN packs /\ packs[1] = members
      OBVIOUS
    <3> HIDE DEF packs
    <3> QED BY <3>1, <3>2 DEF n
  <2> QED BY <1>6, <2>1
<1> HIDE DEF of, laid, rest, part, nodes, hosts, fits
<1>7. /\ p # P!Error <=> fits
      /\ fits => p.nodes = parts /\ p.mapping = mapping /\ p.unused = rest
  <2> HIDE DEF p, parts, mapping
  <2> QED BY <1>1 DEF P!Error
<1> HIDE DEF p, out
<1>8. ASSUME fits
      PROVE  /\ \A h \in hosts :
                  P!Cardinality({i \in DOMAIN members : h \in P!ToSet(p.nodes[i])})
                    + (IF h \in P!ToSet(p.unused) THEN 1 ELSE 0) = 1
             /\ \A i \in DOMAIN members : p.mapping[i] # P!Error /\ p.mapping[i].frontends[1] = p.nodes[i][1]
  <2>1. /\ \A i \in DOMAIN members : p.nodes[i] = part(i) /\ p.mapping[i] = laid(i)
        /\ p.unused = rest
    BY <1>7, <1>8
  <2>2. \A h : {i \in DOMAIN members : h \in P!ToSet(p.nodes[i])} = of(h)
    BY <2>1 DEF of
  <2>3. ASSUME NEW h \in hosts
        PROVE  P!Cardinality({i \in DOMAIN members : h \in P!ToSet(p.nodes[i])})
                    + (IF h \in P!ToSet(p.unused) THEN 1 ELSE 0) = 1
    BY <1>5, <1>8, <2>1, <2>2
  <2>4. ASSUME NEW i \in DOMAIN members
        PROVE  p.mapping[i] # P!Error /\ p.mapping[i].frontends[1] = p.nodes[i][1]
    BY <1>5, <1>8, <2>1
  <2> QED BY <2>3, <2>4
<1>9. \A S : P!Cardinality(S) = Cardinality(S)
  BY SameCount
<1> QED BY <1>6, <1>7, <1>8, <1>9, Zenon DEF P!PacksDisjoint, p, hosts

-----------------------------------------------------------------------------
(* Layout: the matrix of experiments and its jobs                           *)
Takes(pbs, nodes, queue) ==
  \/ queue = pbs.queue /\ (pbs.max_nodes = 0 \/ nodes <= pbs.max_nodes)
  \/ \E i \in DOMAIN pbs.routes : /\ pbs.routes[i].queue = queue
                                  /\ pbs.routes[i].min_nodes <= nodes /\ nodes <= pbs.routes[i].max_nodes

\* Whatever PbsForPoint returns is a queue that takes the nodes.
LEMMA PbsTakes ==
  ASSUME NEW pbs, {pbs.max_nodes, pbs.walltime, pbs.drain} \subseteq Nat, pbs.routes \in Seq(QueueRoutes),
         NEW nodes \in Int, P!PbsForPoint(pbs, nodes) # <<>>
  PROVE  LET job == P!PbsForPoint(pbs, nodes)[1]
         IN  job.walltime \in Nat /\ job.drain \in Nat /\ Takes(pbs, nodes, job.queue)
<1> DEFINE small == pbs.max_nodes = 0 \/ nodes <= pbs.max_nodes
           covering == {i \in DOMAIN pbs.routes :
                          pbs.routes[i].min_nodes <= nodes /\ nodes <= pbs.routes[i].max_nodes}
           route == pbs.routes[P!Min(covering)]
           own == <<[queue |-> pbs.queue, walltime |-> pbs.walltime, drain |-> pbs.drain]>>
           other == <<[queue |-> route.queue, walltime |-> route.walltime,
                       drain |-> IF route.drain = 0 THEN pbs.drain ELSE route.drain]>>
           all == P!PbsForPoint(pbs, nodes)
<1>1. all = CASE small -> own
              [] pbs.max_nodes # 0 /\ nodes > pbs.max_nodes /\ covering # {} -> other
              [] OTHER -> <<>>
  BY Zenon DEF P!PbsForPoint, P!NoLimit
<1> SUFFICES all[1].walltime \in Nat /\ all[1].drain \in Nat /\ Takes(pbs, nodes, all[1].queue)
  BY Zenon
<1>2. pbs.walltime \in Nat /\ pbs.drain \in Nat
  OBVIOUS
<1>3. CASE small
  <2>1. all = own
    <3> HIDE DEF all, own, other
    <3> QED BY <1>1, <1>3
  <2> HIDE DEF all
  <2>2. all[1].queue = pbs.queue /\ all[1].walltime = pbs.walltime /\ all[1].drain = pbs.drain
    BY <2>1
  <2> QED BY <1>2, <1>3, <2>2 DEF Takes
<1>4. CASE ~small
  <2>1. all = other /\ covering # {}
    <3>1. all # <<>> /\ pbs.max_nodes # 0
      BY <1>4
    <3> HIDE DEF all, own, other, covering
    <3> QED BY <1>1, <1>4, <3>1
  <2>2. covering \subseteq DOMAIN pbs.routes /\ covering \subseteq Nat
    OBVIOUS
  <2>3. P!Min(covering) \in covering
    <3> HIDE DEF covering
    <3>1. \E i \in covering : \A j \in covering : i <= j
      BY <2>1, <2>2, Least
    <3> QED BY <3>1 DEF P!Min
  <2>4. route.walltime \in Nat /\ route.drain \in Nat
    <3>1. P!Min(covering) \in DOMAIN pbs.routes
      BY <2>2, <2>3
    <3>2. ASSUME NEW i \in DOMAIN pbs.routes
            PROVE  pbs.routes[i].walltime \in Nat /\ pbs.routes[i].drain \in Nat
      <4>1. pbs.routes[i] \in QueueRoutes
        OBVIOUS
      <4> QED BY <4>1 DEF QueueRoutes
    <3> HIDE DEF covering
    <3> QED BY <3>1, <3>2
  <2>5. /\ all[1].queue = route.queue /\ all[1].walltime = route.walltime
        /\ all[1].drain = pbs.drain \/ all[1].drain = route.drain
    <3> HIDE DEF all, route, covering
    <3> QED BY <2>1
  <2>6. Takes(pbs, nodes, route.queue)
    BY <2>3 DEF Takes
  <2> HIDE DEF all, route
  <2> QED BY <1>2, <2>4, <2>5, <2>6
<1> QED BY <1>3, <1>4

\* A point of the matrix is made of what is varied and of its workload.
LEMMA MatrixPoints ==
  ASSUME NEW config, NEW smoke, NEW group, P!Matrix(config, smoke, group) # P!Error
  PROVE  \A p \in P!Matrix(config, smoke, group).points :
           \E s \in P!SpecsOf(config, smoke, group = "routing"), w \in Workloads :
             p = P!PointOf(s, w, config, smoke, group = "routing")
<1> DEFINE out == P!Matrix(config, smoke, group)
           all == {P!PointOf(s, w, config, smoke, group = "routing") :
                     s \in P!SpecsOf(config, smoke, group = "routing"), w \in Workloads}
           points == {p \in all : P!InGroup(p, group)}
<1>1. out = [points |-> points]
  BY DEF P!Matrix
<1>2. out.points \subseteq all
  <2> HIDE DEF out, all
  <2> QED BY <1>1
<1> HIDE DEF out
<1>3. \A p \in out.points : p \in all
  BY <1>2
<1> QED BY <1>3 DEF out

\* No two points of a matrix have the same name.
LEMMA PointsNamed ==
  ASSUME NEW config, NEW smoke \in BOOLEAN, NEW group, P!Matrix(config, smoke, group) # P!Error,
         NEW p \in P!Matrix(config, smoke, group).points,
         NEW q \in P!Matrix(config, smoke, group).points, P!PointId(p) = P!PointId(q)
  PROVE  p = q
<1> DEFINE official == group = "routing"
           specs == P!SpecsOf(config, smoke, official)
           point(s, w) == P!PointOf(s, w, config, smoke, official)
<1>1. PICK s \in specs, w \in Workloads : p = point(s, w)
  BY MatrixPoints
<1>2. PICK t \in specs, v \in Workloads : q = point(t, v)
  BY MatrixPoints
<1>3. /\ p.workload = w /\ p.replicas = s.replicas /\ p.layout = s.layout /\ p.routing = s.routing
      /\ p.proxy = s.proxy /\ p.reuse = s.reuse /\ p.official = official /\ p.smoke = smoke
  BY <1>1 DEF P!PointOf
<1>4. /\ q.workload = v /\ q.replicas = t.replicas /\ q.layout = t.layout /\ q.routing = t.routing
      /\ q.proxy = t.proxy /\ q.reuse = t.reuse /\ q.official = official /\ q.smoke = smoke
  BY <1>2 DEF P!PointOf
<1> SUFFICES s = t /\ w = v
  BY <1>1, <1>2
<1> HIDE DEF official
<1>5. w = v /\ P!Kind(p) = P!Kind(q) /\ s.replicas = t.replicas
  BY <1>3, <1>4 DEF P!PointId
<1>6. CASE official
  <2>1. \A x \in specs : x = P!Spec(x.replicas, "fixed_frontend", x.routing, "normal", TRUE)
    BY <1>6 DEF P!SpecsOf, P!RoutingSpecs, P!Spec
  <2>2. s.routing = t.routing
    BY <1>3, <1>4, <1>6 DEF P!PointId
  <2> QED BY <1>5, <2>1, <2>2
<1>7. CASE ~official /\ smoke
  BY <1>5, <1>7 DEF P!SpecsOf
<1>8. CASE ~official /\ ~smoke
  <2>1. ASSUME NEW x \in specs
        PROVE  \/ /\ ~x.proxy /\ x.layout \in {"balanced", "fixed_frontend"}
                  /\ x = P!Spec(x.replicas, x.layout, "sticky", "normal", FALSE)
               \/ x.proxy /\ x = P!Spec(4, "balanced", x.routing, x.reuse, TRUE)
    <3>1. CASE x \in P!ScalingSpecs(config)
      BY <3>1 DEF P!ScalingSpecs, P!Spec
    <3>2. CASE x \in P!MechanismSpecs
      BY <3>2 DEF P!MechanismSpecs, P!Spec
    <3> QED BY <1>8, <3>1, <3>2 DEF P!SpecsOf
  <2>2. CASE s.proxy /\ t.proxy
    <3>1. P!Kind(p) = "mechanism" /\ P!Kind(q) = "mechanism"
      BY <1>3, <1>4, <1>8, <2>2 DEF P!Kind
    <3>2. s.routing = t.routing /\ s.reuse = t.reuse
      BY <1>3, <1>4, <1>8, <3>1 DEF P!PointId
    <3>3. /\ s = P!Spec(4, "balanced", s.routing, s.reuse, TRUE)
          /\ t = P!Spec(4, "balanced", t.routing, t.reuse, TRUE)
      BY <2>1, <2>2, Zenon
    <3> QED BY <1>5, <3>2, <3>3, Zenon
  <2>3. CASE ~s.proxy /\ ~t.proxy
    <3>1. P!Kind(p) = s.layout /\ P!Kind(q) = t.layout
      BY <1>3, <1>4, <1>8, <2>3 DEF P!Kind
    <3> QED BY <1>5, <2>1, <2>3, <3>1
  <2>4. CASE s.proxy /\ ~t.proxy
    <3>1. P!Kind(p) = "mechanism" /\ P!Kind(q) = t.layout
      BY <1>3, <1>4, <1>8, <2>4 DEF P!Kind
    <3> QED BY <1>5, <2>1, <2>4, <3>1
  <2>5. CASE ~s.proxy /\ t.proxy
    <3>1. P!Kind(q) = "mechanism" /\ P!Kind(p) = s.layout
      BY <1>3, <1>4, <1>8, <2>5 DEF P!Kind
    <3> QED BY <1>5, <2>1, <2>5, <3>1
  <2> QED BY <2>2, <2>3, <2>4, <2>5
<1> QED BY <1>6, <1>7, <1>8 DEF official

\* A point that has a job is in one of the lists to submit, and in no other.
LEMMA ListedOnce ==
  ASSUME NEW config, NEW smoke, smoke = FALSE, NEW group, P!Matrix(config, smoke, group) # P!Error,
         NEW p \in P!Matrix(config, smoke, group).points
  PROVE  \E g \in P!Groups \cup {"routing"} : \A h \in P!Groups \cup {"routing"} : P!Listed(p, h) <=> h = g
<1> DEFINE official == group = "routing"
           specs == P!SpecsOf(config, smoke, official)
<1>1. PICK s \in specs, w \in Workloads : p = P!PointOf(s, w, config, smoke, official)
  BY MatrixPoints
<1>2. p.layout = s.layout /\ p.proxy = s.proxy /\ p.official = official
  BY <1>1 DEF P!PointOf
<1> HIDE DEF official
<1>3. CASE official
  <2>1. s.layout = "fixed_frontend" /\ s.proxy = TRUE
    BY <1>3 DEF P!SpecsOf, P!RoutingSpecs, P!Spec
  <2>2. \A h \in P!Groups \cup {"routing"} : P!Listed(p, h) <=> h = "routing"
    BY <1>2, <1>3, <2>1 DEF P!Listed, P!Groups
  <2> QED BY <2>2
<1>4. CASE ~official /\ s \in P!ScalingSpecs(config)
  <2>1. s.layout \in {"balanced", "fixed_frontend"} /\ s.proxy = FALSE
    BY <1>4 DEF P!ScalingSpecs, P!Spec
  <2>2. CASE s.layout = "balanced"
    <3>1. \A h \in P!Groups \cup {"routing"} : P!Listed(p, h) <=> h = "weak-scaling"
      BY <1>2, <1>4, <2>1, <2>2 DEF P!Listed, P!Groups
    <3> QED BY <3>1 DEF P!Groups
  <2>3. CASE s.layout = "fixed_frontend"
    <3>1. \A h \in P!Groups \cup {"routing"} : P!Listed(p, h) <=> h = "fixed-frontend"
      BY <1>2, <1>4, <2>1, <2>3 DEF P!Listed, P!Groups
    <3> QED BY <3>1 DEF P!Groups
  <2> QED BY <2>1, <2>2, <2>3
<1>5. CASE ~official /\ s \in P!MechanismSpecs
  <2>1. s.layout = "balanced" /\ s.proxy = TRUE
    BY <1>5 DEF P!MechanismSpecs, P!Spec
  <2>2. \A h \in P!Groups \cup {"routing"} : P!Listed(p, h) <=> h = "mechanism"
    BY <1>2, <1>5, <2>1 DEF P!Listed, P!Groups
  <2> QED BY <2>2 DEF P!Groups
<1> QED BY <1>3, <1>4, <1>5 DEF P!SpecsOf

LEMMA JobsAllFit ==
  ASSUME NEW config, NEW smoke \in BOOLEAN, NEW group,
         \A w \in Workloads : config.window[w] \in Nat,
         {config.pbs.max_nodes, config.pbs.walltime, config.pbs.drain} \subseteq Nat,
         config.pbs.routes \in Seq(QueueRoutes),
         config.inference \cup config.router.inference \subseteq Nat
  PROVE  P!JobsFit(config, smoke, group)
<1> DEFINE out == P!Render(config, smoke, group)
           status == P!CheckMatrix(config, smoke, group)
           planned == P!Matrix(config, smoke, group)
           pbs(p) == P!PbsForPoint(config.pbs, P!PhysicalNodes(p))
           deferred == {p \in planned.points : pbs(p) = <<>>}
           fits(p) == p.window + pbs(p)[1].drain + StartupCost <= pbs(p)[1].walltime
           points == planned.points \ deferred
           jobs == {[id |-> P!PointId(p), point |-> p, pbs |-> pbs(p)[1]] : p \in points}
           lists == IF smoke THEN {} ELSE P!Groups \cup {"routing"}
           submit == [g \in lists |-> {P!PointId(p) : p \in {q \in points : P!Listed(q, g)}}]
<1> SUFFICES ASSUME out # P!Error
             PROVE  /\ \A j \in out.jobs : /\ Takes(config.pbs, P!PhysicalNodes(j.point), j.pbs.queue)
                                           /\ j.pbs.walltime - j.pbs.drain - StartupCost >= j.point.window
                    /\ \A j, k \in out.jobs : j.id = k.id => j = k
                    /\ ~smoke => \A j \in out.jobs :
                                   P!Cardinality({g \in DOMAIN out.submit : j.id \in out.submit[g]}) = 1
  <2> HIDE DEF out
  <2> QED BY DEF P!JobsFit, Takes, out, P!ToSet, P!NoLimit
<1>1. status # P!Error /\ out = [jobs |-> {[id |-> P!PointId(p), point |-> p, pbs |-> pbs(p)[1]] :
                                              p \in status.planned \ status.deferred},
                                 submit |-> [g \in lists |->
                                    {P!PointId(p) :
                                        p \in {q \in status.planned \ status.deferred : P!Listed(q, g)}}]]
  BY DEF P!Render
<1>2. /\ planned # P!Error /\ \A p \in points : fits(p)
      /\ status.planned = planned.points /\ status.deferred = deferred
  <2>1. status = IF \/ planned = P!Error \/ planned.points = {}
                    \/ \E p \in points : ~fits(p)
                 THEN P!Error
                 ELSE [planned |-> planned.points, deferred |-> deferred, ready |-> deferred # planned.points]
    BY Zenon DEF P!CheckMatrix
  <2> HIDE DEF status, planned, deferred, points, fits
  <2> QED BY <1>1, <2>1
<1> HIDE DEF status
<1>3. out.jobs = jobs /\ out.submit = submit
  <2>1. status.planned \ status.deferred = points
    BY <1>2
  <2> HIDE DEF points, pbs
  <2> QED BY <1>1, <2>1
<1> HIDE DEF out
<1>4. ASSUME NEW p \in points
      PROVE  /\ Takes(config.pbs, P!PhysicalNodes(p), pbs(p)[1].queue)
             /\ pbs(p)[1].walltime - pbs(p)[1].drain - StartupCost >= p.window
  <2>1. p \in planned.points /\ pbs(p) # <<>> /\ fits(p)
    BY <1>2
  <2> HIDE DEF planned, pbs
  <2>2. PICK s \in P!SpecsOf(config, smoke, group = "routing"), w \in Workloads :
          p = P!PointOf(s, w, config, smoke, group = "routing")
    BY <1>2, <2>1, MatrixPoints DEF planned
  <2>3. /\ p.replicas = s.replicas /\ p.layout = s.layout
        /\ p.window = IF smoke THEN SmokeWindow ELSE config.window[w]
    BY <2>2 DEF P!PointOf
  <2>4. p.window \in Nat
    BY <2>3, LayoutConstants
  <2>5. s.replicas \in Nat
    BY DEF P!SpecsOf, P!RoutingSpecs, P!ScalingSpecs, P!MechanismSpecs, P!Spec
  <2>6. P!PhysicalNodes(p) \in Int
    BY <2>3, <2>5 DEF P!PhysicalNodes, P!FrontendNodes
  <2>7. /\ pbs(p)[1].walltime \in Nat /\ pbs(p)[1].drain \in Nat
        /\ Takes(config.pbs, P!PhysicalNodes(p), pbs(p)[1].queue)
    BY <2>1, <2>6, PbsTakes DEF pbs
  <2>8. StartupCost \in Nat
    BY LayoutConstants
  <2> QED BY <2>1, <2>4, <2>7, <2>8
<1>5. ASSUME NEW p \in points, NEW q \in points, P!PointId(p) = P!PointId(q) PROVE p = q
  BY <1>2, <1>5, PointsNamed
<1>6. ASSUME ~smoke, NEW p \in points
      PROVE  P!Cardinality({g \in DOMAIN submit : P!PointId(p) \in submit[g]}) = 1
  <2>1. DOMAIN submit = P!Groups \cup {"routing"}
    BY <1>6
  <2>2. \A g \in DOMAIN submit : P!PointId(p) \in submit[g] <=> P!Listed(p, g)
    BY <1>5
  <2>3. PICK g \in DOMAIN submit : \A h \in DOMAIN submit : P!Listed(p, h) <=> h = g
    <3>1. smoke = FALSE
      BY <1>6
    <3> HIDE DEF submit
    <3> QED BY <1>2, <2>1, <3>1, ListedOnce
  <2> HIDE DEF submit
  <2>4. {h \in DOMAIN submit : P!PointId(p) \in submit[h]} = {g}
    BY <2>2, <2>3
  <2> QED BY <2>4, SameCount, FS_Singleton
<1> HIDE DEF submit, pbs, points
<1>7. \A j \in jobs : \E p \in points :
        /\ j.id = P!PointId(p) /\ j.point = p /\ j.pbs = pbs(p)[1]
        /\ j = [id |-> P!PointId(p), point |-> p, pbs |-> pbs(p)[1]]
  OBVIOUS
<1> HIDE DEF jobs
<1> QED BY <1>3, <1>4, <1>5, <1>6, <1>7

-----------------------------------------------------------------------------
(* TraceBuild: texts between separators                                     *)
Join(acc, word, separator) == acc \o word \o <<separator>>
Joining(g, words, separator) ==
  g = [s \in SUBSET DOMAIN words |->
         IF s = {} THEN <<>> ELSE Join(g[s \ {Greatest(s)}], words[Greatest(s)], separator)]
AllJoined(words, separator) == CHOOSE g : Joining(g, words, separator)

LEMMA JoinedGrows ==
  ASSUME NEW S, NEW words \in Seq(Seq(S)), NEW separator \in S
  PROVE  /\ T!Joined(words, separator) = AllJoined(words, separator)[DOMAIN words]
         /\ Joining(AllJoined(words, separator), words, separator)
<1> DEFINE n == Len(words)
           step == [x \in (1 .. n) \X Seq(S) |-> Join(x[2], words[x[1]], separator)]
<1>1. n \in Nat /\ DOMAIN words = 1 .. n /\ <<>> \in Seq(S)
  OBVIOUS
<1>2. step \in [(1 .. n) \X Seq(S) -> Seq(S)]
  <2>1. ASSUME NEW x \in (1 .. n) \X Seq(S) PROVE Join(x[2], words[x[1]], separator) \in Seq(S)
    <3>1. x[2] \in Seq(S) /\ words[x[1]] \in Seq(S) /\ <<separator>> \in Seq(S)
      OBVIOUS
    <3> QED BY <3>1, ConcatProperties DEF Join
  <2> QED BY <2>1
<1>3. PICK g \in [SUBSET (1 .. n) -> Seq(S)] : Folding(<<>>, step, g, n)
  <2> HIDE DEF n, step
  <2> QED BY <1>1, <1>2, FoldsExist, Zenon
<1>4. ASSUME NEW s \in SUBSET (1 .. n), s # {}
      PROVE  step[<<Greatest(s), g[s \ {Greatest(s)}]>>]
               = Join(g[s \ {Greatest(s)}], words[Greatest(s)], separator)
  <2>1. Greatest(s) \in s
    BY <1>1, <1>4, GreatestIn
  <2>2. <<Greatest(s), g[s \ {Greatest(s)}]>> \in (1 .. n) \X Seq(S)
    BY <2>1
  <2> QED BY <2>2
<1>5. Joining(g, words, separator)
  BY <1>1, <1>3, <1>4 DEF Joining, Folding, Folded
<1>6. Joining(AllJoined(words, separator), words, separator)
  BY <1>5, Zenon DEF AllJoined
<1>7. T!Joined(words, separator) = AllJoined(words, separator)[DOMAIN words]
  BY Zenon DEF T!Joined, T!FoldLeft, T!MapThenFoldSet, T!Max, Greatest, AllJoined, Joining, Join
<1> QED BY <1>6, <1>7

\* Word by word: joined[k] is the text of the first k words.
Stepwise(joined, words, separator, S) ==
  /\ joined \in [0 .. Len(words) -> Seq(S)] /\ joined[0] = <<>>
  /\ \A k \in 1 .. Len(words) : joined[k] = Join(joined[k - 1], words[k], separator)

LEMMA JoinedStepwise ==
  ASSUME NEW S, NEW words \in Seq(Seq(S)), NEW separator \in S
  PROVE  \E joined : Stepwise(joined, words, separator, S) /\ joined[Len(words)] = T!Joined(words, separator)
<1> DEFINE n == Len(words)
           g == AllJoined(words, separator)
           joined == [k \in 0 .. n |-> g[1 .. k]]
           F == {k \in Nat : k <= n => joined[k] \in Seq(S)}
<1>1. n \in Nat /\ DOMAIN words = 1 .. n
  OBVIOUS
<1>2. Joining(g, words, separator) /\ T!Joined(words, separator) = g[1 .. n]
  BY <1>1, JoinedGrows
<1> HIDE DEF g, n
<1>3. joined[0] = <<>>
  <2>1. {} \in SUBSET DOMAIN words /\ 1 .. 0 = {} /\ 0 \in 0 .. n
    BY <1>1
  <2> QED BY <1>2, <2>1 DEF Joining
<1>4. ASSUME NEW k \in 1 .. n PROVE joined[k] = Join(joined[k - 1], words[k], separator)
  <2>1. /\ (1 .. k) \in SUBSET DOMAIN words /\ 1 .. k # {}
        /\ Greatest(1 .. k) = k /\ (1 .. k) \ {k} = 1 .. k - 1
    BY <1>1, Segments
  <2>2. k \in 0 .. n /\ k - 1 \in 0 .. n
    BY <1>1
  <2> QED BY <1>2, <2>1, <2>2 DEF Joining
<1>5. joined = [k \in 0 .. n |-> joined[k]] /\ joined[n] = g[1 .. n]
  BY <1>1
<1> HIDE DEF joined
<1>6. Nat \subseteq F
  <2>1. 0 \in F
    <3>1. joined[0] \in Seq(S)
      BY <1>3
    <3> QED BY <3>1
  <2>2. ASSUME NEW k \in Nat, k \in F PROVE k + 1 \in F
    <3> SUFFICES ASSUME k + 1 <= n PROVE joined[k + 1] \in Seq(S)
      OBVIOUS
    <3>1. k + 1 \in 1 .. n /\ (k + 1) - 1 = k /\ joined[k] \in Seq(S)
      BY <1>1, <2>2
    <3>2. words[k + 1] \in Seq(S) /\ <<separator>> \in Seq(S)
      BY <1>1, <3>1
    <3>3. joined[k + 1] = joined[k] \o words[k + 1] \o <<separator>>
      BY <1>4, <3>1 DEF Join
    <3>4. joined[k] \o words[k + 1] \in Seq(S)
      BY <3>1, <3>2, ConcatProperties
    <3> QED BY <3>2, <3>3, <3>4, ConcatProperties
  <2> HIDE DEF F
  <2> QED BY <2>1, <2>2, NatSetInduction
<1>7. \A k \in 0 .. n : joined[k] \in Seq(S)
  BY <1>6
<1>8. joined \in [0 .. n -> Seq(S)] /\ joined[n] = T!Joined(words, separator)
  BY <1>2, <1>5, <1>7
<1> QED BY <1>3, <1>4, <1>8, Zenon DEF n, Stepwise

-----------------------------------------------------------------------------
(* TraceBuild: rewriting from left to right                                 *)

\* A walk through 1 .. end that jumps forward and puts out something at each place.
WalkStep(out, jump, g, i, end) == IF i = end THEN <<>> ELSE out[i] \o g[i + jump[i]]
Walk(out, jump, g, from, end) == g = [i \in from .. end |-> WalkStep(out, jump, g, i, end)]

LEMMA WalksExist ==
  ASSUME NEW end \in Nat \ {0}, NEW out, NEW jump,
         \A i \in 1 .. end - 1 : jump[i] \in Nat \ {0} /\ i + jump[i] <= end
  PROVE  \E g : Walk(out, jump, g, 1, end)
<1> DEFINE Has(k) == k < end => \E g : Walk(out, jump, g, end - k, end)
           F == {k \in Nat : Has(k)}
<1>1. Has(0)
  <2> DEFINE g == [i \in end - 0 .. end |-> <<>>]
  <2>1. Walk(out, jump, g, end - 0, end)
    BY DEF Walk, WalkStep
  <2> HIDE DEF g
  <2> QED BY <2>1
<1>2. ASSUME NEW k \in Nat, Has(k) PROVE Has(k + 1)
  <2> SUFFICES ASSUME k + 1 < end PROVE \E g : Walk(out, jump, g, end - (k + 1), end)
    OBVIOUS
  <2>1. PICK g : Walk(out, jump, g, end - k, end)
    <3>1. k < end
      OBVIOUS
    <3> QED BY <1>2, <3>1, Zenon
  <2> DEFINE at == end - (k + 1)
             h == [i \in at .. end |-> IF i = at THEN out[i] \o g[i + jump[i]] ELSE g[i]]
  <2>2. at \in 1 .. end - 1 /\ at + jump[at] \in end - k .. end /\ at + jump[at] # at
    OBVIOUS
  <2>3. ASSUME NEW i \in at .. end PROVE h[i] = WalkStep(out, jump, h, i, end)
    <3>1. CASE i = at
      <4>1. h[at + jump[at]] = g[at + jump[at]]
        BY <2>2
      <4>2. h[i] = out[i] \o g[i + jump[i]]
        BY <3>1
      <4> HIDE DEF h
      <4>3. i # end /\ h[i + jump[i]] = g[i + jump[i]]
        BY <2>2, <3>1, <4>1
      <4> QED BY <4>2, <4>3, Zenon DEF WalkStep
    <3>2. CASE i # at
      <4>1. i \in end - k .. end /\ h[i] = g[i]
        BY <3>2
      <4>2. g[i] = WalkStep(out, jump, g, i, end)
        BY <2>1, <4>1 DEF Walk
      <4>3. i # end => /\ i + jump[i] \in end - k .. end
                       /\ h[i + jump[i]] = g[i + jump[i]]
        <5>1. i # end => i \in 1 .. end - 1 /\ i + jump[i] \in at .. end /\ i + jump[i] # at
                           /\ i + jump[i] \in end - k .. end
          BY <4>1
        <5> QED BY <5>1
      <4> HIDE DEF h
      <4> QED BY <4>1, <4>2, <4>3 DEF WalkStep
    <3> QED BY <3>1, <3>2
  <2>4. h = [i \in at .. end |-> h[i]]
    OBVIOUS
  <2> HIDE DEF h
  <2>5. Walk(out, jump, h, at, end)
    BY <2>3, <2>4 DEF Walk
  <2> QED BY <2>5
<1>3. Has(end - 1)
  <2> HIDE DEF Has
  <2>1. Nat \subseteq F
    <3>1. 0 \in F /\ \A k \in Nat : k \in F => k + 1 \in F
      BY <1>1, <1>2
    <3> HIDE DEF F
    <3> QED BY <3>1, NatSetInduction
  <2> QED BY <2>1
<1>4. end - 1 < end /\ end - (end - 1) = 1
  OBVIOUS
<1> QED BY <1>3, <1>4

\* Recorded values that can be bound: not empty, without the separator.
Bindable(values, S, separator) ==
  /\ DOMAIN values \subseteq Seq(S \ {separator}) \ {<<>>}
  /\ \A v \in DOMAIN values : values[v] \in Seq(S)

Matching(values, text, i) == {v \in DOMAIN values : T!IsPrefix(v, SubSeq(text, i, Len(text)))}
Longest(values, text, i) == T!LongestMatch(Matching(values, text, i))
Written(values, text, g, i) ==
  IF i = Len(text) + 1 THEN <<>>
  ELSE IF Matching(values, text, i) = {} THEN <<text[i]>> \o g[i + 1]
  ELSE values[Longest(values, text, i)] \o g[i + Len(Longest(values, text, i))]
Rewriting(g, values, text) == g = [i \in 1 .. Len(text) + 1 |-> Written(values, text, g, i)]
Rewritten(values, text) == CHOOSE g : Rewriting(g, values, text)

\* A value begins after place a if its elements are those that follow.
LEMMA PrefixAt ==
  ASSUME NEW S, NEW text \in Seq(S), NEW v \in Seq(S), NEW a \in 0 .. Len(text)
  PROVE  T!IsPrefix(v, SubSeq(text, a + 1, Len(text)))
           <=> a + Len(v) <= Len(text) /\ \A j \in 1 .. Len(v) : v[j] = text[a + j]
<1> DEFINE n == Len(text)
           m == Len(v)
           rest == SubSeq(text, a + 1, n)
<1>1. n \in Nat /\ m \in Nat /\ a \in Nat /\ n \in a .. Len(text) /\ SubSeq(v, 1, m) = v
  BY SubSeqFull
<1> HIDE DEF rest
<1>2. IsPart(rest, text, a, n, S)
  BY <1>1, Part DEF rest
<1>3. rest \in Seq(S) /\ Len(rest) = n - a /\ \A i \in 1 .. n - a : rest[i] = text[a + i]
  BY <1>2 DEF IsPart
<1>4. CASE m <= n - a
  <2> DEFINE head == SubSeq(rest, 1, m)
  <2>1. m \in 0 .. Len(rest)
    BY <1>1, <1>3, <1>4
  <2>2. IsPart(head, rest, 0, m, S)
    <3>1. 0 \in Nat /\ m \in 0 .. Len(rest) /\ head = SubSeq(rest, 0 + 1, m)
      BY <2>1
    <3> HIDE DEF head, m
    <3> QED BY <1>3, <3>1, Part
  <2> HIDE DEF head
  <2>3. head \in Seq(S) /\ Len(head) = m /\ \A j \in 1 .. m : head[j] = text[a + j]
    <3>1. /\ head \in Seq(S) /\ Len(head) = m - 0
          /\ \A j \in 1 .. m - 0 : head[j] = rest[0 + j]
      BY <2>2 DEF IsPart
    <3>2. m - 0 = m /\ \A j \in 1 .. m : 0 + j = j /\ j \in 1 .. n - a
      BY <1>1, <1>4
    <3> HIDE DEF m, n
    <3> QED BY <1>3, <3>1, <3>2
  <2>4. v = head <=> \A j \in 1 .. m : v[j] = head[j]
    BY <2>3, SeqEqual
  <2>5. T!IsPrefix(v, rest) <=> v = head
    BY <1>1, <1>3, <1>4 DEF T!IsPrefix, head
  <2> QED BY <1>1, <1>4, <2>3, <2>4, <2>5 DEF rest
<1>5. CASE ~(m <= n - a)
  BY <1>1, <1>3, <1>5 DEF T!IsPrefix, rest
<1> QED BY <1>4, <1>5

\* A recorded value matches where its elements are those of the text.
Matched(v, values, text, a, S, separator) ==
  /\ v \in DOMAIN values /\ v \in Seq(S \ {separator}) /\ v # <<>> /\ Len(v) \in Nat \ {0}
  /\ a + Len(v) <= Len(text) /\ \A j \in 1 .. Len(v) : v[j] = text[a + j]

LEMMA MatchingAt ==
  ASSUME NEW S, NEW separator \in S, NEW values, Bindable(values, S, separator),
         NEW text \in Seq(S), NEW a \in 0 .. Len(text), NEW v
  PROVE  v \in Matching(values, text, a + 1) <=> Matched(v, values, text, a, S, separator)
<1>1. v \in DOMAIN values => v \in Seq(S \ {separator}) /\ v # <<>> /\ v \in Seq(S) /\ Len(v) \in Nat \ {0}
  <2> SUFFICES ASSUME v \in DOMAIN values
               PROVE  v \in Seq(S \ {separator}) /\ v # <<>> /\ v \in Seq(S) /\ Len(v) \in Nat \ {0}
    OBVIOUS
  <2>1. v \in Seq(S \ {separator}) /\ v # <<>>
    BY DEF Bindable
  <2>2. v \in Seq(S)
    BY <2>1
  <2> QED BY <2>1, <2>2
<1>2. v \in DOMAIN values =>
        (T!IsPrefix(v, SubSeq(text, a + 1, Len(text)))
           <=> a + Len(v) <= Len(text) /\ \A j \in 1 .. Len(v) : v[j] = text[a + j])
  BY <1>1, PrefixAt
<1> QED BY <1>1, <1>2 DEF Matching, Matched

\* Where something matches there is a longest match.
LEMMA LongestMatches ==
  ASSUME NEW S, NEW separator \in S, NEW values, Bindable(values, S, separator),
         NEW text \in Seq(S), NEW a \in 0 .. Len(text), Matching(values, text, a + 1) # {}
  PROVE  LET v == Longest(values, text, a + 1)
         IN  /\ v \in Matching(values, text, a + 1)
             /\ \A w \in Matching(values, text, a + 1) : Len(w) <= Len(v)
<1> DEFINE all == Matching(values, text, a + 1)
           gaps == {d \in Nat : \E v \in all : d = Len(text) - Len(v)}
<1>1. \A v \in all : Len(v) \in Nat /\ Len(text) - Len(v) \in Nat
  <2>1. a \in Nat /\ Len(text) \in Nat
    OBVIOUS
  <2>2. \A v \in all : Len(v) \in Nat /\ a + Len(v) <= Len(text)
    BY MatchingAt DEF Matched
  <2> HIDE DEF all
  <2> QED BY <2>1, <2>2
<1> HIDE DEF all
<1>2. gaps \subseteq Nat /\ gaps # {}
  BY <1>1 DEF all
<1>3. PICK d \in gaps : \A e \in gaps : d <= e
  <2> HIDE DEF gaps
  <2> QED BY <1>2, Least
<1>4. PICK v \in all : d = Len(text) - Len(v)
  BY <1>3
<1>5. ASSUME NEW w \in all PROVE Len(w) <= Len(v)
  <2>1. Len(text) - Len(w) \in gaps
    BY <1>1
  <2>2. Len(text) - Len(v) <= Len(text) - Len(w)
    BY <1>3, <1>4, <2>1
  <2> QED BY <1>1, <2>2
<1>6. \E x \in all : \A w \in all : Len(w) <= Len(x)
  BY <1>4, <1>5
<1> QED BY <1>6, Zenon DEF Longest, T!LongestMatch, all

LEMMA RewriteWorks ==
  ASSUME NEW S, NEW separator \in S, NEW values, Bindable(values, S, separator), NEW text \in Seq(S)
  PROVE  /\ T!Rewrite(values, text) = Rewritten(values, text)[1]
         /\ Rewriting(Rewritten(values, text), values, text)
         /\ \A i \in 1 .. Len(text) + 1 : Rewritten(values, text)[i] \in Seq(S)
<1> DEFINE n == Len(text)
           end == n + 1
           plain(i) == Matching(values, text, i) = {}
           longest(i) == Longest(values, text, i)
           out == [i \in 1 .. n |-> IF plain(i) THEN <<text[i]>> ELSE values[longest(i)]]
           jump == [i \in 1 .. n |-> IF plain(i) THEN 1 ELSE Len(longest(i))]
           result == Rewritten(values, text)
<1>1. n \in Nat /\ end \in Nat \ {0} /\ end - 1 = n
  OBVIOUS
<1>2. ASSUME NEW i \in 1 .. n, ~plain(i)
      PROVE  longest(i) \in DOMAIN values /\ Len(longest(i)) \in Nat \ {0} /\ i + Len(longest(i)) <= end
  <2> DEFINE a == i - 1
  <2>1. a \in 0 .. n /\ a + 1 = i
    BY <1>1
  <2> HIDE DEF a
  <2>2. longest(i) \in Matching(values, text, a + 1)
    BY <1>2, <2>1, LongestMatches
  <2> HIDE DEF longest
  <2>3. longest(i) \in DOMAIN values /\ Len(longest(i)) \in Nat \ {0} /\ a + Len(longest(i)) <= n
    BY <2>1, <2>2, MatchingAt DEF Matched
  <2> QED BY <1>1, <2>1, <2>3
<1>3. ASSUME NEW i \in 1 .. end - 1 PROVE jump[i] \in Nat \ {0} /\ i + jump[i] <= end
  <2>1. i \in 1 .. n
    BY <1>1
  <2>2. CASE plain(i)
    BY <1>1, <2>1, <2>2
  <2>3. CASE ~plain(i)
    <3>1. jump[i] = Len(longest(i))
      BY <2>1, <2>3
    <3> QED BY <1>2, <2>1, <2>3, <3>1
  <2> QED BY <2>2, <2>3
<1>4. PICK g : Walk(out, jump, g, 1, end)
  <2> HIDE DEF out, jump, end
  <2> QED BY <1>1, <1>3, WalksExist
<1>5. Rewriting(g, values, text)
  <2>1. ASSUME NEW i \in 1 .. end PROVE WalkStep(out, jump, g, i, end) = Written(values, text, g, i)
    <3>1. CASE i = end
      BY <3>1 DEF WalkStep, Written
    <3>2. CASE i # end
      <4>1. i \in 1 .. n
        BY <1>1, <3>2
      <4>2. CASE plain(i)
        <5>1. out[i] = <<text[i]>> /\ jump[i] = 1
          BY <4>1, <4>2
        <5> HIDE DEF out, jump
        <5> QED BY <3>2, <4>2, <5>1, Zenon DEF WalkStep, Written
      <4>3. CASE ~plain(i)
        <5>1. out[i] = values[longest(i)] /\ jump[i] = Len(longest(i))
          BY <4>1, <4>3
        <5> HIDE DEF out, jump
        <5> QED BY <3>2, <4>3, <5>1, Zenon DEF WalkStep, Written
      <4> QED BY <4>2, <4>3
    <3> QED BY <3>1, <3>2
  <2> HIDE DEF out, jump
  <2> QED BY <1>4, <2>1 DEF Walk, Rewriting
<1>6. Rewriting(result, values, text)
  BY <1>5, Zenon DEF Rewritten
<1>7. T!Rewrite(values, text) = result[1]
  BY Zenon DEF T!Rewrite, Rewritten, Rewriting, Written, Matching, Longest
<1>8. \A i \in 1 .. end : result[i] \in Seq(S)
  <2> DEFINE Good(k) == k <= n => \A i \in end - k .. end : result[i] \in Seq(S)
             F == {k \in Nat : Good(k)}
  <2> HIDE DEF result
  <2>1. Good(0)
    <3>1. result[end] = <<>> /\ \A i \in end - 0 .. end : i = end
      BY <1>1, <1>6 DEF Rewriting, Written
    <3>2. <<>> \in Seq(S)
      OBVIOUS
    <3>3. \A i \in end - 0 .. end : result[i] \in Seq(S)
      BY <3>1, <3>2, Zenon
    <3> QED BY <3>3
  <2>2. ASSUME NEW k \in Nat, Good(k) PROVE Good(k + 1)
    <3> SUFFICES ASSUME k + 1 <= n, NEW i \in end - (k + 1) .. end PROVE result[i] \in Seq(S)
      OBVIOUS
    <3>1. \A j \in end - k .. end : result[j] \in Seq(S)
      BY <2>2
    <3>2. CASE i = end - (k + 1)
      <4>1. i \in 1 .. n /\ i # end /\ i \in 1 .. end /\ i = end - (k + 1)
        BY <1>1, <3>2
      <4>2. result[i] = Written(values, text, result, i)
        BY <1>6, <4>1 DEF Rewriting
      <4>3. CASE plain(i)
        <5>1. result[i] = <<text[i]>> \o result[i + 1]
          BY <4>1, <4>2, <4>3 DEF Written
        <5>2. i + 1 \in end - k .. end /\ <<text[i]>> \in Seq(S)
          BY <1>1, <4>1
        <5> QED BY <3>1, <5>1, <5>2, ConcatProperties
      <4>4. CASE ~plain(i)
        <5>1. result[i] = values[longest(i)] \o result[i + Len(longest(i))]
          BY <4>1, <4>2, <4>4 DEF Written
        <5>2. i + Len(longest(i)) \in end - k .. end /\ values[longest(i)] \in Seq(S)
          <6>1. longest(i) \in DOMAIN values /\ Len(longest(i)) \in Nat \ {0} /\ i + Len(longest(i)) <= end
            BY <1>2, <4>1, <4>4
          <6> HIDE DEF longest
          <6>2. values[longest(i)] \in Seq(S)
            BY <6>1 DEF Bindable
          <6> QED BY <1>1, <4>1, <6>1, <6>2
        <5> QED BY <3>1, <5>1, <5>2, ConcatProperties
      <4> QED BY <4>3, <4>4
    <3>3. CASE i # end - (k + 1)
      <4>1. i \in end - k .. end
        BY <1>1, <3>3
      <4> QED BY <3>1, <4>1
    <3> QED BY <3>2, <3>3
  <2>3. Good(n)
    <3> HIDE DEF Good
    <3>1. 0 \in F /\ \A k \in Nat : k \in F => k + 1 \in F
      BY <2>1, <2>2
    <3>2. Nat \subseteq F
      <4> HIDE DEF F
      <4> QED BY <3>1, NatSetInduction
    <3> QED BY <1>1, <3>2
  <2>4. n <= n /\ end - n = 1
    BY <1>1
  <2> QED BY <2>3, <2>4
<1> QED BY <1>6, <1>7, <1>8

\* Where a word and a separator follow place a of a text.
WordAt(text, a, word, S, separator) ==
  /\ a \in Nat /\ word \in Seq(S \ {separator}) /\ a + Len(word) + 1 <= Len(text)
  /\ \A j \in 1 .. Len(word) : text[a + j] = word[j]
  /\ text[a + Len(word) + 1] = separator

\* What matches within a word ends there.
Within(v, values, word, j, S, separator) ==
  /\ v \in DOMAIN values /\ v \in Seq(S \ {separator}) /\ Len(v) \in Nat \ {0}
  /\ Len(v) <= Len(word) - j /\ \A k \in 1 .. Len(v) : v[k] = word[j + k]

LEMMA MatchesWithinWord ==
  ASSUME NEW S, NEW separator \in S, NEW values, Bindable(values, S, separator), NEW text \in Seq(S),
         NEW a, NEW word, WordAt(text, a, word, S, separator),
         NEW j \in 0 .. Len(word), NEW v \in Matching(values, text, a + j + 1)
  PROVE  Within(v, values, word, j, S, separator)
<1> DEFINE m == Len(word)
           b == a + j
<1>1. /\ a \in Nat /\ m \in Nat /\ a + m + 1 <= Len(text) /\ Len(text) \in Nat
      /\ \A k \in 1 .. m : text[a + k] = word[k]
      /\ text[a + m + 1] = separator /\ b \in 0 .. Len(text) /\ j \in Nat
  BY DEF WordAt
<1>2. /\ v \in DOMAIN values /\ v \in Seq(S \ {separator}) /\ Len(v) \in Nat \ {0}
      /\ b + Len(v) <= Len(text) /\ \A k \in 1 .. Len(v) : v[k] = text[b + k]
  <2> HIDE DEF b
  <2>1. v \in Matching(values, text, b + 1)
    BY DEF b
  <2>2. Matched(v, values, text, b, S, separator)
    BY <1>1, <2>1, MatchingAt
  <2> QED BY <2>2 DEF Matched
<1>3. Len(v) <= m - j
  <2> SUFFICES ASSUME Len(v) > m - j PROVE FALSE
    BY <1>1, <1>2
  <2>1. m - j + 1 \in 1 .. Len(v) /\ b + (m - j + 1) = a + m + 1
    BY <1>1, <1>2
  <2>2. v[m - j + 1] = separator
    BY <1>1, <1>2, <2>1
  <2>3. v[m - j + 1] \in S \ {separator}
    BY <1>2, <2>1
  <2> QED BY <2>2, <2>3
<1>4. ASSUME NEW k \in 1 .. Len(v) PROVE v[k] = word[j + k]
  <2>1. b + k = a + (j + k) /\ j + k \in 1 .. m
    BY <1>1, <1>2, <1>3
  <2> QED BY <1>1, <1>2, <2>1
<1> QED BY <1>2, <1>3, <1>4 DEF Within

\* At its first place a bound word is the longest match.
LEMMA BoundWordMatches ==
  ASSUME NEW S, NEW separator \in S, NEW values, Bindable(values, S, separator), NEW text \in Seq(S),
         NEW a, NEW word \in DOMAIN values, WordAt(text, a, word, S, separator)
  PROVE  Matching(values, text, a + 1) # {} /\ Longest(values, text, a + 1) = word
<1> DEFINE all == Matching(values, text, a + 1)
           v == Longest(values, text, a + 1)
<1>1. /\ a \in Nat /\ a \in 0 .. Len(text) /\ word \in Seq(S \ {separator})
      /\ a + Len(word) + 1 <= Len(text) /\ Len(word) \in Nat /\ Len(text) \in Nat
      /\ \A k \in 1 .. Len(word) : text[a + k] = word[k]
  BY DEF WordAt
<1>2. word # <<>> /\ Len(word) \in Nat \ {0}
  BY <1>1 DEF Bindable
<1>3. word \in all
  <2>1. Matched(word, values, text, a, S, separator)
    BY <1>1, <1>2 DEF Matched
  <2> QED BY <1>1, <2>1, MatchingAt
<1>4. v \in all /\ Len(word) <= Len(v)
  BY <1>1, <1>3, LongestMatches
<1>5. 0 \in 0 .. Len(word) /\ a + 0 + 1 = a + 1
  BY <1>1
<1> HIDE DEF v
<1>6. /\ v \in Seq(S \ {separator}) /\ Len(v) \in Nat \ {0}
      /\ Len(v) <= Len(word) - 0 /\ \A k \in 1 .. Len(v) : v[k] = word[0 + k]
  <2>1. v \in Matching(values, text, a + 0 + 1)
    BY <1>4, <1>5
  <2>2. Within(v, values, word, 0, S, separator)
    BY <1>5, <2>1, MatchesWithinWord
  <2> QED BY <2>2 DEF Within
<1>7. Len(v) = Len(word) /\ \A k \in 1 .. Len(v) : v[k] = word[k]
  BY <1>1, <1>4, <1>6
<1>8. v = word
  BY <1>1, <1>6, <1>7, SeqEqual
<1> QED BY <1>3, <1>8 DEF v

\* Nothing matches within a word in which nothing recorded begins, nor at the separator.
LEMMA UnboundWordStays ==
  ASSUME NEW S, NEW separator \in S, NEW values, Bindable(values, S, separator), NEW text \in Seq(S),
         NEW a, NEW word, WordAt(text, a, word, S, separator),
         NEW j \in 0 .. Len(word), j = Len(word) \/ T!Unbound(values, word)
  PROVE  Matching(values, text, a + j + 1) = {}
<1> SUFFICES ASSUME NEW v \in Matching(values, text, a + j + 1) PROVE FALSE
  OBVIOUS
<1>1. /\ v \in DOMAIN values /\ v \in Seq(S \ {separator}) /\ Len(v) \in Nat \ {0}
      /\ Len(v) <= Len(word) - j /\ \A k \in 1 .. Len(v) : v[k] = word[j + k]
  <2>1. Within(v, values, word, j, S, separator)
    BY MatchesWithinWord
  <2> QED BY <2>1 DEF Within
<1>2. word \in Seq(S \ {separator}) /\ Len(word) \in Nat /\ j \in Nat
  BY DEF WordAt
<1>3. j \in 0 .. Len(word) /\ j # Len(word) /\ j + 1 \in 1 .. Len(word) /\ j + Len(v) <= Len(word)
  BY <1>1, <1>2
<1>4. T!IsPrefix(v, SubSeq(word, j + 1, Len(word)))
  BY <1>1, <1>2, <1>3, PrefixAt
<1>5. j + 1 \in DOMAIN word
  BY <1>2, <1>3
<1> QED BY <1>1, <1>3, <1>4, <1>5 DEF T!Unbound

\* A word is replaced as a whole or not at all, and its separator stays.
ReplacedAt(result, values, a, word, separator) ==
  result[a + 1] = (IF word \in DOMAIN values THEN values[word] ELSE word)
                    \o (<<separator>> \o result[a + Len(word) + 2])

LEMMA WordRewritten ==
  ASSUME NEW S, NEW separator \in S, NEW values, Bindable(values, S, separator), NEW text \in Seq(S),
         NEW a, NEW word, WordAt(text, a, word, S, separator),
         word \in DOMAIN values \/ T!Unbound(values, word)
  PROVE  ReplacedAt(Rewritten(values, text), values, a, word, separator)
<1> DEFINE result == Rewritten(values, text)
           m == Len(word)
           n == Len(text)
<1>1. /\ a \in Nat /\ m \in Nat /\ n \in Nat /\ a + m + 1 <= n /\ word \in Seq(S \ {separator})
      /\ word \in Seq(S) /\ \A k \in 1 .. m : text[a + k] = word[k] /\ text[a + m + 1] = separator
  BY DEF WordAt
<1>2. /\ \A i \in 1 .. n + 1 : result[i] = Written(values, text, result, i) /\ result[i] \in Seq(S)
  BY RewriteWorks DEF Rewriting
<1> HIDE DEF result
<1>3. ASSUME NEW j \in 0 .. m, j = m \/ T!Unbound(values, word)
      PROVE  result[a + j + 1] = <<text[a + j + 1]>> \o result[a + j + 2]
  <2>1. Matching(values, text, a + j + 1) = {}
    BY <1>3, UnboundWordStays
  <2>2. a + j + 1 \in 1 .. n + 1 /\ a + j + 1 # n + 1 /\ (a + j + 1) + 1 = a + j + 2
    BY <1>1
  <2> QED BY <1>2, <2>1, <2>2 DEF Written
<1>4. result[a + m + 1] = <<separator>> \o result[a + m + 2] /\ result[a + m + 1] \in Seq(S)
  <2>1. m \in 0 .. m /\ m = m /\ a + m + 1 \in 1 .. n + 1
    BY <1>1
  <2>2. text[a + m + 1] = separator
    BY DEF WordAt
  <2> HIDE DEF m
  <2>3. result[a + m + 1] = <<text[a + m + 1]>> \o result[a + m + 2]
    BY <1>3, <2>1
  <2> QED BY <1>2, <2>1, <2>2, <2>3
<1>5. CASE word \in DOMAIN values
  <2>1. Matching(values, text, a + 1) # {} /\ Longest(values, text, a + 1) = word
    BY <1>5, BoundWordMatches
  <2>2. a + 1 \in 1 .. n + 1 /\ a + 1 # n + 1 /\ a + 1 + m = a + m + 1
    BY <1>1
  <2>3. result[a + 1] = values[word] \o result[a + m + 1]
    BY <1>2, <2>1, <2>2 DEF Written
  <2>4. values[word] \in Seq(S)
    BY <1>5 DEF Bindable
  <2> QED BY <1>4, <1>5, <2>3, <2>4 DEF result, ReplacedAt
<1>6. CASE word \notin DOMAIN values
  <2> DEFINE Good(j) == j <= m => result[a + 1] = SubSeq(word, 1, j) \o result[a + j + 1]
             F == {j \in Nat : Good(j)}
  <2>1. Good(0)
    <3>1. a + 0 + 1 = a + 1 /\ a + 1 \in 1 .. n + 1 /\ SubSeq(word, 1, 0) = <<>>
      BY <1>1
    <3>2. <<>> \o result[a + 1] = result[a + 1]
      BY <1>2, <3>1, ConcatEmptySeq
    <3> QED BY <3>1, <3>2
  <2>2. ASSUME NEW j \in Nat, Good(j) PROVE Good(j + 1)
    <3> SUFFICES ASSUME j + 1 <= m
                 PROVE  result[a + 1] = SubSeq(word, 1, j + 1) \o result[a + (j + 1) + 1]
      OBVIOUS
    <3>1. j \in 0 .. m /\ j <= m /\ j + 1 \in 1 .. m /\ a + (j + 1) = a + j + 1 /\ a + (j + 1) + 1 = a + j + 2
          /\ a + j + 2 \in 1 .. n + 1
      BY <1>1
    <3>2. result[a + 1] = SubSeq(word, 1, j) \o (<<word[j + 1]>> \o result[a + j + 2])
      BY <1>1, <1>3, <1>6, <2>2, <3>1
    <3>3. SubSeq(word, 1, j) \in Seq(S) /\ <<word[j + 1]>> \in Seq(S) /\ result[a + j + 2] \in Seq(S)
      <4>1. word[j + 1] \in S /\ \A k \in 1 .. j : word[k] \in S
        BY <1>1, <3>1
      <4>2. SubSeq(word, 1, j) \in Seq(S)
        BY <4>1, SubSeqProperties
      <4> QED BY <1>2, <3>1, <4>1, <4>2
    <3>4. SubSeq(word, 1, j) \o <<word[j + 1]>> = SubSeq(word, 1, j + 1)
      <4>1. 1 \in 1 .. Len(word) + 1 /\ j \in 1 - 1 .. Len(word) /\ j + 1 \in j .. Len(word)
        BY <1>1, <3>1
      <4>2. SubSeq(word, 1, j) \o SubSeq(word, j + 1, j + 1) = SubSeq(word, 1, j + 1)
        BY <1>1, <4>1, ConcatAdjacentSubSeq
      <4> DEFINE one == SubSeq(word, j + 1, j + 1)
      <4>3. one = <<word[j + 1]>>
        <5> DEFINE at == j + 1
        <5>1. at \in 1 .. Len(word) /\ at \in Int
          BY <1>1, <3>1
        <5> HIDE DEF at
        <5>2. \A k \in at .. at : word[k] \in S
          BY <1>1, <5>1
        <5>3. /\ SubSeq(word, at, at) \in Seq(S)
              /\ Len(SubSeq(word, at, at)) = IF at <= at THEN at - at + 1 ELSE 0
              /\ \A k \in 1 .. at - at + 1 : SubSeq(word, at, at)[k] = word[at + k - 1]
          BY <5>1, <5>2, SubSeqProperties
        <5>4. at <= at /\ at - at + 1 = 1 /\ at + 1 - 1 = at /\ 1 \in 1 .. 1
          BY <5>1
        <5>5. one \in Seq(S) /\ Len(one) = 1 /\ one[1] = word[j + 1]
          BY <5>3, <5>4 DEF at
        <5> HIDE DEF one
        <5>6. <<word[j + 1]>> \in Seq(S) /\ Len(<<word[j + 1]>>) = 1 /\ <<word[j + 1]>>[1] = word[j + 1]
          BY <3>3
        <5> DEFINE other == <<word[j + 1]>>
        <5> HIDE DEF other
        <5>7. Len(other) = Len(one) /\ \A k \in 1 .. Len(one) : one[k] = other[k]
          BY <5>5, <5>6 DEF other
        <5>8. one = other
          BY <5>5, <5>6, <5>7, SeqEqual DEF other
        <5> QED BY <5>8 DEF other
      <4> QED BY <4>2, <4>3
    <3> DEFINE head == SubSeq(word, 1, j)
               one == <<word[j + 1]>>
               rest == result[a + j + 2]
    <3>5. head \in Seq(S) /\ one \in Seq(S) /\ rest \in Seq(S)
      BY <3>3
    <3>6. (head \o one) \o rest = head \o (one \o rest)
      <4> HIDE DEF head, one, rest
      <4> QED BY <3>5, ConcatAssociative
    <3>7. result[a + (j + 1) + 1] = rest
      BY <3>1
    <3> QED BY <3>2, <3>4, <3>6, <3>7, Zenon
  <2>3. Good(m)
    <3> HIDE DEF Good
    <3>1. 0 \in F /\ \A j \in Nat : j \in F => j + 1 \in F
      BY <2>1, <2>2
    <3>2. Nat \subseteq F
      <4> HIDE DEF F
      <4> QED BY <3>1, NatSetInduction
    <3> QED BY <1>1, <3>2
  <2>4. m <= m /\ SubSeq(word, 1, m) = word
    BY <1>1, SubSeqFull
  <2> QED BY <1>1, <1>4, <1>6, <2>3, <2>4 DEF result, ReplacedAt
<1> QED BY <1>5, <1>6

\* A joined word stands after the text before it, which stays as it was.
Placed(u, t, word, S, separator) ==
  /\ u \in Seq(S) /\ Len(u) = Len(t) + Len(word) + 1
  /\ \A i \in 1 .. Len(t) : u[i] = t[i]
  /\ WordAt(u, Len(t), word, S, separator)

LEMMA JoinPlaces ==
  ASSUME NEW S, NEW separator \in S, NEW t \in Seq(S), NEW word \in Seq(S \ {separator})
  PROVE  Placed(Join(t, word, separator), t, word, S, separator)
<1> DEFINE s == t \o word
           last == <<separator>>
           u == s \o last
           a == Len(t)
           m == Len(word)
<1>1. word \in Seq(S) /\ last \in Seq(S) /\ Len(last) = 1 /\ last[1] = separator /\ a \in Nat /\ m \in Nat
  OBVIOUS
<1>2. s \in Seq(S) /\ Len(s) = a + m /\ \A i \in 1 .. a + m : s[i] = IF i <= a THEN t[i] ELSE word[i - a]
  BY <1>1, ConcatProperties
<1> HIDE DEF s, last, a, m
<1>3. u \in Seq(S) /\ Len(u) = a + m + 1
      /\ \A i \in 1 .. a + m + 1 : u[i] = IF i <= a + m THEN s[i] ELSE last[i - (a + m)]
  <2>1. u \in Seq(S) /\ Len(u) = Len(s) + Len(last)
        /\ \A i \in 1 .. Len(s) + Len(last) : u[i] = IF i <= Len(s) THEN s[i] ELSE last[i - Len(s)]
    BY <1>1, <1>2, ConcatProperties
  <2>2. Len(s) = a + m /\ Len(s) + Len(last) = a + m + 1
    BY <1>1, <1>2
  <2> HIDE DEF u
  <2> QED BY <2>1, <2>2, Zenon
<1> HIDE DEF u
<1>4. \A i \in 1 .. a : u[i] = t[i]
  BY <1>1, <1>2, <1>3
<1>5. ASSUME NEW j \in 1 .. m PROVE u[a + j] = word[j]
  <2>1. a + j \in 1 .. a + m /\ a + j \in 1 .. a + m + 1 /\ a + j <= a + m /\ ~(a + j <= a) /\ (a + j) - a = j
    BY <1>1
  <2> QED BY <1>2, <1>3, <2>1
<1>6. u[a + m + 1] = separator
  <2>1. a + m + 1 \in 1 .. a + m + 1 /\ ~(a + m + 1 <= a + m) /\ (a + m + 1) - (a + m) = 1
    BY <1>1
  <2> QED BY <1>1, <1>3, <2>1
<1>7. WordAt(u, a, word, S, separator)
  BY <1>1, <1>3, <1>5, <1>6 DEF WordAt, m
<1> QED BY <1>3, <1>4, <1>7, Zenon DEF u, s, last, a, m, Join, Placed

\* Every word stands in the whole text after those before it.
Kept(t, u) == Len(t) <= Len(u) /\ \A i \in 1 .. Len(t) : u[i] = t[i]

LEMMA WordsPlaced ==
  ASSUME NEW S, NEW separator \in S, NEW words \in Seq(Seq(S \ {separator})),
         NEW joined, Stepwise(joined, words, separator, S), NEW k \in 1 .. Len(words)
  PROVE  /\ WordAt(joined[Len(words)], Len(joined[k - 1]), words[k], S, separator)
         /\ Len(joined[k]) = Len(joined[k - 1]) + Len(words[k]) + 1
<1> DEFINE n == Len(words)
           F == {d \in Nat : k + d <= n => Kept(joined[k], joined[k + d])}
<1>1. /\ n \in Nat /\ k \in 1 .. n /\ n \in 0 .. n
      /\ \A i \in 0 .. n : joined[i] \in Seq(S) /\ Len(joined[i]) \in Nat
  <2>1. n \in Nat
    OBVIOUS
  <2>2. joined \in [0 .. n -> Seq(S)]
    BY DEF Stepwise
  <2> HIDE DEF n
  <2>3. ASSUME NEW i \in 0 .. n PROVE joined[i] \in Seq(S) /\ Len(joined[i]) \in Nat
    <3>1. joined[i] \in Seq(S)
      BY <2>2
    <3> QED BY <3>1
  <2> QED BY <2>1, <2>3 DEF n
<1>2. ASSUME NEW i \in 1 .. n
      PROVE  /\ Len(joined[i]) = Len(joined[i - 1]) + Len(words[i]) + 1
             /\ Len(joined[i - 1]) \in Nat /\ Len(words[i]) \in Nat
             /\ \A p \in 1 .. Len(joined[i - 1]) : joined[i][p] = joined[i - 1][p]
             /\ WordAt(joined[i], Len(joined[i - 1]), words[i], S, separator)
  <2>1. joined[i - 1] \in Seq(S) /\ words[i] \in Seq(S \ {separator})
    BY <1>1
  <2>2. joined[i] = Join(joined[i - 1], words[i], separator)
    BY DEF Stepwise
  <2> DEFINE t == joined[i - 1]
             w == words[i]
             u == Join(t, w, separator)
  <2>3. t \in Seq(S) /\ w \in Seq(S \ {separator})
    BY <2>1
  <2>4. Len(t) \in Nat /\ Len(w) \in Nat
    BY <2>3
  <2>5. /\ Len(u) = Len(t) + Len(w) + 1 /\ \A p \in 1 .. Len(t) : u[p] = t[p]
        /\ WordAt(u, Len(t), w, S, separator)
    <3> HIDE DEF t, w
    <3>1. Placed(u, t, w, S, separator)
      BY <2>3, JoinPlaces
    <3> QED BY <3>1, Zenon DEF Placed
  <2> HIDE DEF u
  <2> QED BY <2>2, <2>4, <2>5, Zenon DEF u
<1>3. Nat \subseteq F
  <2>1. 0 \in F
    <3>1. k + 0 = k /\ Len(joined[k]) <= Len(joined[k])
      BY <1>1
    <3>2. Kept(joined[k], joined[k])
      BY <3>1, Zenon DEF Kept
    <3> QED BY <3>1, <3>2
  <2>2. ASSUME NEW d \in Nat, d \in F PROVE d + 1 \in F
    <3> SUFFICES ASSUME k + (d + 1) <= n PROVE Kept(joined[k], joined[k + (d + 1)])
      OBVIOUS
    <3> DEFINE next == k + (d + 1)
               t == joined[k]
               u == joined[k + d]
               v == joined[next]
    <3>1. next \in 1 .. n /\ next - 1 = k + d /\ k + d <= n /\ k + d \in 0 .. n /\ k \in 0 .. n
      BY <1>1
    <3>2. Kept(t, u)
      BY <2>2, <3>1
    <3> HIDE DEF next
    <3>3. Len(t) \in Nat /\ Len(u) \in Nat
      BY <1>1, <3>1
    <3>4. /\ Len(v) = Len(u) + Len(words[next]) + 1 /\ Len(words[next]) \in Nat
          /\ \A p \in 1 .. Len(u) : v[p] = u[p]
      BY <1>2, <3>1
    <3> HIDE DEF t, u, v
    <3>5. Len(t) <= Len(u) /\ \A i \in 1 .. Len(t) : u[i] = t[i]
      BY <3>2, Zenon DEF Kept
    <3>6. Len(t) <= Len(v)
      BY <3>3, <3>4, <3>5
    <3>7. ASSUME NEW i \in 1 .. Len(t) PROVE v[i] = t[i]
      <4>1. i \in 1 .. Len(u)
        BY <3>3, <3>5
      <4> QED BY <3>4, <3>5, <4>1, Zenon
    <3>8. Kept(t, v)
      BY <3>6, <3>7, Zenon DEF Kept
    <3> QED BY <3>8 DEF t, v, next
  <2> HIDE DEF F
  <2> QED BY <2>1, <2>2, NatSetInduction
<1>4. /\ Len(joined[k]) <= Len(joined[n])
      /\ \A i \in 1 .. Len(joined[k]) : joined[n][i] = joined[k][i]
  <2>1. n - k \in Nat /\ k + (n - k) = n /\ n <= n
    BY <1>1
  <2>2. n - k \in F
    BY <1>3, <2>1
  <2>3. Kept(joined[k], joined[n])
    BY <2>1, <2>2
  <2> QED BY <2>3, Zenon DEF Kept
<1> DEFINE a == Len(joined[k - 1])
           w == words[k]
           m == Len(w)
           text == joined[n]
<1>5. Len(joined[k]) = a + m + 1 /\ a \in Nat /\ m \in Nat /\ w \in Seq(S \ {separator})
  <2>1. Len(joined[k]) = a + m + 1 /\ a \in Nat /\ m \in Nat
    BY <1>1, <1>2, Zenon
  <2>2. w \in Seq(S \ {separator})
    OBVIOUS
  <2> QED BY <2>1, <2>2
<1>6. Len(text) \in Nat /\ a + m + 1 <= Len(text)
  BY <1>1, <1>4, <1>5
<1>7. joined[k][a + m + 1] = separator /\ \A j \in 1 .. m : joined[k][a + j] = w[j]
  BY <1>1, <1>2 DEF WordAt
<1> HIDE DEF a, m, w, text
<1>8. text[a + m + 1] = separator /\ \A j \in 1 .. m : text[a + j] = w[j]
  <2>1. a + m + 1 \in 1 .. Len(joined[k]) /\ \A j \in 1 .. m : a + j \in 1 .. Len(joined[k])
    BY <1>5
  <2>2. \A i \in 1 .. Len(joined[k]) : text[i] = joined[k][i]
    BY <1>4 DEF text
  <2> QED BY <1>7, <2>1, <2>2, Zenon
<1>9. WordAt(text, a, w, S, separator)
  BY <1>5, <1>6, <1>8, Zenon DEF WordAt, m
<1> QED BY <1>5, <1>9 DEF a, m, w, text

\* Word by word, a joined text is rewritten to the joined values.
LEMMA TextRewritten ==
  ASSUME NEW S, NEW separator \in S, NEW values, Bindable(values, S, separator),
         NEW words \in Seq(Seq(S \ {separator})),
         \A i \in DOMAIN words : words[i] \in DOMAIN values \/ T!Unbound(values, words[i])
  PROVE  T!Rewrite(values, T!Joined(words, separator)) = T!Joined(T!Replayed(values, words), separator)
<1> DEFINE n == Len(words)
           new == T!Replayed(values, words)
           text == T!Joined(words, separator)
           result == Rewritten(values, text)
<1>1. n \in Nat /\ DOMAIN words = 1 .. n /\ words \in Seq(Seq(S))
  <2>1. Seq(S \ {separator}) \subseteq Seq(S)
    OBVIOUS
  <2>2. \A i \in 1 .. Len(words) : words[i] \in Seq(S)
    BY <2>1
  <2> QED BY <2>2
<1>2. ASSUME NEW i \in 1 .. n
      PROVE  new[i] = (IF words[i] \in DOMAIN values THEN values[words[i]] ELSE words[i]) /\ new[i] \in Seq(S)
  <2>1. new[i] = IF words[i] \in DOMAIN values THEN values[words[i]] ELSE words[i]
    BY <1>1 DEF T!Replayed
  <2> HIDE DEF new
  <2>2. words[i] \in Seq(S)
    BY <1>1
  <2> QED BY <2>1, <2>2 DEF Bindable
<1>3. new \in Seq(Seq(S)) /\ Len(new) = n
  <2>1. new = [i \in 1 .. n |-> new[i]]
    BY <1>1 DEF T!Replayed
  <2> HIDE DEF new, n
  <2> QED BY <1>1, <1>2, <2>1
<1> HIDE DEF new, text
<1>4. PICK h : Stepwise(h, words, separator, S) /\ h[n] = text
  <2>1. \E h : Stepwise(h, words, separator, S) /\ h[Len(words)] = T!Joined(words, separator)
    BY <1>1, JoinedStepwise
  <2> QED BY <2>1 DEF text
<1>5. PICK r : Stepwise(r, new, separator, S) /\ r[n] = T!Joined(new, separator)
  <2>1. \E r : Stepwise(r, new, separator, S) /\ r[Len(new)] = T!Joined(new, separator)
    BY <1>3, JoinedStepwise
  <2> QED BY <1>3, <2>1
<1>6. /\ \A k \in 0 .. n : h[k] \in Seq(S) /\ r[k] \in Seq(S)
      /\ h[0] = <<>> /\ r[0] = <<>> /\ text \in Seq(S)
      /\ \A k \in 1 .. n : r[k] = Join(r[k - 1], new[k], separator)
  <2>1. h \in [0 .. n -> Seq(S)] /\ r \in [0 .. n -> Seq(S)] /\ h[0] = <<>> /\ r[0] = <<>>
    BY <1>3, <1>4, <1>5 DEF Stepwise
  <2>2. \A k \in 1 .. n : r[k] = Join(r[k - 1], new[k], separator)
    BY <1>3, <1>5, Zenon DEF Stepwise
  <2> HIDE DEF n
  <2>3. n \in 0 .. n
    BY <1>1
  <2> QED BY <1>4, <2>1, <2>2, <2>3
<1>7. \A i \in 1 .. Len(text) + 1 : result[i] \in Seq(S)
  BY <1>6, RewriteWorks
<1> DEFINE Good(k) == k <= n => result[1] = r[k] \o result[Len(h[k]) + 1]
           F == {k \in Nat : Good(k)}
<1> HIDE DEF result
<1>8. ASSUME NEW k \in 1 .. n
      PROVE  /\ Len(h[k]) \in Nat /\ Len(h[k - 1]) \in Nat /\ Len(h[k]) <= Len(text)
             /\ Len(h[k]) = Len(h[k - 1]) + Len(words[k]) + 1
             /\ result[Len(h[k - 1]) + 1] = new[k] \o (<<separator>> \o result[Len(h[k]) + 1])
  <2> DEFINE a == Len(h[k - 1])
             m == Len(words[k])
  <2>1. WordAt(text, a, words[k], S, separator) /\ Len(h[k]) = a + m + 1
    BY <1>4, WordsPlaced
  <2>2. a \in Nat /\ m \in Nat /\ a + m + 1 <= Len(text)
    <3>1. h[k - 1] \in Seq(S) /\ words[k] \in Seq(S)
      BY <1>1, <1>6
    <3>2. a \in Nat /\ a + Len(words[k]) + 1 <= Len(text)
      BY <2>1, Zenon DEF WordAt
    <3>3. m \in Nat
      BY <3>1
    <3> QED BY <3>2, <3>3, Zenon
  <2>3. words[k] \in DOMAIN values \/ T!Unbound(values, words[k])
    BY <1>1
  <2> HIDE DEF a, m
  <2>4. result[a + 1] = new[k] \o (<<separator>> \o result[a + m + 2])
    <3> DEFINE w == words[k]
               plain == IF w \in DOMAIN values THEN values[w] ELSE w
    <3>1. result[a + 1] = plain \o (<<separator>> \o result[a + Len(w) + 2])
      <4> HIDE DEF w
      <4>1. WordAt(text, a, w, S, separator) /\ (w \in DOMAIN values \/ T!Unbound(values, w))
        BY <2>1, <2>3 DEF w
      <4>2. ReplacedAt(result, values, a, w, separator)
        BY <1>6, <4>1, WordRewritten DEF result
      <4> QED BY <4>2, Zenon DEF ReplacedAt
    <3>2. new[k] = plain
      BY <1>2, Zenon
    <3> QED BY <3>1, <3>2, Zenon DEF m
  <2>5. Len(h[k]) \in Nat /\ Len(h[k]) <= Len(text) /\ a + m + 2 = Len(h[k]) + 1
    BY <2>1, <2>2
  <2> QED BY <2>1, <2>2, <2>4, <2>5 DEF a, m
<1>9. Good(0)
  <2>1. Len(h[0]) + 1 = 1 /\ 1 \in 1 .. Len(text) + 1 /\ r[0] = <<>>
    BY <1>6
  <2>2. <<>> \o result[1] = result[1]
    BY <1>7, <2>1, ConcatEmptySeq
  <2> QED BY <2>1, <2>2
<1>10. ASSUME NEW k \in Nat, Good(k) PROVE Good(k + 1)
  <2> SUFFICES ASSUME k + 1 <= n PROVE result[1] = r[k + 1] \o result[Len(h[k + 1]) + 1]
    OBVIOUS
  <2>1. k + 1 \in 1 .. n /\ (k + 1) - 1 = k /\ k \in 0 .. n /\ k <= n
    BY <1>1
  <2> DEFINE before == r[k]
             word == new[k + 1]
             last == <<separator>>
             rest == result[Len(h[k + 1]) + 1]
  <2>2. result[1] = before \o (word \o (last \o rest))
    <3>1. result[1] = before \o result[Len(h[k]) + 1]
      BY <1>10, <2>1
    <3>2. result[Len(h[k]) + 1] = word \o (last \o rest)
      BY <1>8, <2>1
    <3> QED BY <3>1, <3>2, Zenon
  <2>3. before \in Seq(S) /\ word \in Seq(S) /\ last \in Seq(S) /\ rest \in Seq(S)
    <3>1. Len(h[k + 1]) + 1 \in 1 .. Len(text) + 1
      <4>1. Len(h[k + 1]) \in Nat /\ Len(h[k + 1]) <= Len(text)
        BY <1>8, <2>1
      <4>2. Len(text) \in Nat
        BY <1>6
      <4> QED BY <4>1, <4>2
    <3> QED BY <1>2, <1>6, <1>7, <2>1, <3>1
  <2>4. r[k + 1] = before \o word \o last
    BY <1>6, <2>1 DEF Join
  <2> HIDE DEF before, word, last, rest
  <2> DEFINE tail == last \o rest
             front == before \o word
  <2>5. tail \in Seq(S) /\ front \in Seq(S)
    BY <2>3, ConcatProperties
  <2>6. (before \o word) \o tail = before \o (word \o tail)
    <3>1. before \in Seq(S) /\ word \in Seq(S) /\ tail \in Seq(S)
      BY <2>3, <2>5
    <3> HIDE DEF tail
    <3> QED BY <3>1, ConcatAssociative
  <2>7. front \o tail = (front \o last) \o rest
    <3>1. front \in Seq(S) /\ last \in Seq(S) /\ rest \in Seq(S)
      BY <2>3, <2>5
    <3> HIDE DEF front
    <3>2. (front \o last) \o rest = front \o (last \o rest)
      BY <3>1, ConcatAssociative
    <3> QED BY <3>2
  <2> QED BY <2>2, <2>4, <2>6, <2>7, Zenon DEF rest
<1>11. result[1] = r[n] \o result[Len(text) + 1]
  <2>1. 0 \in F /\ \A k \in Nat : k \in F => k + 1 \in F
    <3> HIDE DEF Good
    <3> QED BY <1>9, <1>10
  <2>2. Nat \subseteq F
    <3> HIDE DEF F
    <3> QED BY <2>1, NatSetInduction
  <2>3. Good(n)
    <3> HIDE DEF Good
    <3> QED BY <1>1, <2>2
  <2>4. n <= n
    BY <1>1
  <2> QED BY <1>4, <2>3, <2>4, Zenon
<1>12. result[Len(text) + 1] = <<>>
  <2>1. Len(text) + 1 \in 1 .. Len(text) + 1
    BY <1>6
  <2>2. Rewriting(result, values, text)
    BY <1>6, RewriteWorks DEF result
  <2> QED BY <2>1, <2>2 DEF Rewriting, Written
<1>13. r[n] \o <<>> = r[n]
  <2>1. r[n] \in Seq(S)
    BY <1>1, <1>6
  <2> QED BY <2>1, ConcatEmptySeq
<1>14. T!Rewrite(values, text) = result[1]
  BY <1>6, RewriteWorks DEF result
<1> QED BY <1>5, <1>11, <1>12, <1>13, <1>14, Zenon DEF new, text

\* A sequence is one of whatever holds its elements.
LEMMA ElementsOf ==
  ASSUME NEW S, NEW words \in Seq(S), NEW V, \A i \in 1 .. Len(words) : words[i] \in V
  PROVE  words \in Seq(V)
OBVIOUS

LEMMA RewritesExactly ==
  ASSUME NEW S, NEW separator \in S, NEW values, Bindable(values, S, separator), NEW words \in Seq(Seq(S))
  PROVE  T!RewriteExact(values, words, separator)
<1> SUFFICES ASSUME \A i \in DOMAIN words : /\ words[i] \in DOMAIN values \/ T!Unbound(values, words[i])
                                            /\ separator \notin T!ToSet(words[i])
             PROVE  T!Rewrite(values, T!Joined(words, separator))
                      = T!Joined(T!Replayed(values, words), separator)
  BY DEF T!RewriteExact
<1>1. ASSUME NEW i \in 1 .. Len(words) PROVE words[i] \in Seq(S \ {separator})
  <2>1. words[i] \in Seq(S) /\ separator \notin T!ToSet(words[i])
    OBVIOUS
  <2> DEFINE w == words[i]
  <2>2. w \in Seq(S) /\ \A j \in 1 .. Len(w) : w[j] # separator
    BY <2>1 DEF T!ToSet
  <2> HIDE DEF w
  <2>3. \A j \in 1 .. Len(w) : w[j] \in S \ {separator}
    BY <2>2
  <2>4. w \in Seq(S \ {separator})
    BY <2>2, <2>3
  <2> QED BY <2>4 DEF w
<1> DEFINE V == Seq(S \ {separator})
<1>2. words \in Seq(V)
  <2> HIDE DEF V
  <2>1. \A i \in 1 .. Len(words) : words[i] \in V
    BY <1>1 DEF V
  <2> QED BY <2>1, ElementsOf
<1> QED BY <1>2, TextRewritten

\* The bindings a replay can hold, and what adding one makes of them.
Words(S, separator) == Seq(S \ {separator}) \ {<<>>}
Bindings(S, separator) == UNION {[E -> Seq(S)] : E \in SUBSET Words(S, separator)}
Learning(g, learned) ==
  g = [s \in SUBSET DOMAIN learned |->
         IF s = {} THEN <<>>
         ELSE T!Add(g[s \ {Greatest(s)}], learned[Greatest(s)].recorded, learned[Greatest(s)].replayed)]
AllLearned(learned) == CHOOSE g : Learning(g, learned)

LEMMA AddBinds ==
  ASSUME NEW S, NEW separator \in S, NEW values \in Bindings(S, separator),
         NEW recorded \in Seq(S \ {separator}), NEW replayed \in Seq(S)
  PROVE  T!Add(values, recorded, replayed) \in Bindings(S, separator)
<1>1. PICK E \in SUBSET Words(S, separator) : values \in [E -> Seq(S)]
  BY DEF Bindings
<1>2. CASE recorded # <<>> /\ replayed # <<>> /\ recorded # replayed
  <2> DEFINE F == DOMAIN values \cup {recorded}
             f == [v \in F |-> IF v = recorded THEN replayed ELSE values[v]]
  <2>1. recorded \in Words(S, separator) /\ DOMAIN values = E
    BY <1>1, <1>2 DEF Words
  <2>2. F \in SUBSET Words(S, separator)
    BY <2>1
  <2>3. \A v \in F : (IF v = recorded THEN replayed ELSE values[v]) \in Seq(S)
    BY <1>1, <2>1
  <2>4. f \in [F -> Seq(S)]
    BY <2>3
  <2>5. T!Add(values, recorded, replayed) = f
    BY <1>2, Zenon DEF T!Add
  <2> HIDE DEF F, f
  <2> QED BY <2>2, <2>4, <2>5 DEF Bindings
<1>3. CASE ~(recorded # <<>> /\ replayed # <<>> /\ recorded # replayed)
  <2>1. T!Add(values, recorded, replayed) = values
    BY <1>3, Zenon DEF T!Add
  <2> QED BY <2>1
<1> QED BY <1>2, <1>3

LEMMA LearnedBinds ==
  ASSUME NEW S, NEW separator \in S,
         NEW learned \in Seq([recorded : Seq(S \ {separator}), replayed : Seq(S)])
  PROVE  Bindable(T!FoldLeft(LAMBDA v, p : T!Add(v, p.recorded, p.replayed), <<>>, learned), S, separator)
<1> DEFINE n == Len(learned)
           V == Bindings(S, separator)
           step == [x \in (1 .. n) \X V |-> T!Add(x[2], learned[x[1]].recorded, learned[x[1]].replayed)]
           values == T!FoldLeft(LAMBDA v, p : T!Add(v, p.recorded, p.replayed), <<>>, learned)
           Pairs == [recorded : Seq(S \ {separator}), replayed : Seq(S)]
<1>1. n \in Nat /\ DOMAIN learned = 1 .. n /\ \A i \in 1 .. n : learned[i] \in Pairs
  <2>1. learned \in Seq(Pairs)
    OBVIOUS
  <2> HIDE DEF Pairs
  <2> QED BY <2>1
<1>2. <<>> \in V
  <2>1. <<>> \in [{} -> Seq(S)] /\ {} \in SUBSET Words(S, separator)
    OBVIOUS
  <2> QED BY <2>1 DEF Bindings
<1>3. step \in [(1 .. n) \X V -> V]
  <2>1. ASSUME NEW x \in (1 .. n) \X V
        PROVE  T!Add(x[2], learned[x[1]].recorded, learned[x[1]].replayed) \in V
    <3> DEFINE v == x[2]
               p == learned[x[1]]
    <3>1. v \in V /\ x[1] \in 1 .. n
      OBVIOUS
    <3>2. p \in Pairs
      <4> HIDE DEF Pairs
      <4> QED BY <1>1, <3>1
    <3>3. p.recorded \in Seq(S \ {separator}) /\ p.replayed \in Seq(S)
      BY <3>2
    <3> HIDE DEF v, p
    <3>4. T!Add(v, p.recorded, p.replayed) \in V
      BY <3>1, <3>3, AddBinds
    <3> QED BY <3>4 DEF v, p
  <2> QED BY <2>1
<1>4. PICK g \in [SUBSET (1 .. n) -> V] : Folding(<<>>, step, g, n)
  <2> HIDE DEF n, step, V
  <2> QED BY <1>1, <1>2, <1>3, FoldsExist, Zenon
<1>5. ASSUME NEW s \in SUBSET (1 .. n), s # {}
      PROVE  step[<<Greatest(s), g[s \ {Greatest(s)}]>>]
               = T!Add(g[s \ {Greatest(s)}], learned[Greatest(s)].recorded, learned[Greatest(s)].replayed)
  <2>1. Greatest(s) \in s
    BY <1>1, <1>5, GreatestIn
  <2>2. <<Greatest(s), g[s \ {Greatest(s)}]>> \in (1 .. n) \X V
    BY <2>1
  <2> QED BY <2>2
<1>6. Learning(g, learned)
  BY <1>1, <1>4, <1>5, Zenon DEF Learning, Folding, Folded
<1> DEFINE all == AllLearned(learned)
<1>7. Learning(all, learned)
  BY <1>6, Zenon DEF AllLearned
<1>8. values = all[DOMAIN learned]
  BY Zenon DEF T!FoldLeft, T!MapThenFoldSet, T!Max, Greatest, AllLearned, Learning
<1> HIDE DEF all, values
<1> DEFINE F == {k \in Nat : k <= n => all[1 .. k] \in V}
<1>9. 0 \in F
  <2>1. 1 .. 0 = {} /\ {} \in SUBSET DOMAIN learned
    OBVIOUS
  <2>2. all[{}] = <<>>
    BY <1>7, <2>1 DEF Learning
  <2> QED BY <1>2, <2>1, <2>2
<1>10. ASSUME NEW k \in Nat, k \in F PROVE k + 1 \in F
  <2> HIDE DEF V
  <2> SUFFICES ASSUME k + 1 <= n PROVE all[1 .. k + 1] \in V
    OBVIOUS
  <2> DEFINE p == learned[k + 1]
  <2>1. k + 1 \in 1 .. n /\ (k + 1) - 1 = k /\ all[1 .. k] \in V
    BY <1>1, <1>10
  <2>2. /\ (1 .. k + 1) \in SUBSET DOMAIN learned /\ 1 .. k + 1 # {}
        /\ Greatest(1 .. k + 1) = k + 1 /\ (1 .. k + 1) \ {k + 1} = 1 .. k
    <3> DEFINE l == k + 1
    <3>1. l \in 1 .. n /\ l - 1 = k
      BY <2>1
    <3> HIDE DEF l
    <3>2. /\ (1 .. l) \in SUBSET DOMAIN learned /\ 1 .. l # {}
          /\ Greatest(1 .. l) = l /\ (1 .. l) \ {l} = 1 .. l - 1
      BY <1>1, <3>1, Segments
    <3> QED BY <3>1, <3>2 DEF l
  <2>3. all[1 .. k + 1] = T!Add(all[1 .. k], p.recorded, p.replayed)
    BY <1>7, <2>2, Zenon DEF Learning
  <2>4. p \in Pairs
    <3> HIDE DEF Pairs
    <3> QED BY <1>1, <2>1
  <2>5. p.recorded \in Seq(S \ {separator}) /\ p.replayed \in Seq(S)
    BY <2>4
  <2> HIDE DEF p
  <2>6. T!Add(all[1 .. k], p.recorded, p.replayed) \in V
    BY <2>1, <2>5, AddBinds DEF V
  <2> QED BY <2>3, <2>6, Zenon
<1>11. values \in V
  <2> HIDE DEF F
  <2>1. n \in F
    BY <1>1, <1>9, <1>10, NatSetInduction
  <2>2. n <= n
    BY <1>1
  <2> QED BY <1>1, <1>8, <2>1, <2>2 DEF F
<1>12. PICK E \in SUBSET Words(S, separator) : values \in [E -> Seq(S)]
  BY <1>11 DEF Bindings
<1>13. Bindable(values, S, separator)
  BY <1>12 DEF Bindable, Words
<1> QED BY <1>13, Zenon DEF values

-----------------------------------------------------------------------------
(* Resources: sums and selections                                            *)
\* The sums of the accounts.
LEMMA TotalSum ==
  ASSUME NEW S, IsFiniteSet(S), NEW f PROVE M!Total(S, f) = Sum(f, S)
<1> DEFINE g == CHOOSE h : Sums(f, h, SUBSET S)
<1>1. Sums(f, g, SUBSET S)
  BY SumsExist, Zenon
<1>2. M!Total(S, f) = g[S]
  BY Zenon DEF M!Total, M!MapThenSumSet, M!MapThenFoldSet, Sums, Summand, Picked
<1> HIDE DEF g
<1> QED BY <1>1, <1>2, SumsUnique

\* t is s at the places in I, in their order: f are the places.
Subsequence(f, s, t, I) ==
  /\ f \in [1 .. Len(t) -> I]
  /\ \A i, j \in 1 .. Len(t) : i < j => f[i] < f[j]
  /\ \A k \in I : \E j \in 1 .. Len(t) : f[j] = k
  /\ \A j \in 1 .. Len(t) : t[j] = s[f[j]]
KeptStep(g, s, I, i) ==
  IF i = 0 THEN <<>> ELSE IF i \in I THEN Append(g[i - 1], s[i]) ELSE g[i - 1]
Keeping(g, s, I) == g = [i \in 0 .. Len(s) |-> KeptStep(g, s, I, i)]

LEMMA KeptExist ==
  ASSUME NEW V, NEW s \in Seq(V), NEW I PROVE \E g \in [0 .. Len(s) -> Seq(V)] : Keeping(g, s, I)
<1> DEFINE n == Len(s)
           step == [x \in (1 .. n) \X Seq(V) |-> IF x[1] \in I THEN Append(x[2], s[x[1]]) ELSE x[2]]
<1>1. n \in Nat /\ <<>> \in Seq(V) /\ \A i \in 1 .. n : s[i] \in V
  OBVIOUS
<1>2. step \in [(1 .. n) \X Seq(V) -> Seq(V)]
  <2>1. ASSUME NEW x \in (1 .. n) \X Seq(V)
        PROVE  (IF x[1] \in I THEN Append(x[2], s[x[1]]) ELSE x[2]) \in Seq(V)
    <3>1. x[2] \in Seq(V) /\ s[x[1]] \in V
      OBVIOUS
    <3> QED BY <3>1, AppendProperties
  <2> QED BY <2>1
<1>3. PICK g \in [SUBSET (1 .. n) -> Seq(V)] : Folding(<<>>, step, g, n)
  <2> HIDE DEF n, step
  <2> QED BY <1>1, <1>2, FoldsExist, Zenon
<1> DEFINE kept == [i \in 0 .. n |-> g[1 .. i]]
<1>4. ASSUME NEW i \in 0 .. n PROVE kept[i] \in Seq(V) /\ kept[i] = KeptStep(kept, s, I, i)
  <2>1. CASE i = 0
    <3>1. {} \in SUBSET (1 .. n) /\ 1 .. 0 = {} /\ 0 \in 0 .. n
      BY <1>1
    <3>2. kept[0] = <<>>
      BY <1>3, <3>1 DEF Folding, Folded
    <3> HIDE DEF kept
    <3> QED BY <1>1, <2>1, <3>2 DEF KeptStep
  <2>2. CASE i # 0
    <3>1. i \in 1 .. n
      BY <2>2
    <3>2. /\ (1 .. i) \in SUBSET (1 .. n) /\ 1 .. i # {}
          /\ Greatest(1 .. i) = i /\ (1 .. i) \ {i} = 1 .. i - 1
      BY <1>1, <3>1, Segments
    <3>3. g[1 .. i] = step[<<i, g[1 .. i - 1]>>]
      <4> HIDE DEF step
      <4> QED BY <1>3, <3>2 DEF Folding, Folded
    <3>4. 1 .. i - 1 \in SUBSET (1 .. n) /\ i - 1 \in 0 .. n
      BY <3>1
    <3>5. <<i, g[1 .. i - 1]>> \in (1 .. n) \X Seq(V)
      BY <3>1, <3>4
    <3>6. kept[i - 1] = g[1 .. i - 1] /\ kept[i] = g[1 .. i] /\ kept[i] \in Seq(V)
      BY <3>2, <3>4
    <3>7. kept[i] = IF i \in I THEN Append(kept[i - 1], s[i]) ELSE kept[i - 1]
      BY <3>3, <3>5, <3>6
    <3> HIDE DEF kept
    <3> QED BY <2>2, <3>6, <3>7, Zenon DEF KeptStep
  <2> QED BY <2>1, <2>2
<1>5. kept = [i \in 0 .. n |-> kept[i]]
  OBVIOUS
<1> HIDE DEF kept
<1>6. kept \in [0 .. n -> Seq(V)] /\ Keeping(kept, s, I)
  BY <1>4, <1>5 DEF Keeping
<1> QED BY <1>6

LEMMA SelectedTakes ==
  ASSUME NEW V, NEW s \in Seq(V), NEW I, I \subseteq 1 .. Len(s)
  PROVE  M!Selected(s, I) \in Seq(V) /\ \E f : Subsequence(f, s, M!Selected(s, I), I)
<1> DEFINE n == Len(s)
           g == CHOOSE h : Keeping(h, s, I)
           Good(k) == g[k] \in Seq(V) /\ \E f : Subsequence(f, s, g[k], I \cap (1 .. k))
           F == {k \in Nat : k <= n => Good(k)}
<1>1. n \in Nat
  OBVIOUS
<1>2. M!Selected(s, I) = g[n]
  BY Zenon DEF M!Selected, Keeping, KeptStep
<1>3. Keeping(g, s, I)
  <2>1. \E h : Keeping(h, s, I)
    BY KeptExist, Zenon
  <2> QED BY <2>1, Zenon
<1> HIDE DEF g
<1>4. \A k \in 0 .. n : g[k] = KeptStep(g, s, I, k)
  BY <1>3, Zenon DEF Keeping
<1>5. Good(0)
  <2>1. g[0] = <<>>
    <3>1. 0 \in 0 .. n
      OBVIOUS
    <3> QED BY <1>4, <3>1 DEF KeptStep
  <2>2. I \cap (1 .. 0) = {}
    OBVIOUS
  <2>3. Subsequence(<<>>, s, <<>>, {})
    BY DEF Subsequence
  <2>4. <<>> \in Seq(V)
    OBVIOUS
  <2> QED BY <2>1, <2>2, <2>3, <2>4
<1>6. ASSUME NEW k \in Nat, k + 1 <= n, Good(k) PROVE Good(k + 1)
  <2>1. k + 1 \in 0 .. n /\ k + 1 # 0 /\ (k + 1) - 1 = k /\ k + 1 \in 1 .. n
    BY <1>6
  <2>2. g[k + 1] = IF k + 1 \in I THEN Append(g[k], s[k + 1]) ELSE g[k]
    BY <1>4, <2>1 DEF KeptStep
  <2>3. g[k] \in Seq(V)
    BY <1>6
  <2>4. PICK f : Subsequence(f, s, g[k], I \cap (1 .. k))
    BY <1>6
  <2>5. CASE k + 1 \in I
    <3> DEFINE t == Append(g[k], s[k + 1])
               m == Len(g[k])
               h == [j \in 1 .. m + 1 |-> IF j = m + 1 THEN k + 1 ELSE f[j]]
    <3>1. s[k + 1] \in V
      BY <2>1
    <3>2. /\ m \in Nat /\ t \in Seq(V) /\ Len(t) = m + 1
          /\ t[m + 1] = s[k + 1] /\ \A j \in 1 .. m : t[j] = g[k][j]
      BY <2>3, <3>1, AppendProperties
    <3>3. /\ f \in [1 .. m -> I \cap (1 .. k)]
          /\ \A i, j \in 1 .. m : i < j => f[i] < f[j]
          /\ \A x \in I \cap (1 .. k) : \E j \in 1 .. m : f[j] = x
          /\ \A j \in 1 .. m : g[k][j] = s[f[j]]
      BY <2>4 DEF Subsequence
    <3> HIDE DEF m, t
    <3>4. h[m + 1] = k + 1 /\ \A j \in 1 .. m : h[j] = f[j] /\ f[j] \in I /\ f[j] \in 1 .. k
      BY <3>2, <3>3
    <3>5. h \in [1 .. m + 1 -> I \cap (1 .. k + 1)]
      <4>1. ASSUME NEW j \in 1 .. m + 1 PROVE h[j] \in I \cap (1 .. k + 1)
        <5>1. j = m + 1 \/ j \in 1 .. m
          BY <3>2
        <5> HIDE DEF h
        <5> QED BY <2>1, <2>5, <3>4, <5>1
      <4> QED BY <4>1
    <3> HIDE DEF h
    <3>6. ASSUME NEW i \in 1 .. m + 1, NEW j \in 1 .. m + 1, i < j PROVE h[i] < h[j]
      <4>1. i \in 1 .. m
        BY <3>2, <3>6
      <4>2. CASE j = m + 1
        BY <3>4, <4>1, <4>2
      <4>3. CASE j # m + 1
        <5>1. j \in 1 .. m
          BY <3>2, <4>3
        <5> QED BY <3>3, <3>4, <3>6, <4>1, <5>1
      <4> QED BY <4>2, <4>3
    <3>7. ASSUME NEW x \in I \cap (1 .. k + 1) PROVE \E j \in 1 .. m + 1 : h[j] = x
      <4>1. CASE x = k + 1
        <5>1. m + 1 \in 1 .. m + 1
          BY <3>2
        <5> QED BY <3>4, <4>1, <5>1
      <4>2. CASE x # k + 1
        <5>1. x \in I \cap (1 .. k)
          BY <4>2
        <5>2. PICK j \in 1 .. m : f[j] = x
          BY <3>3, <5>1
        <5> QED BY <3>2, <3>4, <5>2
      <4> QED BY <4>1, <4>2
    <3>8. ASSUME NEW j \in 1 .. m + 1 PROVE t[j] = s[h[j]]
      <4>1. j = m + 1 \/ j \in 1 .. m
        BY <3>2
      <4> QED BY <3>2, <3>3, <3>4, <4>1
    <3>9. Subsequence(h, s, t, I \cap (1 .. k + 1))
      BY <3>2, <3>5, <3>6, <3>7, <3>8 DEF Subsequence
    <3>10. g[k + 1] = t
      BY <2>2, <2>5 DEF t
    <3> QED BY <3>2, <3>9, <3>10
  <2>6. CASE k + 1 \notin I
    <3>1. I \cap (1 .. k + 1) = I \cap (1 .. k)
      BY <2>6
    <3>2. g[k + 1] = g[k]
      BY <2>2, <2>6
    <3> QED BY <2>3, <2>4, <3>1, <3>2
  <2> QED BY <2>5, <2>6
<1> HIDE DEF Good
<1>7. Nat \subseteq F
  <2>1. 0 \in F
    BY <1>5
  <2>2. ASSUME NEW k \in Nat, k \in F PROVE k + 1 \in F
    <3>1. k + 1 <= n => Good(k) /\ k + 1 <= n
      BY <1>1, <2>2
    <3> QED BY <1>6, <3>1
  <2> HIDE DEF F
  <2> QED BY <2>1, <2>2, NatSetInduction
<1>8. Good(n) /\ I \cap (1 .. n) = I
  <2>1. n \in F /\ n <= n
    BY <1>1, <1>7
  <2> QED BY <2>1
<1> HIDE DEF n
<1> QED BY <1>2, <1>8 DEF Good

\* Sums of natural numbers are natural numbers.
LEMMA SumNat ==
  ASSUME NEW f, NEW S, IsFiniteSet(S), \A x \in S : f[x] \in Nat PROVE Sum(f, S) \in Nat
<1> DEFINE F == {U \in SUBSET S : Sum(f, U) \in Nat}
<1>1. {} \in F
  BY SumEmpty
<1>2. ASSUME NEW U \in SUBSET S, U # {}, \A x \in U : U \ {x} \in F PROVE U \in F
  <2>1. IsFiniteSet(U)
    BY FS_Subset
  <2>2. Picked(U) \in U /\ Sum(f, U) = f[Picked(U)] + Sum(f, U \ {Picked(U)})
    BY <1>2, <2>1, SumPicks
  <2> QED BY <1>2, <2>2
<1>3. SUBSET S \subseteq F
  <2> HIDE DEF F
  <2> QED BY <1>1, <1>2, SubsetInduction
<1> QED BY <1>3

\* Two summands are a part of a sum.
LEMMA TwoOfSum ==
  ASSUME NEW S, IsFiniteSet(S), NEW f, \A x \in S : f[x] \in Nat, NEW a \in S, NEW b \in S \ {a}
  PROVE  /\ Sum(f, S) \in Nat
         /\ 0 <= Sum(f, S) - f[a] - f[b] /\ Sum(f, S) - f[a] - f[b] <= Sum(f, S)
<1>1. IsFiniteSet(S \ {a}) /\ IsFiniteSet((S \ {a}) \ {b})
  BY FS_RemoveElement
<1>2. Sum(f, S) = f[a] + Sum(f, S \ {a})
  <2>1. \A x \in S : f[x] \in Int
    OBVIOUS
  <2> QED BY <2>1, SumTakesOut
<1>3. Sum(f, S \ {a}) = f[b] + Sum(f, (S \ {a}) \ {b})
  <2>1. \A x \in S \ {a} : f[x] \in Int
    OBVIOUS
  <2> QED BY <1>1, <2>1, SumTakesOut
<1>4. PICK rest \in Nat : rest = Sum(f, (S \ {a}) \ {b})
  <2>1. \A x \in (S \ {a}) \ {b} : f[x] \in Nat
    OBVIOUS
  <2> QED BY <1>1, <2>1, SumNat
<1>5. Sum(f, S) = f[a] + (f[b] + rest) /\ f[a] \in Nat /\ f[b] \in Nat
  BY <1>2, <1>3, <1>4
<1> QED BY <1>5

\* Idle and waiting ticks are a part of all ticks.
LEMMA BusySane ==
  ASSUME NEW old \in Seq(Int), NEW new \in Seq(Int), Len(old) = Len(new), Len(new) >= 5
  PROVE  M!CpuBusySane(old, new)
<1> DEFINE n == Len(new)
           delta == M!Delta(old, new)
<1>1. n \in Nat /\ n >= 5 /\ DOMAIN delta = 1 .. n
  BY DEF M!Delta
<1>2. \A i \in 1 .. n : delta[i] \in Int
  BY DEF M!Delta
<1>3. IsFiniteSet(1 .. n) /\ 4 \in 1 .. n /\ 5 \in (1 .. n) \ {4}
  BY <1>1, FS_Interval
<1> HIDE DEF n, delta
<1>4. M!Total(DOMAIN delta, delta) = Sum(delta, 1 .. n)
  BY <1>1, <1>3, TotalSum
<1>5. ASSUME \A i \in 1 .. n : delta[i] >= 0
      PROVE  /\ 0 <= Sum(delta, 1 .. n) - delta[4] - delta[5]
             /\ Sum(delta, 1 .. n) - delta[4] - delta[5] <= Sum(delta, 1 .. n)
  <2>1. \A i \in 1 .. n : delta[i] \in Nat
    BY <1>2, <1>5
  <2> QED BY <1>3, <2>1, TwoOfSum
<1>6. (\A i \in DOMAIN delta : delta[i] >= 0) => \A i \in 1 .. n : delta[i] >= 0
  BY <1>1
<1> QED BY <1>4, <1>5, <1>6 DEF M!CpuBusySane, M!CpuBusy, delta

-----------------------------------------------------------------------------
(* Resources: what the samples of a run are                                 *)
Sampled(samples) ==
  /\ samples \in Seq(M!ToSet(samples))
  /\ \A i \in DOMAIN samples :
       /\ samples[i].at \in Int /\ samples[i].gpus \in Seq(Int)
       /\ \A k \in DOMAIN samples[i].series : samples[i].series[k] \in Int
  /\ \A i \in 1 .. Len(samples) - 1 : samples[i].at <= samples[i + 1].at

Sampling(samples, start, end) == {i \in DOMAIN samples : M!In(samples[i].at, start, end)}

LEMMA InsideTakes ==
  ASSUME NEW samples, Sampled(samples), NEW start, NEW end
  PROVE  /\ M!InWindow(samples, start, end) \in Seq(M!ToSet(samples))
         /\ \E f : Subsequence(f, samples, M!InWindow(samples, start, end), Sampling(samples, start, end))
<1>1. samples \in Seq(M!ToSet(samples)) /\ Sampling(samples, start, end) \subseteq 1 .. Len(samples)
  BY DEF Sampled, Sampling
<1> QED BY <1>1, SelectedTakes DEF M!InWindow, Sampling

\* Covered seconds have a sample near, before or after.
LEMMA CoverageNear ==
  ASSUME NEW samples, Sampled(samples), NEW start \in Int, NEW end \in Int
  PROVE  M!CoverageIsClose(samples, start, end)
<1> DEFINE inside == M!InWindow(samples, start, end)
           n == Len(inside)
           at(i) == inside[i].at
<1> SUFFICES ASSUME M!WindowCoverage(samples, start, end), NEW t \in start .. end - 1
             PROVE  \E i \in DOMAIN samples : samples[i].at - t \in -MaxGap .. MaxGap
  BY DEF M!CoverageIsClose
<1>1. PICK f : Subsequence(f, samples, inside, Sampling(samples, start, end))
  BY InsideTakes
<1>2. inside \in Seq(M!ToSet(samples)) /\ inside # <<>>
  BY InsideTakes DEF M!WindowCoverage
<1>3. n \in Nat /\ n >= 1
  BY <1>2, EmptySeq
<1>4. MaxGap \in Nat
  BY MetricConstants
<1>5. /\ at(1) - start <= MaxGap /\ end - at(n) <= MaxGap
      /\ \A i \in 1 .. n - 1 : at(i + 1) - at(i) <= MaxGap
  BY DEF M!WindowCoverage
<1> HIDE DEF inside
<1>6. ASSUME NEW i \in 1 .. n
      PROVE  at(i) \in Int /\ \E j \in DOMAIN samples : samples[j].at = at(i)
  <2>1. f[i] \in DOMAIN samples /\ inside[i] = samples[f[i]]
    BY <1>1 DEF Subsequence, Sampling
  <2> QED BY <2>1 DEF Sampled
<1> HIDE DEF n, at
<1>7. \E i \in 1 .. n : at(i) - t \in -MaxGap .. MaxGap
  <2>1. 1 \in 1 .. n /\ n \in 1 .. n
    BY <1>3
  <2>2. CASE at(1) > t
    <3>1. at(1) \in Int
      BY <1>6, <2>1
    <3>2. at(1) - t \in -MaxGap .. MaxGap
      BY <1>4, <1>5, <2>2, <3>1
    <3> QED BY <2>1, <3>2
  <2>3. CASE at(1) <= t
    <3> DEFINE J == {i \in 1 .. n : i = n \/ at(i + 1) > t}
    <3>1. J \subseteq Nat /\ J # {}
      BY <2>1
    <3>2. PICK i \in J : \A m \in J : i <= m
      BY <3>1, Least
    <3>3. i \in 1 .. n /\ at(i) \in Int
      BY <1>6, <3>2
    <3>4. at(i) <= t
      <4>1. CASE i = 1
        BY <2>3, <4>1
      <4>2. CASE i # 1
        <5>1. i - 1 \in 1 .. n /\ i - 1 # n /\ ~(i <= i - 1) /\ (i - 1) + 1 = i
          BY <1>3, <3>3, <4>2
        <5>2. ~(at((i - 1) + 1) > t)
          BY <3>2, <5>1
        <5> QED BY <3>3, <5>1, <5>2
      <4> QED BY <4>1, <4>2
    <3>5. t - at(i) <= MaxGap
      <4>1. CASE i = n
        BY <1>4, <1>5, <3>3, <4>1
      <4>2. CASE i # n
        <5>1. at(i + 1) > t /\ i \in 1 .. n - 1 /\ i + 1 \in 1 .. n
          BY <1>3, <3>2, <3>3, <4>2
        <5>2. at(i + 1) \in Int /\ at(i + 1) - at(i) <= MaxGap
          BY <1>5, <1>6, <5>1
        <5> QED BY <1>4, <3>3, <5>1, <5>2
      <4> QED BY <4>1, <4>2
    <3>6. at(i) - t \in -MaxGap .. MaxGap
      <4> HIDE DEF J
      <4> QED BY <1>4, <3>3, <3>4, <3>5
    <3> QED BY <3>3, <3>6
  <2>4. at(1) \in Int
    BY <1>6, <2>1
  <2> QED BY <2>2, <2>3, <2>4
<1> QED BY <1>6, <1>7

-----------------------------------------------------------------------------
(* Resources: counters                                                      *)
Counting(readings) ==
  \A i \in DOMAIN readings : \A k \in DOMAIN readings[i].series : readings[i].series[k] \in Int

\* A series that is nowhere invalid is in all readings or in none, and never falls.
LEMMA Progress ==
  ASSUME NEW x, NEW n \in Nat, DOMAIN x = 1 .. n, Len(x) = n, Counting(x), NEW k, k \notin M!Invalid(x),
         NEW i \in 1 .. n, NEW j \in i .. n
  PROVE  /\ k \in DOMAIN x[i].series <=> k \in DOMAIN x[j].series
         /\ k \in DOMAIN x[i].series => x[i].series[k] <= x[j].series[k]
<1> DEFINE s(m) == x[m].series
           Good(d) == i + d <= n => /\ k \in DOMAIN s(i) <=> k \in DOMAIN s(i + d)
                                    /\ k \in DOMAIN s(i) => s(i)[k] <= s(i + d)[k]
           F == {d \in Nat : Good(d)}
<1>1. ASSUME NEW m \in 1 .. n - 1
      PROVE  /\ k \in DOMAIN s(m) <=> k \in DOMAIN s(m + 1)
             /\ k \in DOMAIN s(m) => ~(s(m + 1)[k] < s(m)[k])
  BY DEF M!Invalid, M!SymDiff
<1>2. \A m \in 1 .. n : k \in DOMAIN s(m) => s(m)[k] \in Int
  BY DEF Counting
<1> HIDE DEF s
<1>3. Good(0)
  <2>1. i + 0 = i
    OBVIOUS
  <2>2. k \in DOMAIN s(i) => s(i)[k] <= s(i)[k]
    BY <1>2
  <2> QED BY <2>1, <2>2
<1>4. ASSUME NEW d \in Nat, Good(d) PROVE Good(d + 1)
  <2> SUFFICES ASSUME i + (d + 1) <= n
               PROVE  /\ k \in DOMAIN s(i) <=> k \in DOMAIN s(i + (d + 1))
                      /\ k \in DOMAIN s(i) => s(i)[k] <= s(i + (d + 1))[k]
    OBVIOUS
  <2> DEFINE m == i + d
  <2>1. m \in 1 .. n - 1 /\ m \in 1 .. n /\ m + 1 \in 1 .. n /\ i + (d + 1) = m + 1
    OBVIOUS
  <2>2. k \in DOMAIN s(i) <=> k \in DOMAIN s(m)
    BY <1>4, <2>1
  <2>3. k \in DOMAIN s(i) => s(i)[k] <= s(m)[k]
    BY <1>4, <2>1
  <2> HIDE DEF m
  <2>4. k \in DOMAIN s(i) <=> k \in DOMAIN s(m + 1)
    BY <1>1, <2>1, <2>2
  <2>5. ASSUME k \in DOMAIN s(i) PROVE s(i)[k] <= s(m + 1)[k]
    <3>1. s(i)[k] \in Int /\ s(m)[k] \in Int /\ s(m + 1)[k] \in Int
      BY <1>2, <2>1, <2>2, <2>4, <2>5
    <3>2. s(i)[k] <= s(m)[k] /\ ~(s(m + 1)[k] < s(m)[k])
      BY <1>1, <2>1, <2>2, <2>3, <2>5
    <3> QED BY <3>1, <3>2
  <2> QED BY <2>1, <2>4, <2>5
<1>5. j - i \in Nat /\ i + (j - i) = j /\ j <= n
  OBVIOUS
<1>6. Good(j - i)
  <2> HIDE DEF Good
  <2>1. 0 \in F /\ \A d \in Nat : d \in F => d + 1 \in F
    BY <1>3, <1>4
  <2> HIDE DEF F
  <2>2. Nat \subseteq F
    BY <2>1, NatSetInduction
  <2> QED BY <1>5, <2>2 DEF F
<1> QED BY <1>5, <1>6 DEF s

\* The readings of a window are among those of the run, in their order.
Embedded(inside, all, V) ==
  /\ all \in Seq(V) /\ inside \in Seq(V) /\ Counting(all) /\ Counting(inside)
  /\ \E e \in [1 .. Len(inside) -> 1 .. Len(all)] :
       /\ \A i, j \in 1 .. Len(inside) : i < j => e[i] < e[j]
       /\ \A j \in 1 .. Len(inside) : inside[j] = all[e[j]]

LEMMA ReadingsEmbed ==
  ASSUME NEW samples, Sampled(samples), NEW start, NEW end
  PROVE  Embedded(M!Readings(M!InWindow(samples, start, end)), M!Readings(samples), M!ToSet(samples))
<1> DEFINE V == M!ToSet(samples)
           window == M!InWindow(samples, start, end)
           all == M!Readings(samples)
           inside == M!Readings(window)
           read == {i \in DOMAIN samples : samples[i].series # M!NoSeries}
           readInside == {i \in DOMAIN window : window[i].series # M!NoSeries}
<1>1. samples \in Seq(V)
  BY DEF Sampled
<1>2. all \in Seq(V) /\ \E f : Subsequence(f, samples, all, read)
  <2>1. read \subseteq 1 .. Len(samples)
    BY <1>1
  <2> HIDE DEF V, read
  <2> QED BY <1>1, <2>1, SelectedTakes DEF M!Readings, read
<1>3. window \in Seq(V) /\ \E g : Subsequence(g, samples, window, Sampling(samples, start, end))
  BY InsideTakes
<1> HIDE DEF window
<1>4. inside \in Seq(V) /\ \E h : Subsequence(h, window, inside, readInside)
  <2>1. readInside \subseteq 1 .. Len(window)
    BY <1>3
  <2> HIDE DEF V, readInside
  <2> QED BY <1>3, <2>1, SelectedTakes DEF M!Readings, readInside
<1>5. PICK f : Subsequence(f, samples, all, read)
  BY <1>2
<1>6. PICK g : Subsequence(g, samples, window, Sampling(samples, start, end))
  BY <1>3
<1>7. PICK h : Subsequence(h, window, inside, readInside)
  BY <1>4
<1>8. \A v \in V : \A k \in DOMAIN v.series : v.series[k] \in Int
  BY DEF Sampled, M!ToSet
<1> HIDE DEF V, all, inside
<1>9. Counting(all) /\ Counting(inside)
  <2>1. \A i \in DOMAIN all : all[i] \in V
    BY <1>2
  <2>2. \A i \in DOMAIN inside : inside[i] \in V
    BY <1>4
  <2> QED BY <1>8, <2>1, <2>2 DEF Counting
<1>10. ASSUME NEW j \in 1 .. Len(inside)
       PROVE  \E i \in 1 .. Len(all) : f[i] = g[h[j]] /\ inside[j] = all[i]
  <2>1. h[j] \in DOMAIN window /\ inside[j] = window[h[j]] /\ window[h[j]].series # M!NoSeries
    BY <1>7 DEF Subsequence, readInside
  <2>2. h[j] \in 1 .. Len(window)
    BY <1>3, <2>1
  <2>3. g[h[j]] \in DOMAIN samples /\ window[h[j]] = samples[g[h[j]]]
    BY <1>6, <2>2 DEF Subsequence, Sampling
  <2>4. g[h[j]] \in read
    BY <2>1, <2>3
  <2>5. PICK i \in 1 .. Len(all) : f[i] = g[h[j]]
    BY <1>5, <2>4 DEF Subsequence
  <2>6. all[i] = samples[f[i]]
    BY <1>5 DEF Subsequence
  <2> QED BY <2>1, <2>3, <2>5, <2>6
<1> DEFINE e == [j \in 1 .. Len(inside) |->
                   CHOOSE i \in 1 .. Len(all) : f[i] = g[h[j]] /\ inside[j] = all[i]]
<1>11. ASSUME NEW j \in 1 .. Len(inside)
       PROVE  e[j] \in 1 .. Len(all) /\ f[e[j]] = g[h[j]] /\ inside[j] = all[e[j]]
  BY <1>10
<1>12. e \in [1 .. Len(inside) -> 1 .. Len(all)]
  BY <1>11
<1> HIDE DEF e
<1>13. Len(all) \in Nat /\ Len(inside) \in Nat /\ Len(window) \in Nat
  BY <1>2, <1>3, <1>4
<1>14. ASSUME NEW i \in 1 .. Len(inside), NEW j \in 1 .. Len(inside), i < j PROVE e[i] < e[j]
  <2>1. h[i] \in 1 .. Len(window) /\ h[j] \in 1 .. Len(window) /\ h[i] < h[j]
    <3>1. readInside \subseteq 1 .. Len(window)
      BY <1>3
    <3> QED BY <1>7, <1>14, <3>1 DEF Subsequence
  <2>2. g[h[i]] < g[h[j]]
    BY <1>6, <2>1 DEF Subsequence
  <2>3. f[e[i]] < f[e[j]]
    BY <1>11, <2>2
  <2>4. e[i] \in 1 .. Len(all) /\ e[j] \in 1 .. Len(all)
    BY <1>11
  <2>5. f[e[i]] \in Int /\ f[e[j]] \in Int
    <3>1. read \subseteq Int
      BY <1>1
    <3> QED BY <1>5, <2>4, <3>1 DEF Subsequence
  <2>6. ~(e[j] < e[i])
    <3>1. e[j] < e[i] => f[e[j]] < f[e[i]]
      BY <1>5, <2>4 DEF Subsequence
    <3> QED BY <2>3, <2>5, <3>1
  <2>7. e[i] # e[j]
    BY <2>3, <2>5
  <2> QED BY <1>13, <2>4, <2>6, <2>7
<1> QED BY <1>2, <1>4, <1>9, <1>11, <1>12, <1>14 DEF Embedded, V, all, inside, window

\* Deltas are never negative, and a restarted counter gives none.
LEMMA DeltasProgress ==
  ASSUME NEW samples, Sampled(samples), NEW start, NEW end
  PROVE  M!DeltasAreProgress(samples, start, end)
<1> DEFINE all == M!Readings(samples)
           inside == M!Readings(M!InWindow(samples, start, end))
           window == M!CounterDeltas(samples, start, end)
           whole == M!WholeRunCounters(samples)
           n == Len(all)
           m == Len(inside)
           V == M!ToSet(samples)
           counted(i) == M!Restrict(all[i].series, CounterKeys \cap DOMAIN all[i].series)
           kept == [i \in DOMAIN all |-> [series |-> counted(i)]]
<1>1. /\ all \in Seq(V) /\ inside \in Seq(V) /\ Counting(all) /\ Counting(inside)
      /\ \E e \in [1 .. m -> 1 .. n] : /\ \A i, j \in 1 .. m : i < j => e[i] < e[j]
                                       /\ \A j \in 1 .. m : inside[j] = all[e[j]]
  <2>1. Embedded(inside, all, V)
    BY ReadingsEmbed
  <2> HIDE DEF inside, all, V
  <2> QED BY <2>1 DEF Embedded
<1>2. PICK e \in [1 .. m -> 1 .. n] : /\ \A i, j \in 1 .. m : i < j => e[i] < e[j]
                                      /\ \A j \in 1 .. m : inside[j] = all[e[j]]
  BY <1>1
<1>3. n \in Nat /\ m \in Nat /\ DOMAIN all = 1 .. n /\ DOMAIN inside = 1 .. m
  BY <1>1
<1>4. /\ m < 2 => DOMAIN window.deltas = {} /\ window.resets = {}
      /\ m >= 2 => /\ \A k \in DOMAIN window.deltas :
                        /\ k \in DOMAIN inside[1].series \cup DOMAIN inside[m].series
                        /\ k \notin M!Invalid(inside)
                        /\ window.deltas[k] = inside[m].series[k] - inside[1].series[k]
                   /\ window.resets \subseteq M!Invalid(inside)
  BY <1>3 DEF M!CounterDeltas
<1>5. \/ n = 0 /\ DOMAIN whole.deltas = {}
      \/ /\ n > 0 /\ DOMAIN kept = 1 .. n /\ Len(kept) = n
         /\ \A k \in DOMAIN whole.deltas :
              /\ k \in DOMAIN kept[1].series /\ k \in DOMAIN kept[n].series
              /\ k \notin M!Invalid(kept)
              /\ whole.deltas[k] = kept[n].series[k] - kept[1].series[k]
  <2> DEFINE S == {kept[i] : i \in 1 .. n}
  <2>1. DOMAIN kept = 1 .. n /\ kept \in [1 .. n -> S]
    BY <1>3
  <2> HIDE DEF kept, S
  <2>2. kept \in Seq(S)
    BY <1>3, <2>1
  <2>3. Len(kept) = n
    BY <1>3, <2>1, <2>2, LenProperties
  <2>4. CASE n = 0
    <3>1. kept = <<>>
      BY <2>2, <2>3, <2>4, EmptySeq
    <3>2. whole = [deltas |-> <<>>, resets |-> {}]
      BY <3>1 DEF M!WholeRunCounters, kept
    <3> QED BY <2>4, <3>2
  <2>5. CASE n # 0
    <3>1. kept # <<>> /\ n > 0
      BY <1>3, <2>3, <2>5
    <3>2. whole = [deltas |-> [k \in (DOMAIN kept[1].series \cap DOMAIN kept[Len(kept)].series)
                                        \ M!Invalid(kept) |->
                                  kept[Len(kept)].series[k] - kept[1].series[k]],
                   resets |-> M!Invalid(kept)]
      BY <3>1 DEF M!WholeRunCounters, kept
    <3> QED BY <2>1, <2>3, <3>1, <3>2
  <2> QED BY <2>4, <2>5
<1>6. ASSUME NEW i \in 1 .. n
      PROVE  /\ DOMAIN kept[i].series = CounterKeys \cap DOMAIN all[i].series
             /\ \A k \in DOMAIN kept[i].series : kept[i].series[k] = all[i].series[k]
  BY <1>3 DEF M!Restrict
<1>7. \A i \in 1 .. n : \A k \in DOMAIN all[i].series : all[i].series[k] \in Int
  BY <1>1, <1>3 DEF Counting
<1>8. M!PrefixHitRatio(window) # <<>> => window.resets \cap (QueryKeys \cup HitKeys) = {}
  <2> HIDE DEF window
  <2> QED BY DEF M!PrefixHitRatio
<1> HIDE DEF kept, window, whole, all, inside, n, m
<1>9. ASSUME NEW k \in DOMAIN window.deltas
      PROVE  /\ m >= 2 /\ window.deltas[k] = inside[m].series[k] - inside[1].series[k]
             /\ inside[1].series[k] <= inside[m].series[k]
             /\ \A j \in 1 .. m : k \in DOMAIN inside[j].series
  <2>1. /\ m >= 2 /\ k \in DOMAIN inside[1].series \cup DOMAIN inside[m].series
        /\ k \notin M!Invalid(inside)
        /\ window.deltas[k] = inside[m].series[k] - inside[1].series[k]
    BY <1>3, <1>4
  <2>2. 1 \in 1 .. m /\ m \in 1 .. m
    BY <1>3, <2>1
  <2>3. ASSUME NEW j \in 1 .. m
        PROVE  /\ k \in DOMAIN inside[1].series <=> k \in DOMAIN inside[j].series
               /\ k \in DOMAIN inside[1].series => inside[1].series[k] <= inside[j].series[k]
    BY <1>1, <1>3, <2>1, <2>2, Progress DEF m
  <2> QED BY <2>1, <2>2, <2>3
<1>10. ASSUME NEW k \in DOMAIN whole.deltas
       PROVE  /\ n > 0 /\ whole.deltas[k] = all[n].series[k] - all[1].series[k]
              /\ \A i \in 1 .. n : k \in DOMAIN all[i].series
              /\ \A i, j \in 1 .. n : i <= j => all[i].series[k] <= all[j].series[k]
  <2>1. /\ n > 0 /\ DOMAIN kept = 1 .. n /\ Len(kept) = n
        /\ k \in DOMAIN kept[1].series /\ k \notin M!Invalid(kept)
        /\ whole.deltas[k] = kept[n].series[k] - kept[1].series[k]
    BY <1>5
  <2>2. 1 \in 1 .. n /\ n \in 1 .. n
    BY <1>3, <2>1
  <2>3. Counting(kept)
    <3>1. \A i \in 1 .. n : \A l \in DOMAIN kept[i].series : kept[i].series[l] \in Int
      BY <1>6, <1>7
    <3> QED BY <2>1, <3>1 DEF Counting
  <2>4. ASSUME NEW i \in 1 .. n, NEW j \in i .. n
        PROVE  /\ k \in DOMAIN kept[i].series <=> k \in DOMAIN kept[j].series
               /\ k \in DOMAIN kept[i].series => kept[i].series[k] <= kept[j].series[k]
    BY <1>3, <2>1, <2>3, Progress
  <2>5. ASSUME NEW i \in 1 .. n
        PROVE  /\ k \in DOMAIN kept[i].series /\ k \in DOMAIN all[i].series
               /\ kept[i].series[k] = all[i].series[k]
    <3>1. i \in 1 .. n /\ 1 \in 1 .. n
      BY <2>2
    <3>2. k \in DOMAIN kept[i].series
      BY <1>3, <2>1, <2>4, <3>1
    <3> QED BY <1>6, <3>2
  <2>6. ASSUME NEW i \in 1 .. n, NEW j \in 1 .. n, i <= j
        PROVE  all[i].series[k] <= all[j].series[k]
    <3>1. j \in i .. n
      BY <1>3, <2>6
    <3> QED BY <2>4, <2>5, <3>1
  <2> QED BY <2>1, <2>2, <2>5, <2>6
<1>11. ASSUME NEW k \in DOMAIN window.deltas, k \in DOMAIN whole.deltas
       PROVE  window.deltas[k] <= whole.deltas[k]
  <2>1. /\ m >= 2 /\ window.deltas[k] = inside[m].series[k] - inside[1].series[k]
        /\ inside[1] = all[e[1]] /\ inside[m] = all[e[m]] /\ e[1] \in 1 .. n /\ e[m] \in 1 .. n
    BY <1>2, <1>3, <1>9
  <2>2. /\ n > 0 /\ whole.deltas[k] = all[n].series[k] - all[1].series[k]
        /\ \A i \in 1 .. n : k \in DOMAIN all[i].series
        /\ \A i, j \in 1 .. n : i <= j => all[i].series[k] <= all[j].series[k]
    BY <1>10, <1>11
  <2>3. 1 \in 1 .. n /\ n \in 1 .. n /\ 1 <= e[1] /\ e[m] <= n
    BY <1>3, <2>1, <2>2
  <2>4. all[1].series[k] <= all[e[1]].series[k] /\ all[e[m]].series[k] <= all[n].series[k]
    BY <2>1, <2>2, <2>3
  <2>5. /\ all[1].series[k] \in Int /\ all[e[1]].series[k] \in Int
        /\ all[e[m]].series[k] \in Int /\ all[n].series[k] \in Int
    BY <1>7, <2>1, <2>2, <2>3
  <2> QED BY <2>1, <2>2, <2>4, <2>5
<1>12. ASSUME NEW k \in DOMAIN window.deltas PROVE window.deltas[k] >= 0
  <2>1. /\ m >= 2 /\ window.deltas[k] = inside[m].series[k] - inside[1].series[k]
        /\ inside[1].series[k] <= inside[m].series[k]
        /\ k \in DOMAIN inside[1].series /\ k \in DOMAIN inside[m].series
    BY <1>3, <1>9
  <2>2. inside[1].series[k] \in Int /\ inside[m].series[k] \in Int
    <3>1. 1 \in 1 .. m /\ m \in 1 .. m
      BY <1>3, <2>1
    <3> QED BY <1>1, <1>3, <2>1, <3>1 DEF Counting
  <2> QED BY <2>1, <2>2
<1>13. ASSUME NEW k \in DOMAIN whole.deltas
       PROVE  whole.deltas[k] >= 0 /\ k \notin window.resets
  <2>1. /\ n > 0 /\ whole.deltas[k] = all[n].series[k] - all[1].series[k]
        /\ \A i \in 1 .. n : k \in DOMAIN all[i].series
        /\ \A i, j \in 1 .. n : i <= j => all[i].series[k] <= all[j].series[k]
    BY <1>10
  <2>2. whole.deltas[k] >= 0
    <3>1. 1 \in 1 .. n /\ n \in 1 .. n /\ 1 <= n
      BY <1>3, <2>1
    <3>2. all[1].series[k] \in Int /\ all[n].series[k] \in Int /\ all[1].series[k] <= all[n].series[k]
      BY <1>7, <2>1, <3>1
    <3> QED BY <2>1, <3>2
  <2>3. k \notin M!Invalid(inside)
    <3> SUFFICES ASSUME k \in M!Invalid(inside) PROVE FALSE
      OBVIOUS
    <3>1. PICK j \in 1 .. m - 1 :
            LET old == inside[j].series
                new == inside[j + 1].series
            IN \/ k \in DOMAIN old /\ k \notin DOMAIN new
               \/ k \notin DOMAIN old /\ k \in DOMAIN new
               \/ new[k] < old[k]
      BY DEF M!Invalid, M!SymDiff, m
    <3>2. j \in 1 .. m /\ j + 1 \in 1 .. m /\ j < j + 1
      BY <1>3
    <3>3. /\ inside[j] = all[e[j]] /\ inside[j + 1] = all[e[j + 1]]
          /\ e[j] \in 1 .. n /\ e[j + 1] \in 1 .. n /\ e[j] < e[j + 1]
      BY <1>2, <3>2
    <3>4. all[e[j]].series[k] <= all[e[j + 1]].series[k]
      BY <1>3, <2>1, <3>3
    <3>5. all[e[j]].series[k] \in Int /\ all[e[j + 1]].series[k] \in Int
      BY <1>7, <2>1, <3>3
    <3> QED BY <2>1, <3>1, <3>3, <3>4, <3>5
  <2>4. window.resets \subseteq M!Invalid(inside)
    BY <1>3, <1>4
  <2> QED BY <2>2, <2>3, <2>4
<1> QED
  <2>1. \A k \in DOMAIN window.deltas : \A j \in DOMAIN inside : k \in DOMAIN inside[j].series
    BY <1>3, <1>9
  <2>2. \A k \in DOMAIN whole.deltas : \A i \in DOMAIN all : k \in DOMAIN all[i].series
    BY <1>3, <1>10
  <2> QED BY <1>8, <1>11, <1>12, <1>13, <2>1, <2>2 DEF M!DeltasAreProgress, window, whole, all,
      inside

-----------------------------------------------------------------------------
(* Resources: energy                                                        *)

\* Sums that differ in one summand.
LEMMA SumChanged ==
  ASSUME NEW S, IsFiniteSet(S), NEW f, NEW g, \A x \in S : f[x] \in Int /\ g[x] \in Int, NEW b \in S,
         \A x \in S \ {b} : f[x] = g[x], NEW d, g[b] = f[b] + d, d \in Int
  PROVE  Sum(g, S) = Sum(f, S) + d
<1>1. IsFiniteSet(S \ {b})
  BY FS_RemoveElement
<1>2. Sum(f, S) = f[b] + Sum(f, S \ {b})
  <2>1. \A x \in S : f[x] \in Int
    OBVIOUS
  <2> QED BY <2>1, SumTakesOut
<1>3. Sum(g, S) = g[b] + Sum(g, S \ {b})
  <2>1. \A x \in S : g[x] \in Int
    OBVIOUS
  <2> QED BY <2>1, SumTakesOut
<1>4. PICK rest \in Int : rest = Sum(f, S \ {b})
  <2>1. \A x \in S \ {b} : f[x] \in Int
    OBVIOUS
  <2> QED BY <1>1, <2>1, SumType
<1>5. Sum(g, S \ {b}) = rest
  BY <1>1, <1>4, SumSame
<1>6. f[b] \in Int /\ g[b] \in Int /\ Sum(f, S) = f[b] + rest /\ Sum(g, S) = g[b] + rest
  BY <1>2, <1>3, <1>4, <1>5
<1> QED BY <1>6

\* Summands that are zero may be left out.
LEMMA SumWhere ==
  ASSUME NEW S, IsFiniteSet(S), NEW f, \A x \in S : f[x] \in Int, NEW C \in SUBSET S,
         \A x \in S \ C : f[x] = 0
  PROVE  Sum(f, S) = Sum(f, C)
<1> DEFINE F == {U \in SUBSET S : Sum(f, U) = Sum(f, U \cap C)}
<1>1. {} \in F
  OBVIOUS
<1>2. ASSUME NEW U \in SUBSET S, U # {}, \A x \in U : U \ {x} \in F PROVE U \in F
  <2>1. PICK x \in U : TRUE
    BY <1>2
  <2>2. IsFiniteSet(U) /\ IsFiniteSet(U \cap C) /\ \A y \in U : f[y] \in Int
    BY FS_Subset
  <2>3. Sum(f, U) = f[x] + Sum(f, (U \ {x}) \cap C)
    <3>1. Sum(f, U) = f[x] + Sum(f, U \ {x})
      BY <2>2, SumTakesOut
    <3>2. Sum(f, U \ {x}) = Sum(f, (U \ {x}) \cap C)
      BY <1>2
    <3> QED BY <3>1, <3>2
  <2>4. CASE x \in C
    <3>1. x \in U \cap C /\ (U \ {x}) \cap C = (U \cap C) \ {x} /\ \A y \in U \cap C : f[y] \in Int
      BY <2>2, <2>4
    <3>2. Sum(f, U \cap C) = f[x] + Sum(f, (U \cap C) \ {x})
      BY <2>2, <3>1, SumTakesOut
    <3> QED BY <2>3, <3>1, <3>2
  <2>5. CASE x \notin C
    <3>1. f[x] = 0 /\ (U \ {x}) \cap C = U \cap C
      BY <2>5
    <3>2. Sum(f, U \cap C) \in Int
      <4>1. \A y \in U \cap C : f[y] \in Int
        BY <2>2
      <4> QED BY <2>2, <4>1, SumType
    <3>3. Sum(f, U) = 0 + Sum(f, U \cap C)
      BY <2>3, <3>1, Zenon
    <3> QED BY <3>2, <3>3
  <2> QED BY <2>4, <2>5
<1>3. S \in F
  <2> HIDE DEF F
  <2> QED BY <1>1, <1>2, SubsetInduction
<1>4. S \cap C = C
  OBVIOUS
<1> QED BY <1>3, <1>4

\* Steps that do not fall never fall.
LEMMA Rising ==
  ASSUME NEW n \in Nat, NEW a, \A i \in 1 .. n : a[i] \in Int, \A i \in 1 .. n - 1 : a[i] <= a[i + 1],
         NEW i \in 1 .. n, NEW j \in i .. n
  PROVE  a[i] <= a[j]
<1> DEFINE Good(d) == i + d <= n => a[i] <= a[i + d]
           F == {d \in Nat : Good(d)}
<1>1. Good(0)
  <2>1. i + 0 = i /\ a[i] <= a[i]
    OBVIOUS
  <2> QED BY <2>1
<1>2. ASSUME NEW d \in Nat, Good(d) PROVE Good(d + 1)
  <2> SUFFICES ASSUME i + (d + 1) <= n PROVE a[i] <= a[i + (d + 1)]
    OBVIOUS
  <2>1. i + d \in 1 .. n - 1 /\ i + d \in 1 .. n /\ i + (d + 1) = (i + d) + 1 /\ (i + d) + 1 \in 1 .. n
    OBVIOUS
  <2>2. a[i] <= a[i + d] /\ a[i + d] <= a[(i + d) + 1]
    BY <1>2, <2>1
  <2>3. a[i] \in Int /\ a[i + d] \in Int /\ a[(i + d) + 1] \in Int
    BY <2>1
  <2> QED BY <2>1, <2>2, <2>3
<1>3. j - i \in Nat /\ i + (j - i) = j /\ j <= n
  OBVIOUS
<1>4. Good(j - i)
  <2> HIDE DEF Good
  <2>1. 0 \in F /\ \A d \in Nat : d \in F => d + 1 \in F
    BY <1>1, <1>2
  <2> HIDE DEF F
  <2>2. Nat \subseteq F
    BY <2>1, NatSetInduction
  <2> QED BY <1>3, <2>2 DEF F
<1> QED BY <1>3, <1>4

\* The line between two power samples: its area from l to r, and that of one second.
Area(u, v, l, r) ==
  (2 * u.power * (v.at - u.at) + (v.power - u.power) * (l + r - 2 * u.at))
    * (r - l) * (EnergyScale \div (2 * (v.at - u.at)))
Second(u, v, t) ==
  (2 * u.power * (v.at - u.at) + (v.power - u.power) * (2 * (t - u.at) + 1))
    * (EnergyScale \div (2 * (v.at - u.at)))
PowerSample == [at : Int, power : Int]

LEMMA Expands ==
  ASSUME NEW q \in Int, NEW d \in Int, NEW a \in Int, NEW l \in Int, NEW r \in Int, NEW c \in Int
  PROVE  (q + d * (l + (r + 1) - 2 * a)) * ((r + 1) - l) * c
           = (q + d * (l + r - 2 * a)) * (r - l) * c + (q + d * (2 * (r - a) + 1)) * c
OBVIOUS

LEMMA AreaGrows ==
  ASSUME NEW u \in PowerSample, NEW v \in PowerSample, u.at < v.at, NEW l \in Int, NEW r \in Int
  PROVE  /\ Area(u, v, l, r) \in Int /\ Second(u, v, r) \in Int /\ Area(u, v, l, l) = 0
         /\ Area(u, v, l, r + 1) = Area(u, v, l, r) + Second(u, v, r)
<1> DEFINE q == 2 * u.power * (v.at - u.at)
           d == v.power - u.power
           a == u.at
           c == EnergyScale \div (2 * (v.at - u.at))
<1>1. q \in Int /\ d \in Int /\ a \in Int
  BY DEF PowerSample
<1>2. c \in Int
  <2>1. 2 * (v.at - u.at) \in Nat \ {0} /\ EnergyScale \in Nat
    BY MetricConstants DEF PowerSample
  <2> QED BY <2>1
<1> HIDE DEF q, d, a, c
<1>3. /\ Area(u, v, l, r) = (q + d * (l + r - 2 * a)) * (r - l) * c
      /\ Area(u, v, l, l) = (q + d * (l + l - 2 * a)) * (l - l) * c
      /\ Area(u, v, l, r + 1) = (q + d * (l + (r + 1) - 2 * a)) * ((r + 1) - l) * c
      /\ Second(u, v, r) = (q + d * (2 * (r - a) + 1)) * c
  BY Zenon DEF Area, Second, q, d, a, c
<1>4. (q + d * (l + (r + 1) - 2 * a)) * ((r + 1) - l) * c
        = (q + d * (l + r - 2 * a)) * (r - l) * c + (q + d * (2 * (r - a) + 1)) * c
  BY <1>1, <1>2, Expands
<1>5. /\ (q + d * (l + r - 2 * a)) * (r - l) * c \in Int /\ (q + d * (2 * (r - a) + 1)) * c \in Int
      /\ (q + d * (l + l - 2 * a)) * (l - l) * c = 0
  BY <1>1, <1>2
<1> QED BY <1>3, <1>4, <1>5, Zenon

\* The greater and the smaller of two numbers.
LEMMA OfTwo ==
  ASSUME NEW x \in Int, NEW y \in Int
  PROVE  /\ M!Max({x, y}) = IF x >= y THEN x ELSE y
         /\ M!Min({x, y}) = IF x <= y THEN x ELSE y
<1>1. M!Max({x, y}) \in {x, y} /\ M!Max({x, y}) >= x /\ M!Max({x, y}) >= y
  <2>1. \E z \in {x, y} : \A w \in {x, y} : z >= w
    <3>1. CASE x >= y
      BY <3>1
    <3>2. CASE ~(x >= y)
      BY <3>2
    <3> QED BY <3>1, <3>2
  <2>2. M!Max({x, y}) \in {x, y} /\ \A w \in {x, y} : M!Max({x, y}) >= w
    BY <2>1, Zenon DEF M!Max
  <2> QED BY <2>2
<1>2. M!Min({x, y}) \in {x, y} /\ M!Min({x, y}) <= x /\ M!Min({x, y}) <= y
  <2>1. \E z \in {x, y} : \A w \in {x, y} : z <= w
    <3>1. CASE x <= y
      BY <3>1
    <3>2. CASE ~(x <= y)
      BY <3>2
    <3> QED BY <3>1, <3>2
  <2>2. M!Min({x, y}) \in {x, y} /\ \A w \in {x, y} : M!Min({x, y}) <= w
    BY <2>1, Zenon DEF M!Min
  <2> QED BY <2>2
<1> QED BY <1>1, <1>2

\* The power of the samples that show all GPUs, in the order of time.
LEMMA PowerLine ==
  ASSUME NEW samples, Sampled(samples)
  PROVE  LET power == M!PowerSamples(samples)
         IN /\ power \in Seq(PowerSample)
            /\ \A i \in 1 .. Len(power) - 1 : power[i].at <= power[i + 1].at
<1> DEFINE n == Len(samples)
           V == PowerSample
           total == [i \in DOMAIN samples |-> [at |-> samples[i].at, power |-> M!GpuPower(samples[i].gpus)]]
           shown == {i \in DOMAIN total : total[i].power # M!None}
           power == M!PowerSamples(samples)
           at == [i \in 1 .. n |-> samples[i].at]
<1>1. n \in Nat /\ DOMAIN samples = 1 .. n
  BY DEF Sampled
<1>2. ASSUME NEW i \in 1 .. n
      PROVE  samples[i].at \in Int /\ M!GpuPower(samples[i].gpus) \in Int
  <2> DEFINE gpus == samples[i].gpus
  <2>1. gpus \in Seq(Int) /\ samples[i].at \in Int
    BY <1>1 DEF Sampled
  <2> HIDE DEF gpus
  <2>2. /\ Len(gpus) \in Nat /\ DOMAIN gpus = 1 .. Len(gpus)
        /\ \A j \in 1 .. Len(gpus) : gpus[j] \in Int
    BY <2>1
  <2>3. IsFiniteSet(1 .. Len(gpus))
    BY <2>2, FS_Interval
  <2>4. M!Total(DOMAIN gpus, gpus) \in Int
    <3>1. M!Total(1 .. Len(gpus), gpus) = Sum(gpus, 1 .. Len(gpus))
      BY <2>3, TotalSum
    <3>2. Sum(gpus, 1 .. Len(gpus)) \in Int
      BY <2>2, <2>3, SumType
    <3> QED BY <2>2, <3>1, <3>2
  <2>5. M!GpuPower(gpus) \in Int
    BY <2>4 DEF M!GpuPower, M!None
  <2> QED BY <2>1, <2>5 DEF gpus
<1>3. total \in [1 .. n -> V] /\ \A i \in 1 .. n : total[i].at = samples[i].at
  BY <1>1, <1>2 DEF PowerSample
<1>4. power = M!Selected(total, shown)
  BY DEF M!PowerSamples
<1> HIDE DEF total, V
<1>5. total \in Seq(V) /\ Len(total) = n /\ shown \subseteq 1 .. n
  <2>1. total \in Seq(V)
    BY <1>1, <1>3
  <2>2. Len(total) = n
    BY <1>1, <1>3, <2>1, LenProperties
  <2>3. shown \subseteq 1 .. n
    BY <1>3
  <2> QED BY <2>1, <2>2, <2>3
<1> HIDE DEF shown, power
<1>6. power \in Seq(V) /\ \E f : Subsequence(f, total, power, shown)
  BY <1>4, <1>5, SelectedTakes
<1>7. PICK f : Subsequence(f, total, power, shown)
  BY <1>6
<1>8. ASSUME NEW i \in 1 .. Len(power) - 1 PROVE power[i].at <= power[i + 1].at
  <2>1. i \in 1 .. Len(power) /\ i + 1 \in 1 .. Len(power) /\ i < i + 1
    BY <1>6
  <2>2. /\ f[i] \in 1 .. n /\ f[i + 1] \in 1 .. n /\ f[i] < f[i + 1]
        /\ power[i] = total[f[i]] /\ power[i + 1] = total[f[i + 1]]
    BY <1>5, <1>7, <2>1 DEF Subsequence
  <2>3. f[i + 1] \in f[i] .. n
    BY <1>1, <2>2
  <2>4. /\ \A j \in 1 .. n : at[j] = samples[j].at /\ at[j] \in Int
        /\ \A j \in 1 .. n - 1 : at[j] <= at[j + 1]
    BY <1>1, <1>2 DEF Sampled
  <2> HIDE DEF at
  <2>5. at[f[i]] <= at[f[i + 1]]
    BY <1>1, <2>2, <2>3, <2>4, Rising
  <2> QED BY <1>3, <2>2, <2>4, <2>5
<1> QED BY <1>6, <1>8 DEF V, power

\* The last sample at or before t.
Before(power, t) == M!Max({i \in DOMAIN power : power[i].at <= t})
Line(power) ==
  /\ power \in Seq(PowerSample) /\ Len(power) > 0
  /\ \A i \in 1 .. Len(power) - 1 : power[i].at <= power[i + 1].at

LEMMA BeforeIs ==
  ASSUME NEW power, Line(power), NEW t \in Int, power[1].at <= t, t < power[Len(power)].at
  PROVE  /\ Before(power, t) \in 1 .. Len(power) - 1
         /\ power[Before(power, t)].at <= t /\ t < power[Before(power, t) + 1].at
         /\ \A i \in 1 .. Len(power) - 1 :
              i # Before(power, t) => power[i + 1].at <= t \/ t < power[i].at
<1> DEFINE n == Len(power)
           at == [i \in 1 .. n |-> power[i].at]
           S == {i \in 1 .. n : at[i] <= t}
           b == Before(power, t)
<1>1. n \in Nat /\ n > 0 /\ DOMAIN power = 1 .. n
  BY DEF Line
<1>2. /\ \A i \in 1 .. n : at[i] = power[i].at /\ at[i] \in Int
      /\ \A i \in 1 .. n - 1 : at[i] <= at[i + 1]
  <2>1. \A i \in 1 .. n : power[i] \in PowerSample
    BY <1>1 DEF Line
  <2>2. \A i \in 1 .. n : at[i] = power[i].at /\ at[i] \in Int
    BY <2>1 DEF PowerSample
  <2>3. ASSUME NEW i \in 1 .. n - 1 PROVE at[i] <= at[i + 1]
    <3>1. i \in 1 .. n /\ i + 1 \in 1 .. n /\ power[i].at <= power[i + 1].at
      BY <1>1 DEF Line
    <3> HIDE DEF at
    <3> QED BY <2>2, <3>1
  <2> QED BY <2>2, <2>3
<1>3. at[1] <= t /\ t < at[n]
  BY <1>1, <1>2
<1>4. b = Greatest(S)
  <2>1. S = {i \in DOMAIN power : power[i].at <= t}
    BY <1>1, <1>2
  <2> HIDE DEF S
  <2> QED BY <2>1 DEF Before, M!Max, Greatest
<1> HIDE DEF n, at, b
<1>5. S \in SUBSET (1 .. n) /\ 1 \in S
  BY <1>1, <1>3
<1>6. b \in S /\ \A y \in S : b >= y
  <2> HIDE DEF S
  <2>1. S # {}
    BY <1>5
  <2> QED BY <1>1, <1>4, <1>5, <2>1, GreatestIn
<1>7. b \in 1 .. n /\ at[b] <= t /\ \A i \in 1 .. n : at[i] <= t => b >= i
  BY <1>6
<1>8. b # n /\ b + 1 \in 1 .. n /\ b \in 1 .. n - 1
  <2>1. b # n
    BY <1>1, <1>2, <1>3, <1>7
  <2> QED BY <1>1, <1>7, <2>1
<1>9. t < at[b + 1]
  <2>1. ~(at[b + 1] <= t)
    BY <1>7, <1>8
  <2> QED BY <1>2, <1>8, <2>1
<1>10. ASSUME NEW i \in 1 .. n - 1, i # b PROVE at[i + 1] <= t \/ t < at[i]
  <2>1. CASE i < b
    <3>1. i + 1 \in 1 .. n /\ b \in i + 1 .. n
      BY <1>1, <1>7, <2>1
    <3>2. at[i + 1] <= at[b]
      BY <1>1, <1>2, <3>1, Rising
    <3>3. at[i + 1] \in Int /\ at[b] \in Int
      BY <1>2, <1>7, <3>1
    <3> QED BY <1>7, <3>2, <3>3
  <2>2. CASE i > b
    <3>1. i \in 1 .. n /\ ~(b >= i)
      BY <1>1, <1>7, <2>2
    <3>2. at[i] \in Int /\ ~(at[i] <= t)
      BY <1>2, <1>7, <3>1
    <3> QED BY <3>2
  <2> QED BY <1>7, <1>10, <2>1, <2>2
<1>11. ASSUME NEW i \in 1 .. n - 1 PROVE at[i] = power[i].at /\ at[i + 1] = power[i + 1].at
  <2>1. i \in 1 .. n /\ i + 1 \in 1 .. n
    BY <1>1
  <2> QED BY <1>2, <2>1
<1> QED BY <1>7, <1>8, <1>9, <1>10, <1>11 DEF b, n

\* The energy of each interval that lies between start and e.
From(power, start, i) == M!Max({power[i].at, start})
Until(power, e, i) == M!Min({power[i + 1].at, e})
Shares(power, start, e) ==
  [i \in 1 .. Len(power) - 1 |->
     IF Until(power, e, i) > From(power, start, i)
     THEN Area(power[i], power[i + 1], From(power, start, i), Until(power, e, i)) ELSE 0]

LEMMA Bounds ==
  ASSUME NEW power, Line(power), NEW start \in Int, NEW e \in Int, NEW i \in 1 .. Len(power) - 1
  PROVE  /\ power[i] \in PowerSample /\ power[i + 1] \in PowerSample
         /\ power[i].at \in Int /\ power[i + 1].at \in Int
         /\ From(power, start, i) = IF power[i].at >= start THEN power[i].at ELSE start
         /\ Until(power, e, i) = IF power[i + 1].at <= e THEN power[i + 1].at ELSE e
<1>1. power[i] \in PowerSample /\ power[i + 1] \in PowerSample
  BY DEF Line
<1>2. power[i].at \in Int /\ power[i + 1].at \in Int
  BY <1>1 DEF PowerSample
<1> QED BY <1>1, <1>2, OfTwo DEF From, Until

LEMMA SharesGrow ==
  ASSUME NEW power, Line(power), NEW start \in Int, NEW e \in Int, start <= e,
         power[1].at <= start, e < power[Len(power)].at
  PROVE  LET b == Before(power, e)
             second == Second(power[b], power[b + 1], e)
         IN /\ second \in Int /\ Shares(power, start, e + 1)[b] = Shares(power, start, e)[b] + second
            /\ \A i \in (1 .. Len(power) - 1) \ {b} :
                 Shares(power, start, e + 1)[i] = Shares(power, start, e)[i]
<1> DEFINE n == Len(power)
           b == Before(power, e)
           l(i) == From(power, start, i)
           r(i) == Until(power, e, i)
           s(i) == Until(power, e + 1, i)
<1>1. n \in Nat /\ power[1].at \in Int /\ e + 1 \in Int
  <2>1. power[1] \in PowerSample /\ n \in Nat
    BY DEF Line
  <2> QED BY <2>1 DEF PowerSample
<1>2. /\ b \in 1 .. n - 1 /\ power[b].at <= e /\ e < power[b + 1].at
      /\ \A i \in 1 .. n - 1 : i # b => power[i + 1].at <= e \/ e < power[i].at
  <2>1. power[1].at <= e
    BY <1>1
  <2> QED BY <2>1, BeforeIs
<1>3. ASSUME NEW i \in 1 .. n - 1
      PROVE  /\ power[i] \in PowerSample /\ power[i + 1] \in PowerSample
             /\ power[i].at \in Int /\ power[i + 1].at \in Int
             /\ l(i) = IF power[i].at >= start THEN power[i].at ELSE start
             /\ r(i) = IF power[i + 1].at <= e THEN power[i + 1].at ELSE e
             /\ s(i) = IF power[i + 1].at <= e + 1 THEN power[i + 1].at ELSE e + 1
  <2>1. Until(power, e + 1, i) = IF power[i + 1].at <= e + 1 THEN power[i + 1].at ELSE e + 1
    BY <1>1, Bounds
  <2>2. /\ power[i] \in PowerSample /\ power[i + 1] \in PowerSample
        /\ power[i].at \in Int /\ power[i + 1].at \in Int
        /\ From(power, start, i) = IF power[i].at >= start THEN power[i].at ELSE start
        /\ Until(power, e, i) = IF power[i + 1].at <= e THEN power[i + 1].at ELSE e
    BY Bounds
  <2> QED BY <2>1, <2>2, Zenon
<1>4. ASSUME NEW i \in 1 .. n - 1
      PROVE  /\ Shares(power, start, e)[i]
                  = IF r(i) > l(i) THEN Area(power[i], power[i + 1], l(i), r(i)) ELSE 0
             /\ Shares(power, start, e + 1)[i]
                  = IF s(i) > l(i) THEN Area(power[i], power[i + 1], l(i), s(i)) ELSE 0
  BY DEF Shares
<1> HIDE DEF n, b, l, r, s
<1>5. /\ Second(power[b], power[b + 1], e) \in Int
      /\ Shares(power, start, e + 1)[b] = Shares(power, start, e)[b] + Second(power[b], power[b + 1], e)
  <2>1. power[b].at < power[b + 1].at
    BY <1>2, <1>3
  <2>2. r(b) = e /\ s(b) = e + 1 /\ l(b) \in Int /\ l(b) <= e
    BY <1>2, <1>3
  <2>3. /\ Area(power[b], power[b + 1], l(b), e) \in Int /\ Second(power[b], power[b + 1], e) \in Int
        /\ Area(power[b], power[b + 1], l(b), l(b)) = 0
        /\ Area(power[b], power[b + 1], l(b), e + 1)
             = Area(power[b], power[b + 1], l(b), e) + Second(power[b], power[b + 1], e)
    BY <1>2, <1>3, <2>1, <2>2, AreaGrows
  <2>4. Shares(power, start, e + 1)[b] = Area(power[b], power[b + 1], l(b), e + 1)
    <3>1. e + 1 > l(b)
      BY <2>2
    <3> QED BY <1>2, <1>4, <2>2, <3>1
  <2>5. Shares(power, start, e)[b] = Area(power[b], power[b + 1], l(b), e)
    <3>1. CASE e > l(b)
      BY <1>2, <1>4, <2>2, <3>1
    <3>2. CASE ~(e > l(b))
      <4>1. e = l(b)
        BY <2>2, <3>2
      <4>2. Shares(power, start, e)[b] = 0
        BY <1>2, <1>4, <2>2, <3>2
      <4> QED BY <2>3, <4>1, <4>2
    <3> QED BY <3>1, <3>2
  <2> QED BY <2>3, <2>4, <2>5
<1>6. ASSUME NEW i \in (1 .. n - 1) \ {b}
      PROVE  Shares(power, start, e + 1)[i] = Shares(power, start, e)[i]
  <2>1. CASE power[i + 1].at <= e
    <3>1. r(i) = s(i)
      BY <1>3, <2>1
    <3> QED BY <1>4, <3>1
  <2>2. CASE e < power[i].at
    <3>1. ~(r(i) > l(i)) /\ ~(s(i) > l(i))
      BY <1>3, <2>2
    <3> QED BY <1>4, <3>1
  <2> QED BY <1>2, <2>1, <2>2
<1> QED BY <1>5, <1>6 DEF b, n

LEMMA SharesInt ==
  ASSUME NEW power, Line(power), NEW start \in Int, NEW e \in Int, NEW i \in 1 .. Len(power) - 1
  PROVE  Shares(power, start, e)[i] \in Int
<1> DEFINE l == From(power, start, i)
           r == Until(power, e, i)
<1>1. /\ power[i] \in PowerSample /\ power[i + 1] \in PowerSample
      /\ power[i].at \in Int /\ power[i + 1].at \in Int
      /\ l = IF power[i].at >= start THEN power[i].at ELSE start
      /\ r = IF power[i + 1].at <= e THEN power[i + 1].at ELSE e
  BY Bounds
<1>2. Shares(power, start, e)[i] = IF r > l THEN Area(power[i], power[i + 1], l, r) ELSE 0
  BY DEF Shares
<1> HIDE DEF l, r
<1>3. l \in Int /\ r \in Int /\ (r > l => power[i].at < power[i + 1].at)
  BY <1>1
<1>4. r > l => Area(power[i], power[i + 1], l, r) \in Int
  BY <1>1, <1>3, AreaGrows
<1> QED BY <1>2, <1>4

\* Second by second: the intervals' shares add up to the area under the line.
Seconds(power, start, end) ==
  [t \in start .. end - 1 |-> Second(power[Before(power, t)], power[Before(power, t) + 1], t)]

LEMMA SharesAdd ==
  ASSUME NEW power, Line(power), NEW start \in Int, NEW end \in Int, start <= end,
         power[1].at <= start, end <= power[Len(power)].at
  PROVE  Sum(Shares(power, start, end), 1 .. Len(power) - 1)
           = Sum(Seconds(power, start, end), start .. end - 1)
<1> DEFINE I == 1 .. Len(power) - 1
           seconds == Seconds(power, start, end)
           last == power[Len(power)].at
           Good(d) == start + d <= end => Sum(Shares(power, start, start + d), I)
                                            = Sum(seconds, start .. (start + d) - 1)
           F == {d \in Nat : Good(d)}
<1>1. IsFiniteSet(I) /\ last \in Int
  <2>1. Len(power) \in Nat /\ power[Len(power)] \in PowerSample
    BY DEF Line
  <2> QED BY <2>1, FS_Interval DEF PowerSample
<1>2. \A e \in Int : \A i \in I : Shares(power, start, e)[i] \in Int
  BY SharesInt
<1>3. ASSUME NEW t \in start .. end - 1
      PROVE  /\ seconds[t] = Second(power[Before(power, t)], power[Before(power, t) + 1], t)
             /\ seconds[t] \in Int /\ Before(power, t) \in I
             /\ Shares(power, start, t + 1)[Before(power, t)]
                  = Shares(power, start, t)[Before(power, t)] + seconds[t]
             /\ \A i \in I \ {Before(power, t)} :
                  Shares(power, start, t + 1)[i] = Shares(power, start, t)[i]
  <2>1. t \in Int /\ start <= t /\ power[1].at <= t /\ t < last
    <3>1. power[1] \in PowerSample
      BY DEF Line
    <3>2. power[1].at \in Int
      BY <3>1 DEF PowerSample
    <3> QED BY <1>1, <3>2
  <2>2. seconds[t] = Second(power[Before(power, t)], power[Before(power, t) + 1], t)
    BY DEF Seconds
  <2> HIDE DEF seconds, last
  <2>3. Before(power, t) \in I
    BY <2>1, BeforeIs DEF last
  <2>4. /\ Second(power[Before(power, t)], power[Before(power, t) + 1], t) \in Int
        /\ Shares(power, start, t + 1)[Before(power, t)]
             = Shares(power, start, t)[Before(power, t)]
                 + Second(power[Before(power, t)], power[Before(power, t) + 1], t)
        /\ \A i \in I \ {Before(power, t)} :
             Shares(power, start, t + 1)[i] = Shares(power, start, t)[i]
    BY <2>1, SharesGrow DEF last
  <2> QED BY <2>2, <2>3, <2>4
<1> HIDE DEF seconds, last
<1>4. Good(0)
  <2>1. ASSUME NEW i \in I PROVE Shares(power, start, start)[i] = 0
    <3>1. /\ power[i].at \in Int /\ power[i + 1].at \in Int
          /\ From(power, start, i) = IF power[i].at >= start THEN power[i].at ELSE start
          /\ Until(power, start, i) = IF power[i + 1].at <= start THEN power[i + 1].at ELSE start
      <4>1. i \in 1 .. Len(power) - 1
        OBVIOUS
      <4> HIDE DEF I
      <4>2. ASSUME NEW e \in Int
            PROVE  /\ power[i].at \in Int /\ power[i + 1].at \in Int
                   /\ From(power, start, i) = IF power[i].at >= start THEN power[i].at ELSE start
                   /\ Until(power, e, i) = IF power[i + 1].at <= e THEN power[i + 1].at ELSE e
        BY <4>1, Bounds
      <4> QED BY <4>2
    <3>2. ~(Until(power, start, i) > From(power, start, i))
      BY <3>1
    <3> QED BY <3>2 DEF Shares
  <2>2. start + 0 = start /\ start .. (start + 0) - 1 = {}
    OBVIOUS
  <2> HIDE DEF I
  <2>3. Sum(Shares(power, start, start), I) = 0
    BY <1>1, <2>1, SumZero
  <2>4. Sum(seconds, {}) = 0
    BY SumEmpty
  <2> QED BY <2>2, <2>3, <2>4, Zenon
<1>5. ASSUME NEW d \in Nat, Good(d) PROVE Good(d + 1)
  <2> SUFFICES ASSUME start + (d + 1) <= end
               PROVE  Sum(Shares(power, start, start + (d + 1)), I)
                        = Sum(seconds, start .. (start + (d + 1)) - 1)
    OBVIOUS
  <2> DEFINE t == start + d
             U == start .. t
  <2>1. /\ t \in start .. end - 1 /\ t \in Int /\ t + 1 \in Int /\ start + (d + 1) = t + 1
        /\ (t + 1) - 1 = t /\ U \ {t} = start .. t - 1 /\ t \in U
        /\ U \subseteq start .. end - 1
    OBVIOUS
  <2>2. Sum(Shares(power, start, t), I) = Sum(seconds, U \ {t})
    <3>1. start + d <= end
      OBVIOUS
    <3>2. Sum(Shares(power, start, start + d), I) = Sum(seconds, start .. (start + d) - 1)
      BY <1>5, <3>1
    <3> QED BY <2>1, <3>2
  <2>3. IsFiniteSet(U)
    BY <2>1, FS_Interval
  <2> HIDE DEF t, U, I
  <2>4. Sum(Shares(power, start, t + 1), I) = Sum(Shares(power, start, t), I) + seconds[t]
    <3> DEFINE f == Shares(power, start, t)
               g == Shares(power, start, t + 1)
               b == Before(power, t)
    <3>1. \A i \in I : f[i] \in Int /\ g[i] \in Int
      BY <1>2, <2>1
    <3>2. b \in I /\ g[b] = f[b] + seconds[t]
      BY <1>3, <2>1
    <3>3. seconds[t] \in Int /\ \A i \in I \ {b} : f[i] = g[i]
      BY <1>3, <2>1
    <3>4. IsFiniteSet(I)
      BY <1>1
    <3> HIDE DEF f, g, b
    <3>5. Sum(g, I) = Sum(f, I) + seconds[t]
      BY <3>1, <3>2, <3>3, <3>4, SumChanged
    <3> QED BY <3>5 DEF f, g
  <2>5. Sum(seconds, U) = seconds[t] + Sum(seconds, U \ {t})
    <3>1. \A x \in U : seconds[x] \in Int
      BY <1>3, <2>1
    <3>2. t \in U
      BY <2>1
    <3> QED BY <2>3, <3>1, <3>2, SumTakesOut
  <2>6. Sum(Shares(power, start, t), I) \in Int /\ seconds[t] \in Int
    <3>1. \A i \in I : Shares(power, start, t)[i] \in Int
      BY <1>2, <2>1
    <3> QED BY <1>1, <1>3, <2>1, <3>1, SumType
  <2>7. Sum(Shares(power, start, t + 1), I) = Sum(seconds, U)
    BY <2>2, <2>4, <2>5, <2>6
  <2>8. start + (d + 1) = t + 1 /\ start .. (start + (d + 1)) - 1 = U
    BY <2>1 DEF U
  <2> QED BY <2>7, <2>8
<1>6. end - start \in Nat /\ start + (end - start) = end /\ end <= end
  OBVIOUS
<1>7. Good(end - start)
  <2> HIDE DEF Good
  <2>1. 0 \in F /\ \A d \in Nat : d \in F => d + 1 \in F
    BY <1>4, <1>5
  <2> HIDE DEF F
  <2>2. Nat \subseteq F
    BY <2>1, NatSetInduction
  <2> QED BY <1>6, <2>2 DEF F
<1> QED BY <1>6, <1>7 DEF seconds

LEMMA EnergyIntegral ==
  ASSUME NEW samples, Sampled(samples), NEW start \in Int, NEW end \in Int
  PROVE  M!EnergyIsIntegral(samples, start, end)
<1> DEFINE power == M!PowerSamples(samples)
           n == Len(power)
           gap(i) == power[i + 1].at - power[i].at
           crossing == {i \in 1 .. n - 1 : Until(power, end, i) > From(power, start, i)}
           trapezoid == [i \in crossing |-> Area(power[i], power[i + 1],
                                                  From(power, start, i), Until(power, end, i))]
           seconds == Seconds(power, start, end)
           lined == n > 0 /\ power[1].at <= start /\ power[n].at >= end
           crossed == \A i \in crossing : gap(i) <= MaxGap
           passed == \A t \in start .. end - 1 : gap(Before(power, t)) <= MaxGap
<1>1. power \in Seq(PowerSample) /\ \A i \in 1 .. n - 1 : power[i].at <= power[i + 1].at
  BY PowerLine
<1>2. n \in Nat /\ (power # <<>> <=> n > 0)
  BY <1>1, EmptySeq
<1>3. M!Energy(samples, start, end) = IF lined /\ crossed THEN M!Total(crossing, trapezoid) ELSE M!None
  BY DEF M!Energy, Area, From, Until
<1>4. M!EnergyIsIntegral(samples, start, end) <=>
        M!Energy(samples, start, end)
          = IF lined /\ passed THEN M!Total(start .. end - 1, seconds) ELSE M!None
  BY <1>2 DEF M!EnergyIsIntegral, Seconds, Second, Before
<1> HIDE DEF power
<1>5. ASSUME lined
      PROVE  (crossed <=> passed)
             /\ M!Total(crossing, trapezoid) = M!Total(start .. end - 1, seconds)
  <2>1. Line(power) /\ power[1].at <= start /\ end <= power[n].at
    <3>1. power[n] \in PowerSample
      BY <1>1, <1>2, <1>5
    <3>2. power[n].at \in Int
      BY <3>1 DEF PowerSample
    <3> QED BY <1>1, <1>5, <3>2 DEF Line
  <2>2. ASSUME NEW i \in 1 .. n - 1
        PROVE  /\ power[i].at \in Int /\ power[i + 1].at \in Int
               /\ From(power, start, i) = IF power[i].at >= start THEN power[i].at ELSE start
               /\ Until(power, end, i) = IF power[i + 1].at <= end THEN power[i + 1].at ELSE end
    <3>1. Line(power) /\ i \in 1 .. Len(power) - 1
      BY <2>1
    <3> HIDE DEF n
    <3> QED BY <3>1, Bounds
  <2>3. ASSUME NEW t \in start .. end - 1
        PROVE  /\ Before(power, t) \in 1 .. n - 1
               /\ power[Before(power, t)].at <= t /\ t < power[Before(power, t) + 1].at
               /\ \A i \in 1 .. n - 1 : i # Before(power, t) => power[i + 1].at <= t \/ t < power[i].at
    <3>1. power[1] \in PowerSample /\ power[n] \in PowerSample
      BY <1>1, <1>2, <1>5
    <3>2. power[1].at \in Int /\ power[n].at \in Int
      BY <3>1 DEF PowerSample
    <3>3. t \in Int /\ power[1].at <= t /\ t < power[n].at
      BY <2>1, <3>2
    <3> QED BY <2>1, <3>3, BeforeIs
  <2> HIDE DEF n, trapezoid, seconds
  <2>4. ASSUME NEW t \in start .. end - 1 PROVE Before(power, t) \in crossing
    <3>1. Until(power, end, Before(power, t)) > From(power, start, Before(power, t))
      BY <2>2, <2>3
    <3> QED BY <2>3, <3>1
  <2>5. ASSUME NEW i \in crossing PROVE \E t \in start .. end - 1 : i = Before(power, t)
    <3> DEFINE t == From(power, start, i)
    <3>1. i \in 1 .. n - 1 /\ Until(power, end, i) > t
      OBVIOUS
    <3>2. t \in start .. end - 1 /\ power[i].at <= t /\ t < power[i + 1].at
      BY <2>2, <3>1
    <3>3. power[i].at \in Int /\ power[i + 1].at \in Int
      BY <2>2, <3>1
    <3> HIDE DEF t, crossing
    <3>4. i = Before(power, t)
      BY <2>3, <3>1, <3>2, <3>3
    <3> QED BY <3>2, <3>4
  <2>6. crossed <=> passed
    <3> HIDE DEF crossing, gap
    <3> QED BY <2>4, <2>5
  <2>7. crossing \in SUBSET (1 .. n - 1) /\ IsFiniteSet(1 .. n - 1) /\ IsFiniteSet(start .. end - 1)
    <3>1. crossing \in SUBSET (1 .. n - 1)
      OBVIOUS
    <3>2. n - 1 \in Int /\ end - 1 \in Int
      BY <1>2
    <3> QED BY <3>1, <3>2, FS_Interval
  <2>8. IsFiniteSet(crossing)
    BY <2>7, FS_Subset
  <2>9. Sum(trapezoid, crossing) = Sum(seconds, start .. end - 1)
    <3>1. CASE start <= end
      <4>1. Sum(Shares(power, start, end), 1 .. n - 1) = Sum(seconds, start .. end - 1)
        BY <2>1, <3>1, SharesAdd DEF n, seconds
      <4>2. Sum(Shares(power, start, end), 1 .. n - 1) = Sum(Shares(power, start, end), crossing)
        <5>1. \A i \in 1 .. n - 1 : Shares(power, start, end)[i] \in Int
          BY <2>1, SharesInt DEF n
        <5>2. \A i \in (1 .. n - 1) \ crossing : Shares(power, start, end)[i] = 0
          BY DEF Shares, n
        <5> HIDE DEF crossing
        <5> QED BY <2>7, <5>1, <5>2, SumWhere
      <4>3. Sum(Shares(power, start, end), crossing) = Sum(trapezoid, crossing)
        <5>1. \A i \in crossing : Shares(power, start, end)[i] = trapezoid[i]
          BY DEF Shares, n, trapezoid
        <5> HIDE DEF crossing
        <5> QED BY <2>8, <5>1, SumSame
      <4> QED BY <4>1, <4>2, <4>3
    <3>2. CASE start > end
      <4>1. crossing = {}
        <5> SUFFICES ASSUME NEW i \in crossing PROVE FALSE
          OBVIOUS
        <5>1. PICK t \in start .. end - 1 : i = Before(power, t)
          BY <2>5
        <5> QED BY <3>2, <5>1
      <4>2. start .. end - 1 = {}
        BY <3>2
      <4> HIDE DEF crossing
      <4> QED BY <4>1, <4>2, SumEmpty
    <3> QED BY <3>1, <3>2
  <2>10. M!Total(crossing, trapezoid) = Sum(trapezoid, crossing)
    <3> HIDE DEF crossing
    <3> QED BY <2>8, TotalSum
  <2>11. M!Total(start .. end - 1, seconds) = Sum(seconds, start .. end - 1)
    BY <2>7, TotalSum
  <2> HIDE DEF crossing, crossed, passed
  <2> QED BY <2>6, <2>9, <2>10, <2>11
<1> HIDE DEF lined, crossed, passed, crossing, trapezoid, seconds
<1> QED BY <1>3, <1>4, <1>5

-----------------------------------------------------------------------------
(* Window: busy time                                                        *)
Row == Int \X Int \X Int
None == [total |-> 0, end |-> -1]
UnionStep(s, row) ==
  [total |-> s.total + L!Max({0, row[2] - L!Max({row[1], s.end})}), end |-> L!Max({s.end, row[2]})]
Uniting(g, rows) ==
  g = [s \in SUBSET DOMAIN rows |->
         IF s = {} THEN None ELSE UnionStep(g[s \ {Greatest(s)}], rows[Greatest(s)])]
United(rows) == CHOOSE g : Uniting(g, rows)
UnionSteps(f, rows, n) == f[0] = None /\ \A k \in 1 .. n : f[k] = UnionStep(f[k - 1], rows[k])
UnionOf(rows) == L!FoldLeft(UnionStep, None, rows).total

LEMMA LargerOf ==
  ASSUME NEW a \in Int, NEW b \in Int
  PROVE  L!Max({a, b}) = (IF a >= b THEN a ELSE b) /\ L!Min({a, b}) = IF a <= b THEN a ELSE b
<1>1. L!Max({a, b}) = M!Max({a, b}) /\ L!Min({a, b}) = M!Min({a, b})
  BY Zenon DEF L!Max, M!Max, L!Min, M!Min
<1> QED BY <1>1, OfTwo

LEMMA UnionStepwise ==
  ASSUME NEW n \in Nat, NEW rows \in [1 .. n -> Row]
  PROVE  \E f : UnionSteps(f, rows, n) /\ f[n].total = UnionOf(rows)
<1> DEFINE V == [total : Int, end : Int]
           step == [x \in (1 .. n) \X V |-> UnionStep(x[2], rows[x[1]])]
           g == United(rows)
<1>1. step \in [(1 .. n) \X V -> V]
  <2>1. ASSUME NEW x \in (1 .. n) \X V PROVE UnionStep(x[2], rows[x[1]]) \in V
    <3> DEFINE s == x[2]
               row == rows[x[1]]
    <3>1. s.total \in Int /\ s.end \in Int /\ row[1] \in Int /\ row[2] \in Int
      BY DEF Row
    <3> HIDE DEF s, row
    <3>2. L!Max({row[1], s.end}) \in Int /\ L!Max({s.end, row[2]}) \in Int
      BY <3>1, LargerOf
    <3>3. L!Max({0, row[2] - L!Max({row[1], s.end})}) \in Int
      <4> DEFINE a == row[2] - L!Max({row[1], s.end})
      <4>1. a \in Int
        BY <3>1, <3>2
      <4> HIDE DEF a
      <4>2. L!Max({0, a}) \in Int
        BY <4>1, LargerOf
      <4> QED BY <4>2 DEF a
    <3>4. UnionStep(s, row) \in V
      BY <3>1, <3>2, <3>3 DEF UnionStep
    <3> QED BY <3>4 DEF s, row
  <2> QED BY <2>1
<1>2. None \in V
  BY DEF None
<1>3. PICK h \in [SUBSET (1 .. n) -> V] : Folding(None, step, h, n)
  <2> HIDE DEF step, V
  <2> QED BY <1>1, <1>2, FoldsExist, Zenon
<1>4. ASSUME NEW s \in SUBSET (1 .. n), s # {}
      PROVE  step[<<Greatest(s), h[s \ {Greatest(s)}]>>] = UnionStep(h[s \ {Greatest(s)}], rows[Greatest(s)])
  <2>1. Greatest(s) \in s
    BY <1>4, GreatestIn
  <2>2. <<Greatest(s), h[s \ {Greatest(s)}]>> \in (1 .. n) \X V
    BY <2>1
  <2> QED BY <2>2
<1>5. Uniting(h, rows)
  BY <1>3, <1>4 DEF Uniting, Folding, Folded
<1>6. Uniting(g, rows)
  BY <1>5, Zenon DEF United
<1>7. UnionOf(rows) = g[1 .. n].total
  <2>1. DOMAIN rows = 1 .. n
    OBVIOUS
  <2>2. UnionOf(rows) = g[DOMAIN rows].total
    BY Zenon DEF UnionOf, L!FoldLeft, L!MapThenFoldSet, L!Max, Greatest, United, Uniting
  <2> QED BY <2>1, <2>2, Zenon
<1> HIDE DEF g
<1> DEFINE f == [k \in 0 .. n |-> g[1 .. k]]
<1>8. f[0] = None
  <2>1. {} \in SUBSET DOMAIN rows /\ 1 .. 0 = {} /\ 0 \in 0 .. n
    OBVIOUS
  <2> QED BY <1>6, <2>1 DEF Uniting
<1>9. ASSUME NEW k \in 1 .. n PROVE f[k] = UnionStep(f[k - 1], rows[k])
  <2>1. /\ (1 .. k) \in SUBSET DOMAIN rows /\ 1 .. k # {}
        /\ Greatest(1 .. k) = k /\ (1 .. k) \ {k} = 1 .. k - 1
    BY Segments
  <2>2. k \in 0 .. n /\ k - 1 \in 0 .. n
    OBVIOUS
  <2> QED BY <1>6, <2>1, <2>2 DEF Uniting
<1>10. f[n] = g[1 .. n]
  OBVIOUS
<1> HIDE DEF f
<1>11. UnionSteps(f, rows, n)
  BY <1>8, <1>9 DEF UnionSteps
<1> QED BY <1>7, <1>10, <1>11

\* The instance of BackendLog sorts as this module does.
LEMMA RankedAlike == \A S, R : L!Ranked(S, R) = Ranked(S, R)
BY Zenon DEF L!Ranked, Ranked, L!Cardinality, Cardinality

LEMMA UnionIs == ASSUME NEW I PROVE L!UnionSeconds(I) = UnionOf(Ranked(L!Rows(I), Earlier(L!Rows(I))))
<1>1. \A S : L!Earlier(S) = Earlier(S)
  BY Zenon DEF L!Earlier, Earlier, L!Precedes, Precedes
<1> QED BY <1>1, RankedAlike, Zenon DEF L!UnionSeconds, UnionOf, None, UnionStep

Reached(rows, k) == {t \in Int : \E i \in 1 .. k : rows[i][1] <= t /\ t < rows[i][2]}
CountedTo(f, rows, k) ==
  /\ IsFiniteSet(Reached(rows, k)) /\ f[k].total = Cardinality(Reached(rows, k)) /\ f[k].end \in Int
  /\ \A i \in 1 .. k : rows[i][2] <= f[k].end
  /\ f[k].end >= -1 /\ (f[k].end # -1 => \E i \in 1 .. k : rows[i][2] = f[k].end)

\* The next row adds the seconds from where the others end.
LEMMA UnionGrows ==
  ASSUME NEW n \in Nat, NEW rows \in [1 .. n -> Row], \A i \in 1 .. n : rows[i][1] >= 0,
         \A i, j \in 1 .. n : i < j => rows[i][1] <= rows[j][1],
         NEW f, NEW k \in 0 .. n - 1, f[k + 1] = UnionStep(f[k], rows[k + 1]), CountedTo(f, rows, k)
  PROVE  CountedTo(f, rows, k + 1)
<1> DEFINE l == rows[k + 1][1]
           r == rows[k + 1][2]
           e == f[k].end
           a == IF l >= e THEN l ELSE e
           new == a .. r - 1
           old == Reached(rows, k)
<1>1. k + 1 \in 1 .. n /\ l \in Int /\ r \in Int /\ l >= 0 /\ e \in Int /\ e >= -1 /\ a \in Int
  <2>1. k + 1 \in 1 .. n
    OBVIOUS
  <2>2. rows[k + 1] \in Row /\ rows[k + 1][1] >= 0
    BY <2>1
  <2>3. l \in Int /\ r \in Int
    BY <2>2 DEF Row
  <2>4. e \in Int /\ e >= -1
    BY DEF CountedTo
  <2> QED BY <2>1, <2>2, <2>3, <2>4
<1>2. \A i \in 1 .. k : rows[i][1] <= l /\ rows[i][1] \in Int /\ rows[i][2] \in Int /\ rows[i][2] <= e
  <2>1. ASSUME NEW i \in 1 .. k PROVE rows[i][1] <= l /\ rows[i] \in Row /\ rows[i][2] <= e
    <3>1. i \in 1 .. n /\ i < k + 1
      BY <1>1
    <3>2. rows[i] \in Row /\ rows[i][1] <= rows[k + 1][1]
      BY <1>1, <3>1
    <3>3. rows[i][2] <= f[k].end
      BY DEF CountedTo
    <3> QED BY <3>2, <3>3
  <2>2. \A i \in 1 .. k : rows[i][1] \in Int /\ rows[i][2] \in Int
    BY <2>1 DEF Row
  <2> QED BY <2>1, <2>2, Zenon
<1>3. L!Max({l, e}) = a /\ L!Max({e, r}) = (IF e >= r THEN e ELSE r)
  <2> HIDE DEF l, r, e
  <2> QED BY <1>1, LargerOf
<1>4. L!Max({0, r - a}) = IF 0 >= r - a THEN 0 ELSE r - a
  <2> HIDE DEF l, r, e, a
  <2> QED BY <1>1, LargerOf
<1>5. /\ f[k + 1].total = f[k].total + (IF 0 >= r - a THEN 0 ELSE r - a)
      /\ f[k + 1].end = IF e >= r THEN e ELSE r
  <2> HIDE DEF a
  <2>1. f[k + 1].total = f[k].total + L!Max({0, r - L!Max({l, e})}) /\ f[k + 1].end = L!Max({e, r})
    BY DEF UnionStep
  <2> QED BY <1>3, <1>4, <2>1
<1> HIDE DEF l, r, e
<1>6. Reached(rows, k + 1) = {t \in Int : l <= t /\ t < r} \cup old
  <2>1. \A i : i \in 1 .. k + 1 <=> i \in 1 .. k \/ i = k + 1
    BY <1>1
  <2> QED BY <2>1 DEF Reached, l, r
<1>7. ASSUME NEW t \in Int, l <= t, t < e PROVE t \in old
  <2>1. PICK i \in 1 .. k : rows[i][2] = e
    <3>1. e # -1
      BY <1>1, <1>7
    <3> QED BY <3>1 DEF CountedTo, e
  <2>2. rows[i][1] <= t /\ t < rows[i][2]
    BY <1>1, <1>2, <1>7, <2>1
  <2> QED BY <2>2 DEF Reached
<1>8. \A t \in old : t < e
  BY <1>1, <1>2 DEF Reached
<1>9. Reached(rows, k + 1) = new \cup old /\ new \cap old = {}
  <2> HIDE DEF old
  <2>1. \A t \in Int : (l <= t /\ t < r) => t \in new \/ t \in old
    BY <1>1, <1>7
  <2>2. \A t \in new : t \in Int /\ l <= t /\ t < r /\ e <= t
    BY <1>1
  <2>3. new \cap old = {}
    BY <1>1, <1>8, <2>2
  <2> HIDE DEF new
  <2> QED BY <1>6, <2>1, <2>2, <2>3
<1>10. IsFiniteSet(new) /\ Cardinality(new) = IF 0 >= r - a THEN 0 ELSE r - a
  <2> HIDE DEF a
  <2>1. r - 1 \in Int
    BY <1>1
  <2>2. IsFiniteSet(a .. r - 1) /\ Cardinality(a .. r - 1) = IF a > r - 1 THEN 0 ELSE (r - 1) - a + 1
    BY <1>1, <2>1, FS_Interval
  <2> QED BY <1>1, <2>2
<1>11. IsFiniteSet(old) /\ f[k].total = Cardinality(old)
  BY DEF CountedTo
<1> HIDE DEF new, old, a
<1>12. /\ IsFiniteSet(new \cup old)
       /\ Cardinality(new \cup old) = Cardinality(new) + Cardinality(old)
  <2>1. Cardinality({}) = 0 /\ Cardinality(new) \in Nat /\ Cardinality(old) \in Nat
    BY <1>10, <1>11, FS_EmptySet, FS_CardinalityType
  <2>2. /\ IsFiniteSet(new \cup old)
        /\ Cardinality(new \cup old) = Cardinality(new) + Cardinality(old) - Cardinality(new \cap old)
    BY <1>10, <1>11, FS_Union
  <2>3. Cardinality(new \cap old) = 0
    BY <1>9, <2>1, Zenon
  <2> QED BY <2>1, <2>2, <2>3
<1>13. /\ IsFiniteSet(Reached(rows, k + 1)) /\ f[k + 1].total = Cardinality(Reached(rows, k + 1))
  <2>1. Cardinality(old) \in Nat /\ Cardinality(new) \in Nat
    BY <1>10, <1>11, FS_CardinalityType
  <2>2. Reached(rows, k + 1) = new \cup old
    BY <1>9
  <2>3. f[k + 1].total = Cardinality(old) + Cardinality(new)
    BY <1>5, <1>10, <1>11
  <2>4. IsFiniteSet(Reached(rows, k + 1)) /\ Cardinality(Reached(rows, k + 1)) = Cardinality(new) + Cardinality(old)
    BY <1>12, <2>2, Zenon
  <2> QED BY <2>1, <2>3, <2>4
<1>14. /\ f[k + 1].end \in Int /\ f[k + 1].end >= -1
       /\ \A i \in 1 .. k + 1 : rows[i][2] <= f[k + 1].end
  <2>1. f[k + 1].end \in Int /\ f[k + 1].end >= e /\ f[k + 1].end >= r
    BY <1>1, <1>5
  <2>2. \A i \in 1 .. k + 1 : i \in 1 .. k \/ i = k + 1
    BY <1>1
  <2>3. \A i \in 1 .. k : rows[i][2] <= f[k + 1].end
    BY <1>1, <1>2, <2>1
  <2>4. rows[k + 1][2] <= f[k + 1].end
    BY <2>1 DEF r
  <2> QED BY <1>1, <2>1, <2>2, <2>3, <2>4
<1>15. f[k + 1].end # -1 => \E i \in 1 .. k + 1 : rows[i][2] = f[k + 1].end
  <2>1. CASE e >= r
    <3>1. f[k + 1].end = e
      BY <1>5, <2>1
    <3>2. e # -1 => \E i \in 1 .. k : rows[i][2] = e
      BY DEF CountedTo, e
    <3>3. \A i \in 1 .. k : i \in 1 .. k + 1
      BY <1>1
    <3> QED BY <3>1, <3>2, <3>3
  <2>2. CASE ~(e >= r)
    <3>1. k + 1 \in 1 .. k + 1 /\ rows[k + 1][2] = f[k + 1].end
      BY <1>1, <1>5, <2>2 DEF r
    <3> QED BY <3>1
  <2> QED BY <2>1, <2>2
<1> QED BY <1>13, <1>14, <1>15 DEF CountedTo

LEMMA UnionLength ==
  ASSUME NEW n \in Nat, NEW rows \in [1 .. n -> Row], \A i \in 1 .. n : rows[i][1] >= 0,
         \A i, j \in 1 .. n : i < j => rows[i][1] <= rows[j][1]
  PROVE  IsFiniteSet(Reached(rows, n)) /\ UnionOf(rows) = Cardinality(Reached(rows, n))
<1>1. PICK f : UnionSteps(f, rows, n) /\ f[n].total = UnionOf(rows)
  BY UnionStepwise
<1> DEFINE F == {k \in Nat : k <= n => CountedTo(f, rows, k)}
<1>2. 0 \in F
  <2>1. f[0].total = 0 /\ f[0].end = -1
    BY <1>1 DEF UnionSteps, None
  <2>2. Reached(rows, 0) = {}
    BY DEF Reached
  <2>3. IsFiniteSet(Reached(rows, 0)) /\ Cardinality(Reached(rows, 0)) = 0
    BY <2>2, FS_EmptySet
  <2>4. CountedTo(f, rows, 0)
    BY <2>1, <2>3 DEF CountedTo
  <2> QED BY <2>4
<1>3. ASSUME NEW k \in Nat, k \in F PROVE k + 1 \in F
  <2> SUFFICES ASSUME k + 1 <= n PROVE CountedTo(f, rows, k + 1)
    OBVIOUS
  <2>1. CountedTo(f, rows, k) /\ k \in 0 .. n - 1
    BY <1>3
  <2>2. f[k + 1] = UnionStep(f[k], rows[k + 1])
    <3>1. k + 1 \in 1 .. n /\ (k + 1) - 1 = k
      BY <2>1
    <3> QED BY <1>1, <3>1 DEF UnionSteps
  <2> QED BY <2>1, <2>2, UnionGrows
<1>4. CountedTo(f, rows, n)
  <2> HIDE DEF F
  <2>1. n \in F
    BY <1>2, <1>3, NatSetInduction
  <2>2. n <= n
    OBVIOUS
  <2> QED BY <2>1, <2>2 DEF F
<1> QED BY <1>1, <1>4 DEF CountedTo

\* Intervals with their ends, listed under numbers.
Intervals(I) ==
  /\ IsFiniteSet(DOMAIN I) /\ DOMAIN I \subseteq Int
  /\ \A k \in DOMAIN I : I[k].left \in Nat /\ I[k].right \in Int
Covered(I) == {t \in Int : \E k \in DOMAIN I : I[k].left <= t /\ t < I[k].right}

\* Busy time is the number of seconds that some interval covers.
LEMMA UnionCounts ==
  ASSUME NEW I, Intervals(I) PROVE IsFiniteSet(Covered(I)) /\ L!UnionSeconds(I) = Cardinality(Covered(I))
<1> DEFINE S == L!Rows(I)
           o == Ranked(S, Earlier(S))
           n == Cardinality(S)
<1>1. S \in SUBSET Row /\ \A x \in S : x[1] >= 0
  BY DEF L!Rows, Row, Intervals
<1>2. IsFiniteSet(S)
  <2> DEFINE f == [k \in DOMAIN I |-> <<I[k].left, I[k].right, k>>]
  <2>1. S = {f[k] : k \in DOMAIN I}
    <3>1. \A k \in DOMAIN I : f[k] = <<I[k].left, I[k].right, k>>
      OBVIOUS
    <3> HIDE DEF f
    <3> QED BY <3>1 DEF L!Rows
  <2>2. IsFiniteSet({f[k] : k \in DOMAIN I})
    <3> HIDE DEF f
    <3> QED BY ImageFinite DEF Intervals
  <2> QED BY <2>1, <2>2, Zenon
<1>3. L!UnionSeconds(I) = UnionOf(o)
  BY UnionIs
<1>4. InOrderOf(o, S, Earlier(S))
  <2> HIDE DEF S
  <2>1. Total(S, Earlier(S))
    BY <1>1, EarlierTotal DEF Row
  <2> QED BY <1>2, <2>1, RankedInOrder
<1>5. n \in Nat
  BY <1>2, FS_CardinalityType
<1>6. ASSUME NEW t PROVE (\E k \in DOMAIN I : I[k].left <= t /\ t < I[k].right) <=> \E x \in S : x[1] <= t /\ t < x[2]
  <2>1. ASSUME NEW k \in DOMAIN I PROVE \E x \in S : x[1] = I[k].left /\ x[2] = I[k].right
    <3>1. <<I[k].left, I[k].right, k>> \in S
      BY DEF L!Rows
    <3> QED BY <3>1
  <2>2. ASSUME NEW x \in S PROVE \E k \in DOMAIN I : x[1] = I[k].left /\ x[2] = I[k].right
    BY DEF L!Rows
  <2> HIDE DEF S
  <2> QED BY <2>1, <2>2
<1> HIDE DEF S, n, o
<1>7. o \in [1 .. n -> Row] /\ \A i \in 1 .. n : o[i][1] >= 0
  <2>1. o \in [1 .. n -> S]
    BY <1>4 DEF InOrderOf, n
  <2> QED BY <1>1, <2>1
<1>8. \A i, j \in 1 .. n : i < j => o[i][1] <= o[j][1]
  <2> SUFFICES ASSUME NEW i \in 1 .. n, NEW j \in 1 .. n, i < j PROVE o[i][1] <= o[j][1]
    OBVIOUS
  <2>1. <<o[i], o[j]>> \in Earlier(S)
    BY <1>4 DEF InOrderOf, n
  <2>2. Precedes(o[i], o[j])
    BY <2>1 DEF Earlier
  <2>3. o[i][1] \in Int /\ o[j][1] \in Int
    BY <1>7 DEF Row
  <2> QED BY <2>2, <2>3 DEF Precedes
<1>9. Reached(o, n) = Covered(I)
  <2>1. ASSUME NEW t PROVE (\E x \in S : x[1] <= t /\ t < x[2]) <=> \E i \in 1 .. n : o[i][1] <= t /\ t < o[i][2]
    BY <1>4, Zenon DEF InOrderOf, n
  <2>2. \A t : (\E k \in DOMAIN I : I[k].left <= t /\ t < I[k].right) <=> \E i \in 1 .. n : o[i][1] <= t /\ t < o[i][2]
    BY <1>6, <2>1
  <2> QED BY <2>2 DEF Reached, Covered
<1> QED BY <1>3, <1>5, <1>7, <1>8, <1>9, UnionLength

\* The instance of BackendLog counts as this module does.
LEMMA CountsAlike == \A S : L!Cardinality(S) = Cardinality(S)
BY Zenon DEF L!Cardinality, Cardinality

Span == [left : Nat, right : Nat]

LEMMA SpansAre ==
  ASSUME NEW I \in Seq(Span)
  PROVE  /\ Intervals(I) /\ DOMAIN I = 1 .. Len(I) /\ Len(I) \in Nat
         /\ \A k \in DOMAIN I : I[k] \in Span /\ I[k].left \in Nat /\ I[k].right \in Nat
<1>1. DOMAIN I = 1 .. Len(I) /\ Len(I) \in Nat /\ \A k \in DOMAIN I : I[k] \in Span
  OBVIOUS
<1>2. IsFiniteSet(DOMAIN I) /\ DOMAIN I \subseteq Int
  BY <1>1, FS_Interval
<1>3. \A k \in DOMAIN I : I[k].left \in Nat /\ I[k].right \in Nat
  BY <1>1 DEF Span
<1> QED BY <1>1, <1>2, <1>3 DEF Intervals

LEMMA BusyIsCovered ==
  ASSUME NEW I, Intervals(I), NEW end \in Int, \A k \in DOMAIN I : I[k].right <= end
  PROVE  L!Busy(I, 0, end) = Covered(I)
<1>1. ASSUME NEW t PROVE L!Covering(I, t) > 0 <=> \E k \in DOMAIN I : I[k].left <= t /\ t < I[k].right
  <2> DEFINE K == {k \in DOMAIN I : I[k].left <= t /\ t < I[k].right}
  <2>1. IsFiniteSet(K)
    BY FS_Subset DEF Intervals
  <2>2. L!Covering(I, t) = Cardinality(K)
    BY CountsAlike DEF L!Covering
  <2>3. K # {} <=> \E k \in DOMAIN I : I[k].left <= t /\ t < I[k].right
    OBVIOUS
  <2> HIDE DEF K
  <2>4. Cardinality(K) \in Nat /\ (Cardinality(K) = 0 <=> K = {})
    BY <2>1, FS_CardinalityType, FS_EmptySet
  <2> QED BY <2>2, <2>3, <2>4
<1>2. ASSUME NEW t \in Int, NEW k \in DOMAIN I, I[k].left <= t, t < I[k].right PROVE t \in 0 .. end - 1
  BY <1>2 DEF Intervals
<1>3. L!Busy(I, 0, end) = {t \in 0 .. end - 1 : L!Covering(I, t) > 0}
  BY DEF L!Busy, L!Seconds
<1> QED BY <1>1, <1>2, <1>3 DEF Covered

LEMMA UnionsExact ==
  ASSUME NEW llm \in Seq(Span), NEW tool \in Seq(Span), NEW end \in Int,
         \A k \in DOMAIN llm : llm[k].right <= end, \A k \in DOMAIN tool : tool[k].right <= end
  PROVE  L!UnionExact(llm, tool, end)
<1> DEFINE A == Covered(llm)
           B == Covered(tool)
           both == llm \o tool
           m == Cardinality(A \cap B)
<1>1. Intervals(llm) /\ Intervals(tool) /\ both \in Seq(Span) /\ Intervals(both)
  <2>1. both \in Seq(Span)
    BY ConcatProperties
  <2> HIDE DEF both
  <2> QED BY <2>1, SpansAre
<1>2. Covered(both) = A \cup B
  <2>1. ASSUME NEW t, NEW k \in DOMAIN both, both[k].left <= t, t < both[k].right
        PROVE  \/ \E i \in DOMAIN llm : llm[i].left <= t /\ t < llm[i].right
               \/ \E i \in DOMAIN tool : tool[i].left <= t /\ t < tool[i].right
    <3>1. CASE k <= Len(llm)
      <4>1. k \in DOMAIN llm /\ both[k] = llm[k]
        BY <3>1
      <4> QED BY <2>1, <4>1
    <3>2. CASE ~(k <= Len(llm))
      <4>1. k - Len(llm) \in DOMAIN tool /\ both[k] = tool[k - Len(llm)]
        BY <3>2
      <4> QED BY <2>1, <4>1
    <3> QED BY <3>1, <3>2
  <2>2. ASSUME NEW i \in DOMAIN llm PROVE i \in DOMAIN both /\ both[i] = llm[i]
    OBVIOUS
  <2>3. ASSUME NEW i \in DOMAIN tool PROVE Len(llm) + i \in DOMAIN both /\ both[Len(llm) + i] = tool[i]
    OBVIOUS
  <2> HIDE DEF both
  <2> QED BY <2>1, <2>2, <2>3 DEF Covered
<1>3. /\ IsFiniteSet(A) /\ IsFiniteSet(B) /\ L!UnionSeconds(llm) = Cardinality(A)
      /\ L!UnionSeconds(tool) = Cardinality(B) /\ L!UnionSeconds(both) = Cardinality(A \cup B)
  <2> HIDE DEF both
  <2> QED BY <1>1, <1>2, UnionCounts
<1>4. A = L!Busy(llm, 0, end) /\ B = L!Busy(tool, 0, end)
  BY <1>1, BusyIsCovered
<1> HIDE DEF A, B
<1>5. /\ Cardinality(A) + Cardinality(B) - Cardinality(A \cup B) = m
      /\ Cardinality(A \ B) = Cardinality(A) - m /\ Cardinality(B \ A) = Cardinality(B) - m
      /\ m \in Nat
  <2>1. Cardinality(A) \in Nat /\ Cardinality(B) \in Nat
    BY <1>3, FS_CardinalityType
  <2>2. m \in Nat
    BY <1>3, FS_Intersection, FS_CardinalityType
  <2>3. Cardinality(A \cup B) = Cardinality(A) + Cardinality(B) - m
    BY <1>3, FS_Union
  <2>4. Cardinality(A \ B) = Cardinality(A) - m
    BY <1>3, FS_Difference
  <2>5. Cardinality(B \ A) = Cardinality(B) - Cardinality(B \cap A) /\ B \cap A = A \cap B
    BY <1>3, FS_Difference
  <2>6. Cardinality(B \ A) = Cardinality(B) - m
    BY <2>5, Zenon
  <2> HIDE DEF m
  <2> QED BY <2>1, <2>2, <2>3, <2>4, <2>6
<1> DEFINE overlap == L!Max({0, L!UnionSeconds(llm) + L!UnionSeconds(tool) - L!UnionSeconds(llm \o tool)})
<1>6. overlap = m
  <2>1. L!UnionSeconds(llm) + L!UnionSeconds(tool) - L!UnionSeconds(llm \o tool) = m
    <3> HIDE DEF m
    <3> QED BY <1>3, <1>5
  <2>2. overlap = L!Max({0, m})
    BY <2>1, Zenon
  <2>3. 0 \in Int /\ m \in Int /\ m >= 0
    BY <1>5
  <2> HIDE DEF overlap, m
  <2>4. L!Max({0, m}) = IF 0 >= m THEN 0 ELSE m
    BY <2>3, LargerOf
  <2> QED BY <2>2, <2>3, <2>4
<1>7. L!ExecutionBreakdown(llm, tool)
        = [llm_only |-> L!UnionSeconds(llm) - overlap, tool_only |-> L!UnionSeconds(tool) - overlap,
           llm_tool_overlap |-> overlap]
  BY Zenon DEF L!ExecutionBreakdown
<1>8. L!ExecutionBreakdown(llm, tool)
        = [llm_only |-> Cardinality(A \ B), tool_only |-> Cardinality(B \ A), llm_tool_overlap |-> m]
  <2> HIDE DEF overlap, m
  <2> QED BY <1>3, <1>5, <1>6, <1>7, Zenon
<1>9. L!UnionExact(llm, tool, end) <=>
        L!ExecutionBreakdown(llm, tool)
          = [llm_only |-> Cardinality(L!Busy(llm, 0, end) \ L!Busy(tool, 0, end)),
             tool_only |-> Cardinality(L!Busy(tool, 0, end) \ L!Busy(llm, 0, end)),
             llm_tool_overlap |-> Cardinality(L!Busy(llm, 0, end) \cap L!Busy(tool, 0, end))]
  BY CountsAlike, Zenon DEF L!UnionExact
<1> QED BY <1>4, <1>8, <1>9, Zenon

-----------------------------------------------------------------------------
(* Window: percentiles                                                      *)
Mixed(a, b, r) == a * 100 + (b - a) * r
Interpolated(values, p, low, high, r) ==
  /\ low \in 0 .. Len(values) - 1 /\ high = (IF low = Len(values) - 1 THEN low ELSE low + 1) /\ r \in 0 .. 99
  /\ (Len(values) - 1) * p = 100 * low + r
  /\ L!Percentile(values, p) = Mixed(values[low + 1], values[high + 1], r)

LEMMA PercentileIs ==
  ASSUME NEW values \in Seq(Int), Len(values) > 0, NEW p \in 0 .. 100
  PROVE  \E low, high, r : Interpolated(values, p, low, high, r)
<1> DEFINE n == Len(values)
           offset == (n - 1) * p
           low == offset \div 100
           r == offset % 100
           high == L!Min({low + 1, n - 1})
<1>1. n \in Nat /\ n > 0 /\ p \in Nat /\ p <= 100
  OBVIOUS
<1>2. offset \in Nat /\ offset <= (n - 1) * 100
  <2> HIDE DEF n
  <2>1. \A m \in Nat : m * p \in Nat /\ m * p <= m * 100
    BY <1>1
  <2>2. n - 1 \in Nat
    BY <1>1
  <2> QED BY <2>1, <2>2
<1>3. low \in Nat /\ r \in 0 .. 99 /\ offset = 100 * low + r /\ low <= n - 1
  <2> HIDE DEF n, offset
  <2> QED BY <1>1, <1>2
<1>4. L!Percentile(values, p) = Mixed(values[low + 1], values[high + 1], r)
  BY Zenon DEF L!Percentile, Mixed
<1> HIDE DEF n, offset, low, r
<1>5. high = IF low + 1 <= n - 1 THEN low + 1 ELSE n - 1
  <2> DEFINE a == low + 1
             b == n - 1
  <2>1. a \in Int /\ b \in Int
    BY <1>1, <1>3
  <2> HIDE DEF a, b
  <2>2. L!Min({a, b}) = IF a <= b THEN a ELSE b
    BY <2>1, LargerOf
  <2> QED BY <2>2 DEF a, b
<1> HIDE DEF high
<1>6. low \in 0 .. n - 1 /\ high = IF low = n - 1 THEN low ELSE low + 1
  BY <1>1, <1>3, <1>5
<1>7. (n - 1) * p = 100 * low + r
  BY <1>3 DEF offset
<1>8. Interpolated(values, p, low, high, r)
  BY <1>3, <1>4, <1>6, <1>7 DEF Interpolated, n
<1> QED BY <1>8

\* Between two neighbours, never outside of them.
LEMMA Between ==
  ASSUME NEW a \in Int, NEW b \in Int, a <= b, NEW r \in 0 .. 99, NEW s \in 0 .. 99, r <= s
  PROVE  /\ a * 100 <= Mixed(a, b, r) /\ Mixed(a, b, r) <= b * 100
         /\ Mixed(a, b, r) <= Mixed(a, b, s) /\ Mixed(a, b, r) \in Int
<1> DEFINE d == b - a
<1>1. d \in Nat /\ b = a + d
  OBVIOUS
<1> HIDE DEF d
<1>2. d * r >= 0 /\ d * r <= d * 100 /\ d * r <= d * s /\ d * r \in Int /\ d * s \in Int
  BY <1>1
<1>3. Mixed(a, b, r) = a * 100 + d * r /\ Mixed(a, b, s) = a * 100 + d * s
  BY <1>1 DEF d, Mixed
<1> QED BY <1>1, <1>2, <1>3

LEMMA PercentilesRise ==
  ASSUME NEW values \in Seq(Int), Len(values) > 0,
         \A i, j \in 1 .. Len(values) : i <= j => values[i] <= values[j],
         NEW p \in 0 .. 100, NEW q \in 0 .. 100, p <= q
  PROVE  /\ L!Percentile(values, p) \in Int /\ L!Percentile(values, p) <= L!Percentile(values, q)
         /\ values[1] * 100 <= L!Percentile(values, p)
         /\ L!Percentile(values, p) <= values[Len(values)] * 100
<1> DEFINE n == Len(values)
           v(k) == values[k + 1]
<1>1. n \in Nat /\ n > 0 /\ \A k \in 0 .. n - 1 : k + 1 \in 1 .. n /\ v(k) \in Int
  OBVIOUS
<1>2. \A i, j \in 0 .. n - 1 : i <= j => v(i) <= v(j)
  BY <1>1
<1>3. PICK low, high, r : Interpolated(values, p, low, high, r)
  BY PercentileIs
<1>4. PICK lowq, highq, s : Interpolated(values, q, lowq, highq, s)
  BY PercentileIs
<1>5. /\ low \in 0 .. n - 1 /\ high = (IF low = n - 1 THEN low ELSE low + 1) /\ r \in 0 .. 99
      /\ (n - 1) * p = 100 * low + r /\ L!Percentile(values, p) = Mixed(v(low), v(high), r)
  BY <1>3 DEF Interpolated
<1>6. /\ lowq \in 0 .. n - 1 /\ highq = (IF lowq = n - 1 THEN lowq ELSE lowq + 1) /\ s \in 0 .. 99
      /\ (n - 1) * q = 100 * lowq + s /\ L!Percentile(values, q) = Mixed(v(lowq), v(highq), s)
  BY <1>4 DEF Interpolated
<1>7. v(0) = values[1] /\ v(n - 1) = values[Len(values)] /\ 0 \in 0 .. n - 1 /\ n - 1 \in 0 .. n - 1
  BY <1>1
<1> HIDE DEF n, v
<1>8. 100 * low + r <= 100 * lowq + s
  <2>1. \A m \in Nat : m * p <= m * q
    OBVIOUS
  <2>2. n - 1 \in Nat
    BY <1>1
  <2> QED BY <1>5, <1>6, <2>1, <2>2
<1>9. /\ v(low) \in Int /\ v(high) \in Int /\ v(low) <= v(high)
      /\ v(lowq) \in Int /\ v(highq) \in Int /\ v(lowq) <= v(highq) /\ v(0) \in Int /\ v(n - 1) \in Int
  <2>1. high \in 0 .. n - 1 /\ low <= high /\ highq \in 0 .. n - 1 /\ lowq <= highq
    BY <1>1, <1>5, <1>6
  <2> QED BY <1>1, <1>2, <1>5, <1>6, <1>7, <2>1
<1>10. /\ v(low) * 100 <= L!Percentile(values, p) /\ L!Percentile(values, p) <= v(high) * 100
       /\ L!Percentile(values, p) \in Int
  <2>1. r <= r /\ r \in 0 .. 99
    BY <1>5
  <2>2. /\ v(low) * 100 <= Mixed(v(low), v(high), r) /\ Mixed(v(low), v(high), r) <= v(high) * 100
        /\ Mixed(v(low), v(high), r) \in Int
    BY <1>9, <2>1, Between
  <2> QED BY <1>5, <2>2, Zenon
<1>11. v(lowq) * 100 <= L!Percentile(values, q) /\ L!Percentile(values, q) \in Int
  <2>1. s <= s /\ s \in 0 .. 99
    BY <1>6
  <2>2. v(lowq) * 100 <= Mixed(v(lowq), v(highq), s) /\ Mixed(v(lowq), v(highq), s) \in Int
    BY <1>9, <2>1, Between
  <2> QED BY <1>6, <2>2, Zenon
<1>12. L!Percentile(values, p) <= L!Percentile(values, q)
  <2>1. low < lowq \/ (low = lowq /\ r <= s)
    BY <1>5, <1>6, <1>8
  <2>2. CASE low < lowq
    <3>1. high \in 0 .. n - 1 /\ lowq \in 0 .. n - 1 /\ high <= lowq
      BY <1>1, <1>5, <1>6, <2>2
    <3>2. v(high) <= v(lowq)
      BY <1>2, <3>1
    <3> QED BY <1>9, <1>10, <1>11, <3>2
  <2>3. CASE low = lowq /\ r <= s
    <3>1. high = highq
      BY <1>5, <1>6, <2>3
    <3>2. Mixed(v(low), v(high), r) <= Mixed(v(low), v(high), s)
      <4>1. r \in 0 .. 99 /\ s \in 0 .. 99 /\ r <= s
        BY <1>5, <1>6, <2>3
      <4> QED BY <1>9, <4>1, Between
    <3> QED BY <1>5, <1>6, <2>3, <3>1, <3>2, Zenon
  <2> QED BY <2>1, <2>2, <2>3
<1>13. v(0) <= v(low) /\ v(high) <= v(n - 1)
  BY <1>1, <1>2, <1>5, <1>7
<1>14. v(0) * 100 <= L!Percentile(values, p) /\ L!Percentile(values, p) <= v(n - 1) * 100
  BY <1>9, <1>10, <1>13
<1> QED BY <1>7, <1>10, <1>12, <1>14

LEMMA PercentilesInOrder ==
  ASSUME NEW values \in Seq(Int), Len(values) > 0,
         \A i, j \in 1 .. Len(values) : i <= j => values[i] <= values[j]
  PROVE  L!PercentilesOrdered(values)
<1>1. /\ 50 \in 0 .. 100 /\ 95 \in 0 .. 100 /\ 99 \in 0 .. 100 /\ 50 <= 95 /\ 95 <= 99 /\ 99 <= 99
  OBVIOUS
<1>2. /\ values[1] * 100 <= L!Percentile(values, 50)
      /\ L!Percentile(values, 50) <= L!Percentile(values, 95)
  BY <1>1, PercentilesRise, Zenon
<1>3. L!Percentile(values, 95) <= L!Percentile(values, 99)
  BY <1>1, PercentilesRise, Zenon
<1>4. L!Percentile(values, 99) <= values[Len(values)] * 100
  BY <1>1, PercentilesRise, Zenon
<1> QED BY <1>2, <1>3, <1>4, Zenon DEF L!PercentilesOrdered

-----------------------------------------------------------------------------
(* Window: adjacent windows                                                 *)
Splits(K, t, start, middle, end) ==
    L!Cardinality({k \in K : L!In(t[k], start, end)})
      = L!Cardinality({k \in K : L!In(t[k], start, middle)}) + L!Cardinality({k \in K : L!In(t[k], middle, end)})

LEMMA HalvesAdd ==
  ASSUME NEW K, IsFiniteSet(K), NEW t, \A k \in K : t[k] \in Int,
         NEW start \in Int, NEW middle \in Int, NEW end \in Int, start <= middle, middle <= end
  PROVE  Splits(K, t, start, middle, end)
<1> DEFINE A == {k \in K : L!In(t[k], start, middle)}
           B == {k \in K : L!In(t[k], middle, end)}
<1>1. {k \in K : L!In(t[k], start, end)} = A \cup B /\ A \cap B = {}
  <2>1. ASSUME NEW k \in K
        PROVE  /\ L!In(t[k], start, end) <=> L!In(t[k], start, middle) \/ L!In(t[k], middle, end)
               /\ ~(L!In(t[k], start, middle) /\ L!In(t[k], middle, end))
    <3>1. t[k] \in Int
      OBVIOUS
    <3> QED BY <3>1 DEF L!In
  <2> QED BY <2>1
<1>2. IsFiniteSet(A) /\ IsFiniteSet(B)
  BY FS_Subset
<1> HIDE DEF A, B
<1>3. Cardinality(A) \in Nat /\ Cardinality(B) \in Nat /\ Cardinality({}) = 0
  BY <1>2, FS_CardinalityType, FS_EmptySet
<1>4. Cardinality(A \cup B) = Cardinality(A) + Cardinality(B) - Cardinality(A \cap B)
  BY <1>2, FS_Union
<1>5. Cardinality(A \cap B) = 0
  BY <1>1, <1>3, Zenon
<1>6. Cardinality(A \cup B) = Cardinality(A) + Cardinality(B)
  BY <1>3, <1>4, <1>5
<1> QED BY <1>1, <1>6, CountsAlike, Zenon DEF A, B, Splits

LEMMA AdjacentWindowsAdd ==
  ASSUME NEW rows, IsFiniteSet(DOMAIN rows), \A k \in DOMAIN rows : rows[k].left \in Int /\ rows[k].right \in Int,
         NEW start \in Int, NEW middle \in Int, NEW end \in Int, start <= middle, middle <= end
  PROVE  L!WindowsAdd(rows, start, middle, end)
<1> DEFINE K == DOMAIN rows
           left == [k \in K |-> rows[k].left]
           right == [k \in K |-> rows[k].right]
           Ended(status, a, b) == {k \in K : rows[k].status = status /\ L!In(rows[k].right, a, b)}
           Row4(a, b) == L!SummarizeWindow(rows, a, b)
           Open(a, b) == {k \in {j \in K : L!In(rows[j].left, a, b)} : rows[k].status # "completed"}
<1>1. ASSUME NEW a, NEW b
      PROVE  Row4(a, b) = [admitted_in_window |-> L!Cardinality({k \in K : L!In(rows[k].left, a, b)}),
                           completed_in_window |-> L!Cardinality(Ended("completed", a, b)),
                           failed_in_window |-> L!Cardinality(Ended("failed", a, b)),
                           incomplete_admission_cohort |-> L!Cardinality(Open(a, b))]
  BY Zenon DEF L!SummarizeWindow
<1>2. L!Cardinality({k \in K : L!In(rows[k].left, start, end)})
        = L!Cardinality({k \in K : L!In(rows[k].left, start, middle)})
            + L!Cardinality({k \in K : L!In(rows[k].left, middle, end)})
  <2>1. \A a, b : {k \in K : L!In(rows[k].left, a, b)} = {k \in K : L!In(left[k], a, b)}
    OBVIOUS
  <2>2. IsFiniteSet(K) /\ \A k \in K : left[k] \in Int
    OBVIOUS
  <2> HIDE DEF left, K
  <2>3. Splits(K, left, start, middle, end)
    BY <2>2, HalvesAdd
  <2> QED BY <2>1, <2>3, Zenon DEF Splits
<1>3. ASSUME NEW status
      PROVE  L!Cardinality(Ended(status, start, end))
               = L!Cardinality(Ended(status, start, middle)) + L!Cardinality(Ended(status, middle, end))
  <2> DEFINE J == {k \in K : rows[k].status = status}
  <2>1. \A a, b : Ended(status, a, b) = {k \in J : L!In(right[k], a, b)}
    OBVIOUS
  <2>2. IsFiniteSet(J) /\ \A k \in J : right[k] \in Int
    <3>1. IsFiniteSet(J)
      BY FS_Subset
    <3> QED BY <3>1
  <2> HIDE DEF J, right, Ended
  <2>3. Splits(J, right, start, middle, end)
    BY <2>2, HalvesAdd
  <2> QED BY <2>1, <2>3, Zenon DEF Splits
<1>4. L!Cardinality(Open(start, end)) = L!Cardinality(Open(start, middle)) + L!Cardinality(Open(middle, end))
  <2> DEFINE J == {k \in K : rows[k].status # "completed"}
  <2>1. \A a, b : Open(a, b) = {k \in J : L!In(left[k], a, b)}
    OBVIOUS
  <2>2. IsFiniteSet(J) /\ \A k \in J : left[k] \in Int
    <3>1. IsFiniteSet(J)
      BY FS_Subset
    <3> QED BY <3>1
  <2> HIDE DEF J, left, Open
  <2>3. Splits(J, left, start, middle, end)
    BY <2>2, HalvesAdd
  <2> QED BY <2>1, <2>3, Zenon DEF Splits
<1> HIDE DEF Ended, Open
<1>5. ASSUME NEW field \in DOMAIN Row4(start, end)
      PROVE  Row4(start, end)[field] = Row4(start, middle)[field] + Row4(middle, end)[field]
  <2>1. field \in {"admitted_in_window", "completed_in_window", "failed_in_window", "incomplete_admission_cohort"}
    <3> HIDE DEF Row4
    <3> QED BY <1>1
  <2> HIDE DEF Row4
  <2>2. CASE field = "admitted_in_window"
    BY <1>1, <1>2, <2>2
  <2>3. CASE field = "completed_in_window"
    BY <1>1, <1>3, <2>3
  <2>4. CASE field = "failed_in_window"
    BY <1>1, <1>3, <2>4
  <2>5. CASE field = "incomplete_admission_cohort"
    BY <1>1, <1>4, <2>5
  <2> QED BY <2>1, <2>2, <2>3, <2>4, <2>5
<1> QED BY <1>5, Zenon DEF L!WindowsAdd

-----------------------------------------------------------------------------
(* Window: the sweep over the points where intervals open and close         *)
Start(start) == [active |-> 0, peak |-> 0, area |-> 0, previous |-> start]
SweepStep(changes, s, t) ==
  [active |-> s.active + changes[t], peak |-> L!Max({s.peak, s.active + changes[t]}),
   area |-> s.area + s.active * (t - s.previous), previous |-> t]
Sweeping(g, changes, start, order) ==
  g = [s \in SUBSET DOMAIN order |->
         IF s = {} THEN Start(start) ELSE SweepStep(changes, g[s \ {Greatest(s)}], order[Greatest(s)])]
Swept(changes, start, order) == CHOOSE g : Sweeping(g, changes, start, order)
SweepSteps(f, changes, start, order, n) ==
  f[0] = Start(start) /\ \A k \in 1 .. n : f[k] = SweepStep(changes, f[k - 1], order[k])

LEMMA SweepStepwise ==
  ASSUME NEW changes, DOMAIN changes \subseteq Int, \A t \in DOMAIN changes : changes[t] \in Int,
         NEW n \in Nat, NEW order \in [1 .. n -> DOMAIN changes], NEW start \in Int,
         order = Ranked(DOMAIN changes, Less(DOMAIN changes))
  PROVE  \E f : SweepSteps(f, changes, start, order, n) /\ f[n] = L!Sweep(changes, start)
<1> DEFINE V == [active : Int, peak : Int, area : Int, previous : Int]
           step == [x \in (1 .. n) \X V |-> SweepStep(changes, x[2], order[x[1]])]
           g == Swept(changes, start, order)
<1>1. step \in [(1 .. n) \X V -> V]
  <2>1. ASSUME NEW x \in (1 .. n) \X V PROVE SweepStep(changes, x[2], order[x[1]]) \in V
    <3> DEFINE s == x[2]
               t == order[x[1]]
    <3>1. /\ s.active \in Int /\ s.peak \in Int /\ s.area \in Int /\ s.previous \in Int
          /\ t \in Int /\ changes[t] \in Int
      <4>1. x[2] \in V /\ x[1] \in 1 .. n
        OBVIOUS
      <4>2. order[x[1]] \in DOMAIN changes
        BY <4>1
      <4> QED BY <4>1, <4>2
    <3> HIDE DEF s, t
    <3> DEFINE a == s.active + changes[t]
               w == s.active * (t - s.previous)
    <3>2. a \in Int /\ w \in Int
      <4>1. \A x1, x2, x3 \in Int : x1 * (x2 - x3) \in Int /\ x1 + x2 \in Int
        OBVIOUS
      <4> QED BY <3>1, <4>1, Zenon
    <3> HIDE DEF a, w
    <3>3. L!Max({s.peak, a}) \in Int
      BY <3>1, <3>2, LargerOf
    <3>4. SweepStep(changes, s, t) = [active |-> a, peak |-> L!Max({s.peak, a}), area |-> s.area + w, previous |-> t]
      BY DEF SweepStep, a, w
    <3>5. SweepStep(changes, s, t) \in V
      BY <3>1, <3>2, <3>3, <3>4
    <3> QED BY <3>5 DEF s, t
  <2> QED BY <2>1
<1>2. Start(start) \in V
  BY DEF Start
<1>3. PICK h \in [SUBSET (1 .. n) -> V] : Folding(Start(start), step, h, n)
  <2> HIDE DEF step, V
  <2> QED BY <1>1, <1>2, FoldsExist, Zenon
<1>4. ASSUME NEW s \in SUBSET (1 .. n), s # {}
      PROVE  step[<<Greatest(s), h[s \ {Greatest(s)}]>>]
               = SweepStep(changes, h[s \ {Greatest(s)}], order[Greatest(s)])
  <2>1. Greatest(s) \in s
    BY <1>4, GreatestIn
  <2>2. <<Greatest(s), h[s \ {Greatest(s)}]>> \in (1 .. n) \X V
    BY <2>1
  <2> QED BY <2>2
<1>5. Sweeping(h, changes, start, order)
  BY <1>3, <1>4 DEF Sweeping, Folding, Folded
<1>6. Sweeping(g, changes, start, order)
  BY <1>5, Zenon DEF Swept
<1>7. L!Sweep(changes, start) = g[1 .. n]
  <2>1. DOMAIN order = 1 .. n
    OBVIOUS
  <2>2. L!Ranked(DOMAIN changes, L!Less(DOMAIN changes)) = order
    <3>1. L!Less(DOMAIN changes) = Less(DOMAIN changes)
      BY Zenon DEF L!Less, Less
    <3> QED BY <3>1, RankedAlike, Zenon
  <2> DEFINE o == L!Ranked(DOMAIN changes, L!Less(DOMAIN changes))
  <2>3. L!Sweep(changes, start) = Swept(changes, start, o)[DOMAIN o]
    BY Zenon DEF L!Sweep, L!FoldLeft, L!MapThenFoldSet, L!Max, Greatest, Swept, Sweeping,
       SweepStep, Start
  <2> HIDE DEF o
  <2> QED BY <2>1, <2>2, <2>3, Zenon DEF o
<1> HIDE DEF g
<1> DEFINE f == [k \in 0 .. n |-> g[1 .. k]]
<1>8. f[0] = Start(start)
  <2>1. {} \in SUBSET DOMAIN order /\ 1 .. 0 = {} /\ 0 \in 0 .. n
    OBVIOUS
  <2> QED BY <1>6, <2>1 DEF Sweeping
<1>9. ASSUME NEW k \in 1 .. n PROVE f[k] = SweepStep(changes, f[k - 1], order[k])
  <2>1. /\ (1 .. k) \in SUBSET DOMAIN order /\ 1 .. k # {}
        /\ Greatest(1 .. k) = k /\ (1 .. k) \ {k} = 1 .. k - 1
    BY Segments
  <2>2. k \in 0 .. n /\ k - 1 \in 0 .. n
    OBVIOUS
  <2> QED BY <1>6, <2>1, <2>2 DEF Sweeping
<1>10. f[n] = g[1 .. n]
  OBVIOUS
<1> HIDE DEF f
<1>11. SweepSteps(f, changes, start, order, n)
  BY <1>8, <1>9 DEF SweepSteps
<1> QED BY <1>7, <1>10, <1>11

Opened(K, l, r, a, b) == [t \in a .. b - 1 |-> OpenAt(K, l, r, t)]
SweptTo(s, K, l, r, p, n, k) ==
  /\ s.previous = p[k] /\ s.active = OpenAt(K, l, r, p[k])
  /\ s.area = Sum(Opened(K, l, r, p[1], p[n]), p[1] .. p[k] - 1)
  /\ \A i \in 1 .. k : OpenAt(K, l, r, p[i]) <= s.peak
  /\ \E i \in 1 .. k : OpenAt(K, l, r, p[i]) = s.peak

LEMMA SweepBegins ==
  ASSUME NEW K, NEW l, NEW r, NEW p, NEW n, EndsAt(K, l, r, p, n), NEW changes,
         changes[p[1]] = Change(K, l, r, p[1])
  PROVE  SweptTo(SweepStep(changes, Start(p[1]), p[1]), K, l, r, p, n, 1)
<1> DEFINE A == {k \in K : l[k] <= p[1] /\ p[1] < r[k]}
           B == {k \in K : l[k] = p[1]}
           C == {k \in K : r[k] = p[1]}
           a == OpenAt(K, l, r, p[1])
           s == SweepStep(changes, Start(p[1]), p[1])
<1>1. p[1] \in Int /\ \A k \in K : l[k] \in Int /\ r[k] \in Int /\ l[k] < r[k] /\ p[1] <= l[k]
  BY DEF EndsAt
<1>2. A = B /\ C = {}
  BY <1>1
<1>3. a \in Nat /\ Cardinality({}) = 0
  BY OpenNat, FS_EmptySet
<1>4. Change(K, l, r, p[1]) = a - 0
  BY <1>2, <1>3, Zenon DEF Change, OpenAt
<1> HIDE DEF A, B, C, a
<1>5. 0 + changes[p[1]] = a
  BY <1>3, <1>4
<1>6. L!Max({0, a}) = a
  BY <1>3, LargerOf
<1>7. s = [active |-> a, peak |-> a, area |-> 0 + 0 * (p[1] - p[1]), previous |-> p[1]]
  <2>1. s = [active |-> 0 + changes[p[1]], peak |-> L!Max({0, 0 + changes[p[1]]}),
             area |-> 0 + 0 * (p[1] - p[1]), previous |-> p[1]]
    BY DEF SweepStep, Start
  <2> HIDE DEF s
  <2> QED BY <1>5, <1>6, <2>1, Zenon
<1>8. s.active = a /\ s.peak = a /\ s.area = 0 /\ s.previous = p[1]
  <2> HIDE DEF s
  <2> QED BY <1>1, <1>7
<1> HIDE DEF s
<1>9. Sum(Opened(K, l, r, p[1], p[n]), p[1] .. p[1] - 1) = 0
  <2>1. p[1] .. p[1] - 1 = {}
    BY <1>1
  <2> QED BY <2>1, SumEmpty, Zenon
<1>10. \A i \in 1 .. 1 : i = 1
  OBVIOUS
<1>11. 1 \in 1 .. 1 /\ a <= a
  BY <1>3
<1> QED BY <1>8, <1>9, <1>10, <1>11 DEF SweptTo, a, s

LEMMA SweepGoesOn ==
  ASSUME NEW K, NEW l, NEW r, NEW p, NEW n, EndsAt(K, l, r, p, n), NEW changes,
         NEW k \in 1 .. n, k + 1 \in 1 .. n, changes[p[k + 1]] = Change(K, l, r, p[k + 1]),
         NEW s, SweptTo(s, K, l, r, p, n, k)
  PROVE  SweptTo(SweepStep(changes, s, p[k + 1]), K, l, r, p, n, k + 1)
<1> DEFINE a == OpenAt(K, l, r, p[k])
           b == OpenAt(K, l, r, p[k + 1])
           cov == Opened(K, l, r, p[1], p[n])
           u == SweepStep(changes, s, p[k + 1])
           top == IF s.peak >= b THEN s.peak ELSE b
<1>1. /\ p[1] \in Int /\ p[k] \in Int /\ p[k + 1] \in Int /\ p[n] \in Int
      /\ p[1] <= p[k] /\ p[k] <= p[k + 1] /\ p[k + 1] <= p[n]
  <2>1. /\ 1 \in 1 .. n /\ n \in 1 .. n /\ k \in Int /\ n \in Int
        /\ \A i, j \in 1 .. n : i < j => p[i] < p[j]
        /\ \A i \in 1 .. n : p[i] \in Int
    BY DEF EndsAt
  <2>2. ASSUME NEW i \in 1 .. n, NEW j \in 1 .. n, i <= j PROVE p[i] <= p[j]
    <3>1. i = j \/ i < j
      BY <2>2
    <3> QED BY <2>1, <3>1
  <2> QED BY <2>1, <2>2
<1>2. a \in Nat /\ b \in Nat /\ b = a + changes[p[k + 1]]
  <2>1. a \in Nat /\ b \in Nat
    BY OpenNat
  <2>2. b = a + Change(K, l, r, p[k + 1])
    BY OpenChanges
  <2> QED BY <2>1, <2>2
<1>3. s.peak \in Nat
  <2>1. PICK i \in 1 .. k : OpenAt(K, l, r, p[i]) = s.peak
    BY DEF SweptTo
  <2>2. OpenAt(K, l, r, p[i]) \in Nat
    BY OpenNat
  <2> QED BY <2>1, <2>2
<1>4. /\ s.previous = p[k] /\ s.active = a /\ s.area = Sum(cov, p[1] .. p[k] - 1)
  BY Zenon DEF SweptTo
<1>5. Sum(cov, p[1] .. p[k + 1] - 1) = Sum(cov, p[1] .. p[k] - 1) + a * (p[k + 1] - p[k])
  <2>1. \A t \in p[1] .. p[k + 1] - 1 : cov[t] \in Int
    <3>1. \A t \in p[1] .. p[k + 1] - 1 : t \in p[1] .. p[n] - 1
      BY <1>1
    <3>2. \A t \in p[1] .. p[n] - 1 : cov[t] = OpenAt(K, l, r, t)
      BY DEF Opened
    <3>3. ASSUME NEW t PROVE OpenAt(K, l, r, t) \in Int
      <4>1. OpenAt(K, l, r, t) \in Nat
        BY OpenNat
      <4> QED BY <4>1
    <3> HIDE DEF cov
    <3> QED BY <3>1, <3>2, <3>3
  <2>2. \A t \in p[k] .. p[k + 1] - 1 : cov[t] = a
    <3>1. \A t \in p[k] .. p[k + 1] - 1 : t \in p[1] .. p[n] - 1
      BY <1>1
    <3>2. \A t \in p[1] .. p[n] - 1 : cov[t] = OpenAt(K, l, r, t)
      BY DEF Opened
    <3>3. \A t \in p[k] .. p[k + 1] - 1 : OpenAt(K, l, r, t) = a
      BY OpenBetween
    <3> QED BY <3>1, <3>2, <3>3
  <2> DEFINE x == p[1]
             y == p[k]
             z == p[k + 1]
  <2>3. x \in Int /\ y \in Int /\ z \in Int /\ x <= y /\ y <= z /\ a \in Int
    BY <1>1, <1>2
  <2>4. (\A t \in x .. z - 1 : cov[t] \in Int) /\ \A t \in y .. z - 1 : cov[t] = a
    BY <2>1, <2>2
  <2> HIDE DEF a, cov, x, y, z
  <2>5. TailAdds(cov, x, y, z, a)
    BY <2>3, <2>4, SumConstantTail
  <2> QED BY <2>5, Zenon DEF TailAdds, x, y, z
<1>6. L!Max({s.peak, b}) = top
  <2> HIDE DEF b
  <2> QED BY <1>2, <1>3, LargerOf
<1> HIDE DEF a, b, cov
<1>7. u = [active |-> b, peak |-> top, area |-> Sum(cov, p[1] .. p[k + 1] - 1), previous |-> p[k + 1]]
  <2>1. u = [active |-> a + changes[p[k + 1]], peak |-> L!Max({s.peak, a + changes[p[k + 1]]}),
             area |-> Sum(cov, p[1] .. p[k] - 1) + a * (p[k + 1] - p[k]), previous |-> p[k + 1]]
    BY <1>4, Zenon DEF SweepStep
  <2> HIDE DEF u, top
  <2> QED BY <1>2, <1>5, <1>6, <2>1, Zenon
<1>8. u.active = b /\ u.peak = top /\ u.area = Sum(cov, p[1] .. p[k + 1] - 1) /\ u.previous = p[k + 1]
  <2> HIDE DEF u, top
  <2> QED BY <1>7
<1> HIDE DEF u
<1>9. top \in Nat /\ b <= top /\ s.peak <= top /\ (top = b \/ top = s.peak)
  BY <1>2, <1>3
<1> HIDE DEF top
<1>10. k \in Nat /\ \A i : i \in 1 .. k + 1 <=> i \in 1 .. k \/ i = k + 1
  BY DEF EndsAt
<1>11. \A i \in 1 .. k + 1 : OpenAt(K, l, r, p[i]) <= top
  <2>1. ASSUME NEW i \in 1 .. k PROVE OpenAt(K, l, r, p[i]) <= top
    <3>1. OpenAt(K, l, r, p[i]) <= s.peak
      BY DEF SweptTo
    <3>2. OpenAt(K, l, r, p[i]) \in Nat
      BY OpenNat
    <3> QED BY <1>3, <1>9, <3>1, <3>2
  <2>2. OpenAt(K, l, r, p[k + 1]) <= top
    BY <1>9 DEF b
  <2> QED BY <1>10, <2>1, <2>2
<1>12. \E i \in 1 .. k + 1 : OpenAt(K, l, r, p[i]) = top
  <2>1. \E i \in 1 .. k : OpenAt(K, l, r, p[i]) = s.peak
    BY DEF SweptTo
  <2>2. OpenAt(K, l, r, p[k + 1]) = b
    BY DEF b
  <2> QED BY <1>9, <1>10, <2>1, <2>2
<1> QED BY <1>8, <1>11, <1>12, Zenon DEF SweptTo, b, cov, u

SweepEnded(s, K, l, r, start, end) ==
  /\ s.active = 0 /\ s.area = Sum(Opened(K, l, r, start, end), start .. end - 1)
  /\ \A t \in start .. end - 1 : OpenAt(K, l, r, t) <= s.peak
  /\ \E t \in start .. end - 1 : OpenAt(K, l, r, t) = s.peak

LEMMA SweepIs ==
  ASSUME NEW K, NEW l, NEW r, NEW p, NEW n, EndsAt(K, l, r, p, n), p[1] < p[n], NEW changes, NEW f,
         \A i \in 1 .. n : changes[p[i]] = Change(K, l, r, p[i]), SweepSteps(f, changes, p[1], p, n)
  PROVE  SweepEnded(f[n], K, l, r, p[1], p[n])
<1>1. /\ n \in Nat /\ n >= 1 /\ p \in [1 .. n -> Int] /\ 1 \in 1 .. n /\ n \in 1 .. n
      /\ p[1] \in Int /\ p[n] \in Int
  BY DEF EndsAt
<1> DEFINE F == {k \in Nat : k >= 1 /\ k <= n => SweptTo(f[k], K, l, r, p, n, k)}
<1>2. 0 \in F
  OBVIOUS
<1>3. ASSUME NEW k \in Nat, k \in F PROVE k + 1 \in F
  <2> SUFFICES ASSUME k + 1 <= n PROVE SweptTo(f[k + 1], K, l, r, p, n, k + 1)
    OBVIOUS
  <2>1. k + 1 \in 1 .. n /\ (k + 1) - 1 = k
    BY <1>1
  <2>2. f[k + 1] = SweepStep(changes, f[k], p[k + 1]) /\ changes[p[k + 1]] = Change(K, l, r, p[k + 1])
    BY <2>1 DEF SweepSteps
  <2>3. CASE k = 0
    <3>1. k + 1 = 1 /\ f[0] = Start(p[1])
      BY <2>3 DEF SweepSteps
    <3>2. f[1] = SweepStep(changes, Start(p[1]), p[1]) /\ changes[p[1]] = Change(K, l, r, p[1])
      BY <2>2, <2>3, <3>1
    <3>3. SweptTo(f[1], K, l, r, p, n, 1)
      BY <3>2, SweepBegins
    <3> QED BY <3>1, <3>3
  <2>4. CASE k # 0
    <3>1. k \in 1 .. n /\ k >= 1 /\ k <= n
      BY <1>1, <2>1, <2>4
    <3>2. SweptTo(f[k], K, l, r, p, n, k)
      BY <1>3, <3>1
    <3> HIDE DEF F
    <3>3. SweptTo(SweepStep(changes, f[k], p[k + 1]), K, l, r, p, n, k + 1)
      BY <2>1, <2>2, <3>1, <3>2, SweepGoesOn
    <3> QED BY <2>2, <3>3
  <2> QED BY <2>3, <2>4
<1>4. SweptTo(f[n], K, l, r, p, n, n)
  <2> HIDE DEF F
  <2>1. n \in F
    BY <1>1, <1>2, <1>3, NatSetInduction
  <2> QED BY <1>1, <2>1 DEF F
<1> HIDE DEF F
<1> DEFINE s == f[n]
           Sec == p[1] .. p[n] - 1
<1>5. s.active = OpenAt(K, l, r, p[n]) /\ s.area = Sum(Opened(K, l, r, p[1], p[n]), Sec)
  BY <1>4, Zenon DEF SweptTo
<1>6. OpenAt(K, l, r, p[n]) = 0
  <2>1. {k \in K : l[k] <= p[n] /\ p[n] < r[k]} = {}
    BY <1>1 DEF EndsAt
  <2>2. Cardinality({}) = 0
    BY FS_EmptySet
  <2> QED BY <2>1, <2>2, Zenon DEF OpenAt
<1>7. (\A i \in 1 .. n : OpenAt(K, l, r, p[i]) <= s.peak) /\ \E i \in 1 .. n : OpenAt(K, l, r, p[i]) = s.peak
  BY <1>4, Zenon DEF SweptTo
<1> HIDE DEF s
<1>8. ASSUME NEW t \in Sec PROVE OpenAt(K, l, r, t) <= s.peak
  <2>1. t \in Int /\ p[1] <= t /\ t < p[n]
    BY <1>1
  <2>2. PICK i \in 1 .. n : i + 1 \in 1 .. n /\ p[i] <= t /\ t < p[i + 1]
    BY <1>1, <2>1, PointBefore
  <2>3. t \in p[i] .. p[i + 1] - 1
    BY <1>1, <2>1, <2>2
  <2>4. OpenAt(K, l, r, t) = OpenAt(K, l, r, p[i])
    BY <2>2, <2>3, OpenBetween
  <2>5. OpenAt(K, l, r, p[i]) <= s.peak
    BY <1>7
  <2> QED BY <2>4, <2>5, Zenon
<1>9. \E t \in Sec : OpenAt(K, l, r, t) = s.peak
  <2>1. PICK i \in 1 .. n : OpenAt(K, l, r, p[i]) = s.peak
    BY <1>7
  <2>2. CASE i # n
    <3>1. i < n
      BY <1>1, <2>2
    <3>2. p[i] < p[n] /\ (p[1] < p[i] \/ p[1] = p[i])
      <4>1. 1 = i \/ 1 < i
        BY <1>1
      <4> QED BY <1>1, <3>1, <4>1 DEF EndsAt
    <3>3. p[i] \in Sec
      BY <1>1, <3>2
    <3> QED BY <2>1, <3>3
  <2>3. CASE i = n
    <3>1. s.peak = 0
      BY <1>6, <2>1, <2>3
    <3>2. OpenAt(K, l, r, p[1]) \in Nat
      BY OpenNat
    <3>3. OpenAt(K, l, r, p[1]) <= s.peak
      BY <1>1, <1>7
    <3>4. OpenAt(K, l, r, p[1]) = s.peak
      BY <3>1, <3>2, <3>3
    <3>5. p[1] \in Sec
      BY <1>1
    <3> QED BY <3>4, <3>5
  <2> QED BY <2>2, <2>3
<1> QED BY <1>5, <1>6, <1>8, <1>9, Zenon DEF SweepEnded, s

\* The seconds counted one by one.
CoverTotal(I, S) == L!MapThenSumSet(LAMBDA t : L!Covering(I, t), S)
CoverSums(g, I, S) ==
  g = [s \in SUBSET S |-> IF s = {} THEN 0 ELSE L!Covering(I, Picked(s)) + g[s \ {Picked(s)}]]

LEMMA CoverTotalIs ==
  ASSUME NEW I, NEW S, IsFiniteSet(S), NEW cov, \A t \in S : cov[t] = L!Covering(I, t)
  PROVE  CoverTotal(I, S) = Sum(cov, S)
<1> DEFINE g == CHOOSE h : CoverSums(h, I, S)
<1>1. ASSUME NEW h PROVE CoverSums(h, I, S) <=> Sums(cov, h, SUBSET S)
  <2>1. ASSUME NEW s \in SUBSET S, s # {} PROVE cov[Picked(s)] = L!Covering(I, Picked(s))
    <3>1. Picked(s) \in s
      BY <2>1 DEF Picked
    <3> QED BY <3>1
  <2> QED BY <2>1 DEF CoverSums, Sums, Summand
<1>2. CoverSums(g, I, S)
  <2>1. \E h : Sums(cov, h, SUBSET S)
    BY SumsExist
  <2>2. \E h : CoverSums(h, I, S)
    BY <1>1, <2>1, Zenon
  <2> QED BY <2>2, Zenon
<1>3. CoverTotal(I, S) = g[S]
  BY Zenon DEF CoverTotal, L!MapThenSumSet, L!MapThenFoldSet, CoverSums, Picked
<1> HIDE DEF g
<1> QED BY <1>1, <1>2, <1>3, SumsUnique

\* The intervals within the window, and where they begin and end there.
Opens(I, start, end) == [k \in DOMAIN I |-> L!Clip(I[k], start, end).left]
Closes(I, start, end) == [k \in DOMAIN I |-> L!Clip(I[k], start, end).right]
Shown(I, start, end) == {k \in DOMAIN I : Closes(I, start, end)[k] > Opens(I, start, end)[k]}

LEMMA ClipsWithin ==
  ASSUME NEW I, Intervals(I), NEW start \in Int, NEW end \in Int, NEW k \in DOMAIN I
  PROVE  /\ Opens(I, start, end)[k] = (IF I[k].left >= start THEN I[k].left ELSE start)
         /\ Closes(I, start, end)[k] = (IF I[k].right <= end THEN I[k].right ELSE end)
         /\ I[k].left \in Int /\ I[k].right \in Int
<1>1. I[k].left \in Int /\ I[k].right \in Int
  BY DEF Intervals
<1> DEFINE a == I[k].left
           b == I[k].right
<1>2. a \in Int /\ b \in Int
  BY <1>1
<1>3. Opens(I, start, end)[k] = L!Max({a, start}) /\ Closes(I, start, end)[k] = L!Min({b, end})
  BY DEF Opens, Closes, L!Clip
<1> HIDE DEF a, b
<1>4. L!Max({a, start}) = (IF a >= start THEN a ELSE start) /\ L!Min({b, end}) = IF b <= end THEN b ELSE end
  BY <1>2, LargerOf
<1> QED BY <1>1, <1>3, <1>4 DEF a, b

ChangesOf(changes, K, l, r, start, end) ==
  /\ DOMAIN changes = {start, end} \cup {l[k] : k \in K} \cup {r[k] : k \in K}
  /\ \A t \in DOMAIN changes : changes[t] = Change(K, l, r, t)

LEMMA ChangesAre ==
  ASSUME NEW I, NEW start, NEW end
  PROVE  ChangesOf(L!Changes(I, start, end), Shown(I, start, end), Opens(I, start, end), Closes(I, start, end),
                   start, end)
<1> DEFINE l == Opens(I, start, end)
           r == Closes(I, start, end)
           K == Shown(I, start, end)
           clip == [k \in DOMAIN I |-> L!Clip(I[k], start, end)]
           N == {k \in DOMAIN I : clip[k].right > clip[k].left}
           D == {start, end} \cup {clip[k].left : k \in N} \cup {clip[k].right : k \in N}
           changes == L!Changes(I, start, end)
<1>1. changes = [t \in D |-> Cardinality({k \in N : clip[k].left = t}) - Cardinality({k \in N : clip[k].right = t})]
  BY CountsAlike, Zenon DEF L!Changes
<1>2. \A k \in DOMAIN I : clip[k].left = l[k] /\ clip[k].right = r[k]
  BY DEF Opens, Closes
<1>3. DOMAIN l = DOMAIN I /\ DOMAIN r = DOMAIN I /\ K = {k \in DOMAIN I : r[k] > l[k]}
  BY DEF Opens, Closes, Shown
<1> HIDE DEF clip, l, r, K
<1>4. N = K
  BY <1>2, <1>3
<1>5. K \subseteq DOMAIN I
  BY <1>3
<1>6. D = {start, end} \cup {l[k] : k \in K} \cup {r[k] : k \in K}
  <2>1. {clip[k].left : k \in N} = {l[k] : k \in K} /\ {clip[k].right : k \in N} = {r[k] : k \in K}
    BY <1>2, <1>4, <1>5
  <2> QED BY <2>1
<1>7. ASSUME NEW t PROVE {k \in N : clip[k].left = t} = {k \in K : l[k] = t} /\ {k \in N : clip[k].right = t} = {k \in K : r[k] = t}
  BY <1>2, <1>4, <1>5
<1>8. \A t \in D : changes[t] = Change(K, l, r, t)
  <2>1. ASSUME NEW t \in D PROVE changes[t] = Change(K, l, r, t)
    <3> DEFINE count(x) == Cardinality({k \in N : clip[k].left = x}) - Cardinality({k \in N : clip[k].right = x})
    <3>1. count(t) = Change(K, l, r, t)
      BY <1>7, Zenon DEF Change
    <3>2. changes = [x \in D |-> count(x)]
      BY <1>1
    <3> HIDE DEF count, D, N, changes
    <3>3. changes[t] = count(t)
      BY <3>2
    <3> QED BY <3>1, <3>3
  <2> QED BY <2>1
<1>9. DOMAIN changes = D
  BY <1>1
<1> HIDE DEF D, changes, N
<1>10. ChangesOf(changes, K, l, r, start, end)
  BY <1>6, <1>8, <1>9, Zenon DEF ChangesOf
<1> QED BY <1>10, Zenon DEF K, l, r, changes

InOrder(o, n, a, b) ==
  /\ n >= 1 /\ o[1] = a /\ o[n] = b /\ o \in [1 .. n -> Int]
  /\ \A i, j \in 1 .. n : i < j => o[i] < o[j]

\* A list whose points are in order begins with the least and ends with the greatest.
LEMMA OrderEnds ==
  ASSUME NEW S \in SUBSET Int, NEW o, NEW n \in Nat, InOrderOf(o, S, Less(S)), n = Cardinality(S),
         NEW a \in S, NEW b \in S, \A x \in S : a <= x /\ x <= b
  PROVE  InOrder(o, n, a, b)
<1>1. /\ o \in [1 .. n -> S] /\ \A i, j \in 1 .. n : i < j => <<o[i], o[j]>> \in Less(S)
      /\ \A x \in S : \E i \in 1 .. n : o[i] = x
  BY DEF InOrderOf
<1>2. \A i, j \in 1 .. n : i < j => o[i] < o[j]
  BY <1>1 DEF Less
<1>3. n >= 1 /\ 1 \in 1 .. n /\ n \in 1 .. n
  BY <1>1
<1>4. o[1] \in Int /\ o[n] \in Int /\ a <= o[1] /\ o[n] <= b /\ a \in Int /\ b \in Int
  BY <1>1, <1>3
<1>5. o[1] = a
  <2>1. PICK i \in 1 .. n : o[i] = a
    BY <1>1
  <2>2. i = 1 \/ 1 < i
    OBVIOUS
  <2> QED BY <1>2, <1>3, <1>4, <2>1, <2>2
<1>6. o[n] = b
  <2>1. PICK i \in 1 .. n : o[i] = b
    BY <1>1
  <2>2. i = n \/ i < n
    OBVIOUS
  <2> QED BY <1>2, <1>3, <1>4, <2>1, <2>2
<1>7. o \in [1 .. n -> Int]
  BY <1>1
<1> QED BY <1>2, <1>3, <1>5, <1>6, <1>7 DEF InOrder

\* What the sweep finds in a window, second by second.
TimelineIs(s, I, start, end) ==
  /\ s.active = 0 /\ s.area = CoverTotal(I, start .. end - 1)
  /\ \A t \in start .. end - 1 : L!Covering(I, t) <= s.peak
  /\ \E t \in start .. end - 1 : L!Covering(I, t) = s.peak

LEMMA TimelineSwept ==
  ASSUME NEW I, Intervals(I), NEW start \in Int, NEW end \in Int, start < end
  PROVE  TimelineIs(L!Timeline(I, start, end), I, start, end)
<1> DEFINE l == Opens(I, start, end)
           r == Closes(I, start, end)
           K == Shown(I, start, end)
           changes == L!Changes(I, start, end)
           D == DOMAIN changes
           p == Ranked(D, Less(D))
           n == Cardinality(D)
<1>1. /\ D = {start, end} \cup {l[k] : k \in K} \cup {r[k] : k \in K}
      /\ \A t \in D : changes[t] = Change(K, l, r, t)
  <2>1. ChangesOf(changes, K, l, r, start, end)
    BY ChangesAre
  <2> HIDE DEF l, r, K, changes
  <2> QED BY <2>1 DEF ChangesOf
<1>2. K = {k \in DOMAIN I : l[k] < r[k]} /\ IsFiniteSet(K)
  <2>1. K = {k \in DOMAIN I : r[k] > l[k]}
    BY DEF Shown
  <2>2. \A k \in DOMAIN I : l[k] \in Int /\ r[k] \in Int
    <3>1. ASSUME NEW k \in DOMAIN I PROVE l[k] \in Int /\ r[k] \in Int
      <4> HIDE DEF l, r
      <4>1. /\ l[k] = (IF I[k].left >= start THEN I[k].left ELSE start)
            /\ r[k] = (IF I[k].right <= end THEN I[k].right ELSE end)
            /\ I[k].left \in Int /\ I[k].right \in Int
        BY ClipsWithin DEF l, r
      <4> QED BY <4>1
    <3> QED BY <3>1
  <2> HIDE DEF l, r, K
  <2>3. K = {k \in DOMAIN I : l[k] < r[k]}
    BY <2>1, <2>2
  <2>4. IsFiniteSet(DOMAIN I)
    BY DEF Intervals
  <2> QED BY <2>3, <2>4, FS_Subset
<1>3. ASSUME NEW k \in DOMAIN I
      PROVE  /\ l[k] = (IF I[k].left >= start THEN I[k].left ELSE start)
             /\ r[k] = (IF I[k].right <= end THEN I[k].right ELSE end)
             /\ I[k].left \in Int /\ I[k].right \in Int
             /\ l[k] \in Int /\ r[k] \in Int /\ start <= l[k] /\ r[k] <= end
  <2>1. /\ l[k] = (IF I[k].left >= start THEN I[k].left ELSE start)
        /\ r[k] = (IF I[k].right <= end THEN I[k].right ELSE end)
        /\ I[k].left \in Int /\ I[k].right \in Int
    BY ClipsWithin
  <2> HIDE DEF l, r
  <2> QED BY <2>1
<1>4. L!Timeline(I, start, end) = L!Sweep(changes, start)
  BY Zenon DEF L!Timeline
<1> HIDE DEF l, r, K, changes
<1>5. ASSUME NEW t \in D PROVE t \in Int /\ start <= t /\ t <= end
  <2>1. \A k \in K : k \in DOMAIN I /\ l[k] < r[k]
    BY <1>2
  <2>2. ASSUME NEW k \in K PROVE l[k] \in Int /\ r[k] \in Int /\ start <= l[k] /\ l[k] <= end /\ start <= r[k] /\ r[k] <= end
    BY <1>3, <2>1
  <2>3. t = start \/ t = end \/ (\E k \in K : t = l[k]) \/ \E k \in K : t = r[k]
    BY <1>1
  <2> QED BY <2>2, <2>3
<1>6. IsFiniteSet(D)
  <2>1. IsFiniteSet({l[k] : k \in K}) /\ IsFiniteSet({r[k] : k \in K})
    BY <1>2, ImageFinite
  <2>2. IsFiniteSet({start, end})
    <3>1. IsFiniteSet({start}) /\ IsFiniteSet({end})
      BY FS_Singleton
    <3>2. IsFiniteSet({start} \cup {end}) /\ {start, end} = {start} \cup {end}
      BY <3>1, FS_Union
    <3> QED BY <3>2
  <2>3. IsFiniteSet({start, end} \cup {l[k] : k \in K})
    BY <2>1, <2>2, FS_Union
  <2>4. IsFiniteSet({start, end} \cup {l[k] : k \in K} \cup {r[k] : k \in K})
    BY <2>1, <2>3, FS_Union
  <2> QED BY <1>1, <2>4, Zenon
<1>7. InOrderOf(p, D, Less(D)) /\ n \in Nat /\ D \in SUBSET Int
  <2>1. D \in SUBSET Int
    BY <1>5
  <2>2. Total(D, Less(D))
    BY <2>1, LessTotal
  <2>3. n \in Nat
    BY <1>6, FS_CardinalityType
  <2> QED BY <1>6, <2>1, <2>2, <2>3, RankedInOrder
<1>8. start \in D /\ end \in D
  BY <1>1
<1>9. \A i \in 1 .. n : p[i] \in D
  BY <1>7 DEF InOrderOf
<1>10. \A x \in D : \E i \in 1 .. n : p[i] = x
  BY <1>7 DEF InOrderOf
<1> HIDE DEF p, n
<1>11. /\ n >= 1 /\ p[1] = start /\ p[n] = end /\ p \in [1 .. n -> Int]
       /\ \A i, j \in 1 .. n : i < j => p[i] < p[j]
  <2>1. n = Cardinality(D)
    BY DEF n
  <2>2. \A x \in D : start <= x /\ x <= end
    BY <1>5
  <2> HIDE DEF D
  <2>3. InOrder(p, n, start, end)
    BY <1>7, <1>8, <2>1, <2>2, OrderEnds
  <2> QED BY <2>3 DEF InOrder
<1>12. EndsAt(K, l, r, p, n)
  <2>1. \A k \in K : k \in DOMAIN I /\ l[k] < r[k] /\ l[k] \in D /\ r[k] \in D
    BY <1>1, <1>2
  <2>2. \A k \in K : l[k] \in Int /\ r[k] \in Int /\ l[k] < r[k] /\ p[1] <= l[k] /\ r[k] <= p[n]
    BY <1>3, <1>11, <2>1
  <2>3. \A k \in K : (\E i \in 1 .. n : p[i] = l[k]) /\ (\E i \in 1 .. n : p[i] = r[k])
    BY <1>10, <2>1
  <2> HIDE DEF D
  <2> QED BY <1>2, <1>7, <1>11, <2>2, <2>3, Zenon DEF EndsAt
<1>13. PICK f : SweepSteps(f, changes, start, p, n) /\ f[n] = L!Sweep(changes, start)
  <2>1. p \in [1 .. n -> D]
    BY <1>9, <1>11
  <2>2. \A t \in D : changes[t] \in Int
    <3>1. ASSUME NEW t PROVE Change(K, l, r, t) \in Int
      <4>1. IsFiniteSet({k \in K : l[k] = t}) /\ IsFiniteSet({k \in K : r[k] = t})
        BY <1>2, FS_Subset
      <4>2. Cardinality({k \in K : l[k] = t}) \in Nat /\ Cardinality({k \in K : r[k] = t}) \in Nat
        BY <4>1, FS_CardinalityType
      <4> QED BY <4>2 DEF Change
    <3> QED BY <1>1, <3>1
  <2>3. p = Ranked(DOMAIN changes, Less(DOMAIN changes))
    BY DEF p
  <2>4. D \subseteq Int
    BY <1>5
  <2> QED BY <1>7, <2>1, <2>2, <2>3, <2>4, SweepStepwise
<1> DEFINE s == f[n]
<1>14. SweepEnded(s, K, l, r, start, end)
  <2>1. SweepSteps(f, changes, p[1], p, n) /\ p[1] < p[n]
    BY <1>11, <1>13
  <2>2. \A i \in 1 .. n : changes[p[i]] = Change(K, l, r, p[i])
    BY <1>1, <1>9
  <2>3. SweepEnded(f[n], K, l, r, p[1], p[n])
    BY <1>12, <2>1, <2>2, SweepIs
  <2> QED BY <1>11, <2>3
<1> HIDE DEF s, D
<1>15. ASSUME NEW t \in start .. end - 1 PROVE OpenAt(K, l, r, t) = L!Covering(I, t)
  <2>1. ASSUME NEW k \in DOMAIN I
        PROVE  (I[k].left <= t /\ t < I[k].right) <=> (l[k] < r[k] /\ l[k] <= t /\ t < r[k])
    <3>1. t \in Int /\ start <= t /\ t < end
      OBVIOUS
    <3> QED BY <1>3, <3>1
  <2>2. {k \in K : l[k] <= t /\ t < r[k]} = {k \in DOMAIN I : I[k].left <= t /\ t < I[k].right}
    BY <1>2, <2>1
  <2> QED BY <2>2, CountsAlike, Zenon DEF OpenAt, L!Covering
<1>16. s.area = CoverTotal(I, start .. end - 1)
  <2> DEFINE cov == Opened(K, l, r, start, end)
             S == start .. end - 1
  <2>1. \A t \in S : cov[t] = L!Covering(I, t)
    BY <1>15 DEF Opened
  <2>2. IsFiniteSet(S)
    BY FS_Interval
  <2> HIDE DEF cov, S
  <2>3. CoverTotal(I, S) = Sum(cov, S)
    BY <2>1, <2>2, CoverTotalIs
  <2> QED BY <1>14, <2>3 DEF SweepEnded, cov, S
<1>17. TimelineIs(s, I, start, end)
  <2>1. \A t \in start .. end - 1 : L!Covering(I, t) <= s.peak
    BY <1>14, <1>15 DEF SweepEnded
  <2>2. \E t \in start .. end - 1 : L!Covering(I, t) = s.peak
    BY <1>14, <1>15 DEF SweepEnded
  <2> QED BY <1>14, <1>16, <2>1, <2>2, Zenon DEF SweepEnded, TimelineIs
<1> QED BY <1>4, <1>13, <1>17, Zenon DEF s

-----------------------------------------------------------------------------
(* Window: the peak over the marks where tasks begin and end                *)
Idle == [active |-> 0, peak |-> 0]
PeakStep(s, m) == [active |-> s.active + m[2], peak |-> L!Max({s.peak, s.active + m[2]})]
Peaking(g, marks) ==
  g = [s \in SUBSET DOMAIN marks |->
         IF s = {} THEN Idle ELSE PeakStep(g[s \ {Greatest(s)}], marks[Greatest(s)])]
Peaked(marks) == CHOOSE g : Peaking(g, marks)
PeakSteps(f, marks, n) == f[0] = Idle /\ \A k \in 1 .. n : f[k] = PeakStep(f[k - 1], marks[k])
PeakOf(marks) == L!FoldLeft(PeakStep, Idle, marks).peak

LEMMA PeakStepwise ==
  ASSUME NEW n \in Nat, NEW marks \in [1 .. n -> Row]
  PROVE  \E f : PeakSteps(f, marks, n) /\ f[n].peak = PeakOf(marks)
<1> DEFINE V == [active : Int, peak : Int]
           step == [x \in (1 .. n) \X V |-> PeakStep(x[2], marks[x[1]])]
           g == Peaked(marks)
<1>1. step \in [(1 .. n) \X V -> V]
  <2>1. ASSUME NEW x \in (1 .. n) \X V PROVE PeakStep(x[2], marks[x[1]]) \in V
    <3> DEFINE s == x[2]
               m == marks[x[1]]
               a == s.active + m[2]
    <3>1. s.active \in Int /\ s.peak \in Int /\ m[2] \in Int
      BY DEF Row
    <3>2. a \in Int
      <4> HIDE DEF s, m
      <4> QED BY <3>1
    <3>3. PeakStep(s, m) = [active |-> a, peak |-> L!Max({s.peak, a})]
      BY DEF PeakStep
    <3> HIDE DEF s, m, a
    <3>4. L!Max({s.peak, a}) \in Int
      BY <3>1, <3>2, LargerOf
    <3>5. PeakStep(s, m) \in V
      BY <3>2, <3>3, <3>4
    <3> QED BY <3>5 DEF s, m
  <2> QED BY <2>1
<1>2. Idle \in V
  BY DEF Idle
<1>3. PICK h \in [SUBSET (1 .. n) -> V] : Folding(Idle, step, h, n)
  <2> HIDE DEF step, V
  <2> QED BY <1>1, <1>2, FoldsExist, Zenon
<1>4. ASSUME NEW s \in SUBSET (1 .. n), s # {}
      PROVE  step[<<Greatest(s), h[s \ {Greatest(s)}]>>] = PeakStep(h[s \ {Greatest(s)}], marks[Greatest(s)])
  <2>1. Greatest(s) \in s
    BY <1>4, GreatestIn
  <2>2. <<Greatest(s), h[s \ {Greatest(s)}]>> \in (1 .. n) \X V
    BY <2>1
  <2> QED BY <2>2
<1>5. Peaking(h, marks)
  BY <1>3, <1>4 DEF Peaking, Folding, Folded
<1>6. Peaking(g, marks)
  BY <1>5, Zenon DEF Peaked
<1>7. PeakOf(marks) = g[1 .. n].peak
  <2>1. DOMAIN marks = 1 .. n
    OBVIOUS
  <2>2. PeakOf(marks) = g[DOMAIN marks].peak
    BY Zenon DEF PeakOf, L!FoldLeft, L!MapThenFoldSet, L!Max, Greatest, Peaked, Peaking
  <2> QED BY <2>1, <2>2, Zenon
<1> HIDE DEF g
<1> DEFINE f == [k \in 0 .. n |-> g[1 .. k]]
<1>8. f[0] = Idle
  <2>1. {} \in SUBSET DOMAIN marks /\ 1 .. 0 = {} /\ 0 \in 0 .. n
    OBVIOUS
  <2> QED BY <1>6, <2>1 DEF Peaking
<1>9. ASSUME NEW k \in 1 .. n PROVE f[k] = PeakStep(f[k - 1], marks[k])
  <2>1. /\ (1 .. k) \in SUBSET DOMAIN marks /\ 1 .. k # {}
        /\ Greatest(1 .. k) = k /\ (1 .. k) \ {k} = 1 .. k - 1
    BY Segments
  <2>2. k \in 0 .. n /\ k - 1 \in 0 .. n
    OBVIOUS
  <2> QED BY <1>6, <2>1, <2>2 DEF Peaking
<1>10. f[n] = g[1 .. n]
  OBVIOUS
<1> HIDE DEF f
<1>11. PeakSteps(f, marks, n)
  BY <1>8, <1>9 DEF PeakSteps
<1> QED BY <1>7, <1>10, <1>11

LEMMA PeakIs == ASSUME NEW I PROVE L!PeakInFlight(I) = PeakOf(Ranked(L!Marks(I), Earlier(L!Marks(I))))
<1>1. \A S : L!Earlier(S) = Earlier(S)
  BY Zenon DEF L!Earlier, Earlier, L!Precedes, Precedes
<1> QED BY <1>1, RankedAlike, Zenon DEF L!PeakInFlight, PeakOf, Idle, PeakStep

\* The tasks that the first i marks begin and end.
Begun(I, o, i) == {k \in DOMAIN I : \E j \in 1 .. i : o[j] = <<I[k].left, 1, k>>}
Over(I, o, i) == {k \in DOMAIN I : \E j \in 1 .. i : o[j] = <<I[k].right, -1, k>>}
Flying(f, I, o, i) ==
  /\ f[i].active = Cardinality(Begun(I, o, i)) - Cardinality(Over(I, o, i))
  /\ f[i].peak \in Nat /\ \A j \in 1 .. i : f[j].active \in Int /\ f[j].active <= f[i].peak
  /\ f[i].peak = 0 \/ \E j \in 1 .. i : f[j].active = f[i].peak
Marking(o, I, n) ==
  /\ n \in Nat /\ o \in [1 .. n -> L!Marks(I)]
  /\ \A i, j \in 1 .. n : i < j => Precedes(o[i], o[j])
  /\ \A x \in L!Marks(I) : \E i \in 1 .. n : o[i] = x

LEMMA MarksAre ==
  ASSUME NEW I, NEW m \in L!Marks(I)
  PROVE  \E k \in DOMAIN I : m = <<I[k].left, 1, k>> \/ m = <<I[k].right, -1, k>>
BY DEF L!Marks

\* Who the next mark begins or ends is not yet counted.
LEMMA NextMark ==
  ASSUME NEW I, Intervals(I), NEW o, NEW n, Marking(o, I, n), NEW i \in 0 .. n - 1
  PROVE  LET a == Cardinality(Begun(I, o, i)) - Cardinality(Over(I, o, i))
             b == Cardinality(Begun(I, o, i + 1)) - Cardinality(Over(I, o, i + 1))
         IN a \in Int /\ b \in Int /\ o[i + 1][2] \in Int /\ b = a + o[i + 1][2]
<1> DEFINE A == Begun(I, o, i)
           B == Over(I, o, i)
           A1 == Begun(I, o, i + 1)
           B1 == Over(I, o, i + 1)
           m == o[i + 1]
<1>1. /\ n \in Nat /\ i \in Nat /\ i + 1 \in 1 .. n /\ m \in L!Marks(I)
      /\ \A j : j \in 1 .. i + 1 <=> j \in 1 .. i \/ j = i + 1
  BY DEF Marking
<1>2. PICK k \in DOMAIN I : m = <<I[k].left, 1, k>> \/ m = <<I[k].right, -1, k>>
  BY <1>1, MarksAre
<1>3. ASSUME NEW j \in 1 .. i PROVE o[j] # m
  <2>1. j \in 1 .. n /\ j < i + 1 /\ o[j] \in L!Marks(I)
    BY <1>1 DEF Marking
  <2>2. Precedes(o[j], m)
    BY <1>1, <2>1 DEF Marking
  <2>3. ~Precedes(m, m)
    <3>1. I[k].left \in Int /\ I[k].right \in Int /\ k \in Int
      BY DEF Intervals
    <3> HIDE DEF m
    <3> QED BY <1>2, <3>1 DEF Precedes
  <2> QED BY <2>2, <2>3
<1>4. IsFiniteSet(A) /\ IsFiniteSet(B) /\ Cardinality(A) \in Nat /\ Cardinality(B) \in Nat
  <2>1. IsFiniteSet(DOMAIN I) /\ A \subseteq DOMAIN I /\ B \subseteq DOMAIN I
    BY DEF Intervals, Begun, Over
  <2> HIDE DEF A, B
  <2>2. IsFiniteSet(A) /\ IsFiniteSet(B)
    BY <2>1, FS_Subset
  <2> QED BY <2>2, FS_CardinalityType
<1>5. /\ \A x \in DOMAIN I : x \in A1 <=> x \in A \/ m = <<I[x].left, 1, x>>
      /\ \A x \in DOMAIN I : x \in B1 <=> x \in B \/ m = <<I[x].right, -1, x>>
      /\ A \subseteq DOMAIN I /\ B \subseteq DOMAIN I /\ A1 \subseteq DOMAIN I /\ B1 \subseteq DOMAIN I
      /\ \A x \in A : \E j \in 1 .. i : o[j] = <<I[x].left, 1, x>>
      /\ \A x \in B : \E j \in 1 .. i : o[j] = <<I[x].right, -1, x>>
  BY <1>1 DEF Begun, Over
<1> HIDE DEF A, B, A1, B1, m
<1>6. CASE m = <<I[k].left, 1, k>>
  <2>1. \A x \in DOMAIN I : (m = <<I[x].left, 1, x>> <=> x = k) /\ m # <<I[x].right, -1, x>>
    BY <1>6
  <2>2. A1 = A \cup {k} /\ B1 = B
    BY <1>5, <2>1
  <2>3. k \notin A
    BY <1>3, <1>5, <1>6
  <2>4. Cardinality(A1) = Cardinality(A) + 1
    BY <1>4, <2>2, <2>3, FS_AddElement
  <2>5. m[2] = 1
    BY <1>6
  <2>6. Cardinality(B1) = Cardinality(B)
    BY <2>2
  <2> QED BY <1>4, <2>4, <2>5, <2>6 DEF A, B, A1, B1, m
<1>7. CASE m = <<I[k].right, -1, k>>
  <2>1. \A x \in DOMAIN I : (m = <<I[x].right, -1, x>> <=> x = k) /\ m # <<I[x].left, 1, x>>
    BY <1>7
  <2>2. B1 = B \cup {k} /\ A1 = A
    BY <1>5, <2>1
  <2>3. k \notin B
    BY <1>3, <1>5, <1>7
  <2>4. Cardinality(B1) = Cardinality(B) + 1
    BY <1>4, <2>2, <2>3, FS_AddElement
  <2>5. m[2] = -1
    BY <1>7
  <2>6. Cardinality(A1) = Cardinality(A)
    BY <2>2
  <2> QED BY <1>4, <2>4, <2>5, <2>6 DEF A, B, A1, B1, m
<1> QED BY <1>2, <1>6, <1>7

LEMMA PeakCounts ==
  ASSUME NEW I, Intervals(I), NEW o, NEW n, Marking(o, I, n), NEW f, PeakSteps(f, o, n)
  PROVE  \A i \in 0 .. n : Flying(f, I, o, i)
<1> DEFINE F == {i \in Nat : i <= n => Flying(f, I, o, i)}
           active(i) == Cardinality(Begun(I, o, i)) - Cardinality(Over(I, o, i))
<1>1. n \in Nat
  BY DEF Marking
<1>2. 0 \in F
  <2>1. Begun(I, o, 0) = {} /\ Over(I, o, 0) = {} /\ Cardinality({}) = 0
    BY FS_EmptySet DEF Begun, Over
  <2>2. Cardinality(Begun(I, o, 0)) = 0 /\ Cardinality(Over(I, o, 0)) = 0
    BY <2>1, Zenon
  <2>3. f[0].active = 0 /\ f[0].peak = 0
    BY DEF PeakSteps, Idle
  <2>4. Flying(f, I, o, 0)
    BY <2>2, <2>3 DEF Flying
  <2> QED BY <2>4
<1>3. ASSUME NEW i \in Nat, i \in F PROVE i + 1 \in F
  <2> SUFFICES ASSUME i + 1 <= n PROVE Flying(f, I, o, i + 1)
    OBVIOUS
  <2>1. Flying(f, I, o, i) /\ i \in 0 .. n - 1 /\ i + 1 \in 1 .. n /\ (i + 1) - 1 = i
    BY <1>1, <1>3
  <2> HIDE DEF F
  <2> DEFINE a == f[i].active
             w == o[i + 1][2]
             q == f[i].peak
             top == IF q >= a + w THEN q ELSE a + w
  <2>2. a = active(i) /\ q \in Nat
    BY <2>1 DEF Flying
  <2>3. active(i) \in Int /\ active(i + 1) \in Int /\ w \in Int /\ active(i + 1) = active(i) + w
    BY <2>1, NextMark
  <2> HIDE DEF active
  <2>4. a \in Int /\ a + w = active(i + 1)
    BY <2>2, <2>3
  <2>5. f[i + 1] = PeakStep(f[i], o[i + 1])
    BY <2>1 DEF PeakSteps
  <2>6. f[i + 1].active = a + w /\ f[i + 1].peak = L!Max({q, a + w})
    <3>1. f[i + 1] = [active |-> a + w, peak |-> L!Max({q, a + w})]
      BY <2>5, Zenon DEF PeakStep
    <3> HIDE DEF a, w, q
    <3> QED BY <3>1
  <2> DEFINE c == a + w
  <2>7. c \in Int
    BY <2>3, <2>4
  <2> HIDE DEF a, w, q
  <2>8. L!Max({q, c}) = IF q >= c THEN q ELSE c
    <3> HIDE DEF c
    <3> QED BY <2>2, <2>7, LargerOf
  <2>9. f[i + 1].active = c /\ f[i + 1].peak = top
    BY <2>6, <2>8
  <2>10. top \in Nat /\ c <= top /\ q <= top /\ (top = q \/ top = c)
    <3> HIDE DEF c
    <3>1. top = IF q >= c THEN q ELSE c
      BY DEF c
    <3> HIDE DEF top
    <3> QED BY <2>2, <2>7, <3>1
  <2>11. c = active(i + 1)
    BY <2>4
  <2> HIDE DEF c, top
  <2>12. \A j : j \in 1 .. i + 1 <=> j \in 1 .. i \/ j = i + 1
    BY <2>1
  <2>13. \A j \in 1 .. i + 1 : f[j].active \in Int /\ f[j].active <= top
    <3>1. ASSUME NEW j \in 1 .. i PROVE f[j].active \in Int /\ f[j].active <= top
      <4>1. f[j].active \in Int /\ f[j].active <= q
        BY <2>1 DEF Flying, q
      <4> QED BY <2>2, <2>10, <4>1
    <3> QED BY <2>7, <2>9, <2>10, <2>12, <3>1 DEF c
  <2>14. top = 0 \/ \E j \in 1 .. i + 1 : f[j].active = top
    <3>1. q = 0 \/ \E j \in 1 .. i : f[j].active = q
      BY <2>1 DEF Flying, q
    <3> QED BY <2>9, <2>10, <2>12, <3>1
  <2>15. f[i + 1].active = Cardinality(Begun(I, o, i + 1)) - Cardinality(Over(I, o, i + 1))
    BY <2>9, <2>11 DEF active
  <2> QED BY <2>9, <2>10, <2>13, <2>14, <2>15, Zenon DEF Flying
<1> HIDE DEF F
<1>4. \A i \in Nat : i \in F
  BY <1>2, <1>3, NatSetInduction
<1> QED BY <1>1, <1>4 DEF F

Lasting(I) == \A k \in DOMAIN I : I[k].left <= I[k].right
Entered(I, t) == {k \in DOMAIN I : I[k].left <= t}
Departed(I, t) == {k \in DOMAIN I : I[k].right <= t}

\* Who is there at t has come and has not gone.
LEMMA CoveringIs ==
  ASSUME NEW I, Intervals(I), Lasting(I), NEW t \in Int
  PROVE  /\ L!Covering(I, t) = Cardinality(Entered(I, t)) - Cardinality(Departed(I, t))
         /\ IsFiniteSet(Entered(I, t)) /\ IsFiniteSet(Departed(I, t)) /\ L!Covering(I, t) \in Nat
<1> DEFINE A == Entered(I, t)
           B == Departed(I, t)
           C == {k \in DOMAIN I : I[k].left <= t /\ t < I[k].right}
<1>1. ASSUME NEW k \in DOMAIN I PROVE I[k].left \in Int /\ I[k].right \in Int /\ I[k].left <= I[k].right
  BY DEF Intervals, Lasting
<1>2. C = A \ B /\ A \cap B = B
  BY <1>1 DEF Entered, Departed
<1>3. IsFiniteSet(A) /\ IsFiniteSet(B) /\ IsFiniteSet(C)
  <2>1. IsFiniteSet(DOMAIN I) /\ A \subseteq DOMAIN I /\ B \subseteq DOMAIN I /\ C \subseteq DOMAIN I
    BY DEF Intervals, Entered, Departed
  <2> HIDE DEF A, B, C
  <2> QED BY <2>1, FS_Subset
<1>4. L!Covering(I, t) = Cardinality(C)
  BY CountsAlike DEF L!Covering
<1> HIDE DEF A, B, C
<1>5. Cardinality(A \ B) = Cardinality(A) - Cardinality(A \cap B)
  BY <1>3, FS_Difference
<1>6. Cardinality(C) = Cardinality(A) - Cardinality(B)
  BY <1>2, <1>5, Zenon
<1>7. Cardinality(C) \in Nat
  BY <1>3, FS_CardinalityType
<1> QED BY <1>3, <1>4, <1>6, <1>7 DEF A, B

LEMMA MarksFinite == ASSUME NEW I, Intervals(I) PROVE IsFiniteSet(L!Marks(I)) /\ L!Marks(I) \in SUBSET Row
<1> DEFINE f == [k \in DOMAIN I |-> <<I[k].left, 1, k>>]
           g == [k \in DOMAIN I |-> <<I[k].right, -1, k>>]
<1>1. L!Marks(I) = {f[k] : k \in DOMAIN I} \cup {g[k] : k \in DOMAIN I}
  <2>1. {f[k] : k \in DOMAIN I} = {<<I[k].left, 1, k>> : k \in DOMAIN I}
    BY Zenon
  <2>2. {g[k] : k \in DOMAIN I} = {<<I[k].right, -1, k>> : k \in DOMAIN I}
    BY Zenon
  <2> HIDE DEF f, g
  <2> QED BY <2>1, <2>2 DEF L!Marks
<1> HIDE DEF f, g
<1>2. IsFiniteSet({f[k] : k \in DOMAIN I}) /\ IsFiniteSet({g[k] : k \in DOMAIN I})
  <2>1. IsFiniteSet(DOMAIN I)
    BY DEF Intervals
  <2> QED BY <2>1, ImageFinite
<1>3. IsFiniteSet(L!Marks(I))
  BY <1>1, <1>2, FS_Union
<1>4. L!Marks(I) \in SUBSET Row
  <2>1. ASSUME NEW m \in L!Marks(I) PROVE m \in Row
    <3>1. PICK k \in DOMAIN I : m = <<I[k].left, 1, k>> \/ m = <<I[k].right, -1, k>>
      BY MarksAre
    <3>2. I[k].left \in Int /\ I[k].right \in Int /\ k \in Int
      BY DEF Intervals
    <3> QED BY <3>1, <3>2 DEF Row
  <2> QED BY <2>1
<1> QED BY <1>3, <1>4

\* After a mark no more tasks are under way than cover a second.
LEMMA MarkCovered ==
  ASSUME NEW I, Intervals(I), Lasting(I), NEW o, NEW n, Marking(o, I, n), NEW i \in 1 .. n
  PROVE  \E t \in Int : Cardinality(Begun(I, o, i)) - Cardinality(Over(I, o, i)) <= L!Covering(I, t)
<1>0. n \in Nat /\ o[i] \in L!Marks(I)
  BY DEF Marking
<1>1. PICK k \in DOMAIN I : o[i] = <<I[k].left, 1, k>> \/ o[i] = <<I[k].right, -1, k>>
  BY <1>0, MarksAre
<1>2. ASSUME NEW x \in DOMAIN I PROVE I[x].left \in Int /\ I[x].right \in Int /\ x \in Int
  BY DEF Intervals
<1>3. ASSUME NEW j \in 1 .. n PROVE j = i \/ (j < i /\ Precedes(o[j], o[i])) \/ (i < j /\ Precedes(o[i], o[j]))
  <2>1. j = i \/ j < i \/ i < j
    OBVIOUS
  <2> QED BY <2>1 DEF Marking
<1>4. PICK t \in Int : (o[i] = <<t, 1, k>>) \/ (o[i] = <<t + 1, -1, k>>)
  <2>1. CASE o[i] = <<I[k].left, 1, k>>
    BY <1>2, <2>1
  <2>2. CASE o[i] = <<I[k].right, -1, k>>
    <3> DEFINE u == I[k].right - 1
    <3>1. u \in Int /\ u + 1 = I[k].right
      BY <1>2
    <3> HIDE DEF u
    <3> QED BY <2>2, <3>1
  <2> QED BY <1>1, <2>1, <2>2
<1>5. Begun(I, o, i) \subseteq Entered(I, t)
  <2>1. ASSUME NEW x \in DOMAIN I, NEW j \in 1 .. i, o[j] = <<I[x].left, 1, x>> PROVE I[x].left <= t
    <3>1. j \in 1 .. n /\ ~(i < j)
      BY <1>0
    <3>2. j = i \/ Precedes(o[j], o[i])
      BY <1>3, <3>1
    <3>3. CASE j = i
      BY <1>2, <1>4, <2>1, <3>3
    <3>4. CASE Precedes(o[j], o[i])
      BY <1>2, <1>4, <2>1, <3>4 DEF Precedes
    <3> QED BY <3>2, <3>3, <3>4
  <2> QED BY <2>1 DEF Begun, Entered
<1>6. Departed(I, t) \subseteq Over(I, o, i)
  <2>1. ASSUME NEW x \in DOMAIN I, I[x].right <= t PROVE \E j \in 1 .. i : o[j] = <<I[x].right, -1, x>>
    <3>1. <<I[x].right, -1, x>> \in L!Marks(I)
      BY DEF L!Marks
    <3>2. PICK j \in 1 .. n : o[j] = <<I[x].right, -1, x>>
      BY <3>1 DEF Marking
    <3>3. ~Precedes(o[i], o[j])
      BY <1>2, <1>4, <2>1, <3>2 DEF Precedes
    <3>4. j \in 1 .. i
      BY <1>0, <1>3, <3>3
    <3> QED BY <3>2, <3>4
  <2> QED BY <2>1 DEF Departed, Over
<1>7. /\ IsFiniteSet(Entered(I, t)) /\ IsFiniteSet(Departed(I, t)) /\ IsFiniteSet(Over(I, o, i))
      /\ L!Covering(I, t) = Cardinality(Entered(I, t)) - Cardinality(Departed(I, t))
  <2>1. IsFiniteSet(DOMAIN I) /\ Over(I, o, i) \subseteq DOMAIN I
    BY DEF Intervals, Over
  <2> QED BY <2>1, CoveringIs, FS_Subset
<1>8. /\ IsFiniteSet(Begun(I, o, i)) /\ Cardinality(Begun(I, o, i)) <= Cardinality(Entered(I, t))
      /\ Cardinality(Departed(I, t)) <= Cardinality(Over(I, o, i))
  BY <1>5, <1>6, <1>7, FS_Subset
<1>9. /\ Cardinality(Begun(I, o, i)) \in Nat /\ Cardinality(Entered(I, t)) \in Nat
      /\ Cardinality(Departed(I, t)) \in Nat /\ Cardinality(Over(I, o, i)) \in Nat
  BY <1>7, <1>8, FS_CardinalityType
<1> QED BY <1>7, <1>8, <1>9

\* And every second that is covered is counted after some mark.
LEMMA CoveredMark ==
  ASSUME NEW I, Intervals(I), Lasting(I), NEW o, NEW n, Marking(o, I, n), NEW t \in Int, L!Covering(I, t) > 0
  PROVE  \E i \in 1 .. n : Cardinality(Begun(I, o, i)) - Cardinality(Over(I, o, i)) = L!Covering(I, t)
<1> DEFINE J == {j \in 1 .. n : o[j][1] <= t}
           i == Greatest(J)
<1>1. /\ n \in Nat /\ \A j \in 1 .. n : o[j] \in L!Marks(I) /\ o[j][1] \in Int
  <2>1. n \in Nat /\ \A j \in 1 .. n : o[j] \in L!Marks(I)
    BY DEF Marking
  <2>2. \A m \in L!Marks(I) : m[1] \in Int
    BY MarksFinite DEF Row
  <2> QED BY <2>1, <2>2
<1>2. ASSUME NEW x \in DOMAIN I
      PROVE  /\ I[x].left \in Int /\ I[x].right \in Int
             /\ \E j \in 1 .. n : o[j] = <<I[x].left, 1, x>>
             /\ \E j \in 1 .. n : o[j] = <<I[x].right, -1, x>>
  <2>1. <<I[x].left, 1, x>> \in L!Marks(I) /\ <<I[x].right, -1, x>> \in L!Marks(I)
    BY DEF L!Marks
  <2>2. \A m \in L!Marks(I) : \E j \in 1 .. n : o[j] = m
    BY Zenon DEF Marking
  <2>3. I[x].left \in Int /\ I[x].right \in Int
    BY DEF Intervals
  <2> QED BY <2>1, <2>2, <2>3
<1>3. /\ L!Covering(I, t) = Cardinality(Entered(I, t)) - Cardinality(Departed(I, t))
      /\ IsFiniteSet(Entered(I, t)) /\ IsFiniteSet(Departed(I, t))
  BY CoveringIs
<1>4. Entered(I, t) # {}
  <2>1. SUFFICES ASSUME Entered(I, t) = {} PROVE FALSE
    OBVIOUS
  <2>2. Cardinality(Entered(I, t)) = 0 /\ Cardinality(Departed(I, t)) \in Nat
    BY <1>3, <2>1, FS_EmptySet, FS_CardinalityType
  <2> QED BY <1>3, <2>2
<1>5. J \in SUBSET (1 .. n) /\ J # {}
  <2>1. PICK x \in DOMAIN I : I[x].left <= t
    BY <1>4 DEF Entered
  <2>2. PICK j \in 1 .. n : o[j] = <<I[x].left, 1, x>>
    BY <1>2
  <2>3. j \in J
    BY <2>1, <2>2
  <2> QED BY <2>3
<1> HIDE DEF J
<1>6. i \in J /\ \A j \in J : j <= i
  BY <1>1, <1>5, GreatestIn
<1> HIDE DEF i
<1>7. i \in 1 .. n /\ o[i][1] <= t /\ o[i][1] \in Int
  BY <1>1, <1>6 DEF J
<1>8. ASSUME NEW j \in 1 .. n PROVE j \in 1 .. i <=> o[j][1] <= t
  <2>1. CASE j \in 1 .. i
    <3>1. j = i \/ j < i
      BY <1>1, <1>7, <2>1
    <3>2. j = i \/ Precedes(o[j], o[i])
      BY <1>7, <3>1 DEF Marking
    <3>3. o[j][1] <= o[i][1]
      BY <1>1, <1>7, <3>2 DEF Precedes
    <3> QED BY <1>1, <1>7, <2>1, <3>3
  <2>2. CASE o[j][1] <= t
    <3>1. j <= i
      BY <1>6, <2>2 DEF J
    <3> QED BY <1>7, <2>2, <3>1
  <2> QED BY <2>1, <2>2
<1>9. \A j \in 1 .. i : j \in 1 .. n
  BY <1>1, <1>7
<1>10. Begun(I, o, i) = Entered(I, t)
  <2>1. ASSUME NEW x \in DOMAIN I PROVE (\E j \in 1 .. i : o[j] = <<I[x].left, 1, x>>) <=> I[x].left <= t
    <3>1. \A j : o[j] = <<I[x].left, 1, x>> => o[j][1] = I[x].left
      OBVIOUS
    <3> QED BY <1>2, <1>8, <1>9, <3>1
  <2> QED BY <2>1 DEF Begun, Entered
<1>11. Over(I, o, i) = Departed(I, t)
  <2>1. ASSUME NEW x \in DOMAIN I PROVE (\E j \in 1 .. i : o[j] = <<I[x].right, -1, x>>) <=> I[x].right <= t
    <3>1. \A j : o[j] = <<I[x].right, -1, x>> => o[j][1] = I[x].right
      OBVIOUS
    <3> QED BY <1>2, <1>8, <1>9, <3>1
  <2> QED BY <2>1 DEF Over, Departed
<1> QED BY <1>3, <1>7, <1>10, <1>11, Zenon

LEMMA PeaksAgree ==
  ASSUME NEW I, Intervals(I), Lasting(I), NEW last \in Int, \A k \in DOMAIN I : I[k].right <= last,
         NEW s, TimelineIs(s, I, 0, last)
  PROVE  L!PeakInFlight(I) = s.peak
<1> DEFINE S == L!Marks(I)
           o == Ranked(S, Earlier(S))
           n == Cardinality(S)
<1>1. IsFiniteSet(S) /\ S \in SUBSET Row
  BY MarksFinite
<1>2. L!PeakInFlight(I) = PeakOf(o)
  BY PeakIs
<1>3. InOrderOf(o, S, Earlier(S))
  <2> HIDE DEF S
  <2>1. Total(S, Earlier(S))
    BY <1>1, EarlierTotal DEF Row
  <2> QED BY <1>1, <2>1, RankedInOrder
<1>4. n \in Nat
  BY <1>1, FS_CardinalityType
<1> HIDE DEF o, n
<1>5. Marking(o, I, n)
  <2>1. \A i, j \in 1 .. n : i < j => Precedes(o[i], o[j])
    BY <1>3 DEF InOrderOf, Earlier, n
  <2>2. o \in [1 .. n -> S] /\ \A x \in S : \E i \in 1 .. n : o[i] = x
    BY <1>3 DEF InOrderOf, n
  <2> QED BY <1>4, <2>1, <2>2 DEF Marking
<1> HIDE DEF S
<1>6. o \in [1 .. n -> Row]
  <2>1. o \in [1 .. n -> S]
    BY <1>3 DEF InOrderOf, n
  <2> QED BY <1>1, <2>1
<1>7. PICK f : PeakSteps(f, o, n) /\ f[n].peak = PeakOf(o)
  BY <1>4, <1>6, PeakStepwise
<1>8. \A i \in 0 .. n : Flying(f, I, o, i)
  BY <1>5, <1>7, PeakCounts
<1>9. /\ f[n].peak \in Nat /\ \A j \in 1 .. n : f[j].active \in Int /\ f[j].active <= f[n].peak
      /\ f[n].peak = 0 \/ \E j \in 1 .. n : f[j].active = f[n].peak
  <2>1. n \in 0 .. n
    BY <1>4
  <2>2. Flying(f, I, o, n)
    BY <1>8, <2>1
  <2> QED BY <2>2 DEF Flying
<1>10. \A j \in 1 .. n : f[j].active = Cardinality(Begun(I, o, j)) - Cardinality(Over(I, o, j))
  <2>1. \A j \in 1 .. n : j \in 0 .. n
    BY <1>4
  <2> QED BY <1>8, <2>1, Zenon DEF Flying
<1>11. PICK at \in 0 .. last - 1 : L!Covering(I, at) = s.peak
  BY DEF TimelineIs
<1>12. s.peak \in Nat
  <2>1. L!Covering(I, at) \in Nat
    BY CoveringIs
  <2> QED BY <1>11, <2>1
<1>13. ASSUME NEW t \in Int PROVE L!Covering(I, t) <= s.peak
  <2>1. CASE t \in 0 .. last - 1
    BY <2>1 DEF TimelineIs
  <2>2. CASE t \notin 0 .. last - 1
    <3>1. ASSUME NEW k \in DOMAIN I PROVE ~(I[k].left <= t /\ t < I[k].right)
      <4>1. I[k].left \in Nat /\ I[k].right \in Int /\ I[k].right <= last
        BY DEF Intervals
      <4> QED BY <2>2, <4>1
    <3>2. {k \in DOMAIN I : I[k].left <= t /\ t < I[k].right} = {}
      BY <3>1
    <3>3. Cardinality({}) = 0
      BY FS_EmptySet
    <3>4. L!Covering(I, t) = 0
      BY <3>2, <3>3, CountsAlike, Zenon DEF L!Covering
    <3> QED BY <1>12, <3>4
  <2> QED BY <2>1, <2>2
<1>14. f[n].peak <= s.peak
  <2>1. ASSUME NEW j \in 1 .. n PROVE f[j].active <= s.peak
    <3>1. PICK t \in Int : Cardinality(Begun(I, o, j)) - Cardinality(Over(I, o, j)) <= L!Covering(I, t)
      BY <1>5, MarkCovered
    <3>2. L!Covering(I, t) \in Nat /\ L!Covering(I, t) <= s.peak
      BY <1>13, CoveringIs
    <3>3. f[j].active <= L!Covering(I, t) /\ f[j].active \in Int
      BY <1>9, <1>10, <3>1
    <3> QED BY <1>12, <3>2, <3>3
  <2> QED BY <1>9, <1>12, <2>1
<1>15. s.peak <= f[n].peak
  <2>1. CASE s.peak = 0
    BY <1>9, <2>1
  <2>2. CASE s.peak # 0
    <3>1. at \in Int /\ L!Covering(I, at) > 0
      BY <1>11, <1>12, <2>2
    <3>2. PICK i \in 1 .. n : Cardinality(Begun(I, o, i)) - Cardinality(Over(I, o, i)) = L!Covering(I, at)
      BY <1>5, <3>1, CoveredMark
    <3>3. f[i].active = s.peak
      BY <1>10, <1>11, <3>2
    <3> QED BY <1>9, <3>3
  <2> QED BY <2>1, <2>2
<1>16. f[n].peak = s.peak
  BY <1>9, <1>12, <1>14, <1>15
<1> QED BY <1>2, <1>7, <1>16

LEMMA MaxOf ==
  ASSUME NEW S, IsFiniteSet(S), S \subseteq Int, S # {} PROVE L!Max(S) \in S /\ \A y \in S : y <= L!Max(S)
<1>1. \E x \in S : \A y \in S : x >= y
  BY GreatestOf
<1>2. L!Max(S) \in S /\ \A y \in S : L!Max(S) >= y
  BY <1>1, Zenon DEF L!Max
<1> QED BY <1>2

LEMMA MaxUnique ==
  ASSUME NEW S, S \subseteq Int, NEW x \in S, \A y \in S : y <= x PROVE L!Max(S) = x
<1>1. \A y \in S : x >= y
  OBVIOUS
<1>2. L!Max(S) \in S /\ \A y \in S : L!Max(S) >= y
  BY <1>1, Zenon DEF L!Max
<1>3. L!Max(S) \in Int /\ x \in Int /\ L!Max(S) >= x /\ L!Max(S) <= x
  BY <1>2
<1> QED BY <1>3

IsLast(last, I, end) == last \in Int /\ end <= last /\ \A k \in DOMAIN I : I[k].right <= last

LEMMA LastOf ==
  ASSUME NEW I, Intervals(I), NEW end \in Int
  PROVE  IsLast(L!Max({end} \cup {I[k].right : k \in DOMAIN I}), I, end)
<1> DEFINE f == [k \in DOMAIN I |-> I[k].right]
           S == {end} \cup {f[k] : k \in DOMAIN I}
<1>1. S = {end} \cup {I[k].right : k \in DOMAIN I}
  <2>1. {f[k] : k \in DOMAIN I} = {I[k].right : k \in DOMAIN I}
    BY Zenon
  <2> QED BY <2>1, Zenon
<1>2. \A k \in DOMAIN I : f[k] = I[k].right /\ f[k] \in Int
  BY DEF Intervals
<1> HIDE DEF f
<1>3. IsFiniteSet(S)
  <2>1. IsFiniteSet({f[k] : k \in DOMAIN I})
    BY ImageFinite DEF Intervals
  <2>2. IsFiniteSet({end})
    BY FS_Singleton
  <2> QED BY <2>1, <2>2, FS_Union
<1>4. S \subseteq Int /\ end \in S /\ \A k \in DOMAIN I : I[k].right \in S
  BY <1>2
<1> HIDE DEF S
<1>5. L!Max(S) \in S /\ \A y \in S : y <= L!Max(S)
  BY <1>3, <1>4, MaxOf
<1>6. L!Max(S) \in Int /\ end <= L!Max(S) /\ \A k \in DOMAIN I : I[k].right <= L!Max(S)
  BY <1>4, <1>5
<1> QED BY <1>1, <1>6, Zenon DEF IsLast

LEMMA TimelinesExact ==
  ASSUME NEW I, Intervals(I), Lasting(I), NEW start \in Nat, NEW end \in Nat, start < end
  PROVE  L!TimelineExact(I, start, end)
<1> DEFINE s == L!Timeline(I, start, end)
           last == L!Max({end} \cup {I[k].right : k \in DOMAIN I})
           C == {L!Covering(I, t) : t \in L!Seconds(start, end)}
<1>1. TimelineIs(s, I, start, end)
  BY TimelineSwept
<1>2. s.active = 0
  BY <1>1 DEF TimelineIs
<1>3. s.area = L!MapThenSumSet(LAMBDA t : L!Covering(I, t), L!Seconds(start, end))
  <2>1. L!Seconds(start, end) = start .. end - 1
    BY DEF L!Seconds
  <2>2. s.area = CoverTotal(I, start .. end - 1)
    BY <1>1 DEF TimelineIs
  <2> QED BY <2>1, <2>2, Zenon DEF CoverTotal
<1>4. s.peak = L!Max(C)
  <2>1. \A t \in start .. end - 1 : L!Covering(I, t) \in Nat
    BY CoveringIs
  <2>2. \A t \in start .. end - 1 : L!Covering(I, t) <= s.peak
    BY <1>1 DEF TimelineIs
  <2>3. \E t \in start .. end - 1 : L!Covering(I, t) = s.peak
    BY <1>1 DEF TimelineIs
  <2> HIDE DEF s
  <2>4. C \subseteq Int /\ s.peak \in C /\ \A y \in C : y <= s.peak
    BY <2>1, <2>2, <2>3 DEF L!Seconds
  <2> HIDE DEF C
  <2>5. L!Max(C) = s.peak
    BY <2>4, MaxUnique
  <2> QED BY <2>5
<1>5. L!PeakInFlight(I) = L!Timeline(I, 0, last).peak
  <2>1. last \in Int /\ end <= last /\ \A k \in DOMAIN I : I[k].right <= last
    <3>1. IsLast(last, I, end)
      BY LastOf
    <3> HIDE DEF last
    <3> QED BY <3>1 DEF IsLast
  <2> HIDE DEF last
  <2>2. 0 \in Int /\ 0 < last
    BY <2>1
  <2>3. TimelineIs(L!Timeline(I, 0, last), I, 0, last)
    BY <2>1, <2>2, TimelineSwept
  <2> QED BY <2>1, <2>3, PeaksAgree
<1> HIDE DEF s, C, last
<1>6. L!TimelineExact(I, start, end) <=>
        /\ s.peak = L!Max(C)
        /\ s.area = L!MapThenSumSet(LAMBDA t : L!Covering(I, t), L!Seconds(start, end))
        /\ s.active = 0 /\ L!PeakInFlight(I) = L!Timeline(I, 0, last).peak
  BY Zenon DEF L!TimelineExact, s, C, last
<1> QED BY <1>2, <1>3, <1>4, <1>5, <1>6, Zenon

-----------------------------------------------------------------------------
(* BackendLog: sums                                                         *)
LEMMA LogSum ==
  ASSUME NEW S, IsFiniteSet(S), NEW f PROVE L!Total(S, f) = Sum(f, S)
<1> DEFINE g == CHOOSE h : Sums(f, h, SUBSET S)
<1>1. Sums(f, g, SUBSET S)
  BY SumsExist, Zenon
<1>2. L!Total(S, f) = g[S]
  BY Zenon DEF L!Total, L!MapThenSumSet, L!MapThenFoldSet, Sums, Summand, Picked
<1> HIDE DEF g
<1> QED BY <1>1, <1>2, SumsUnique

\* The sums over what has the same place, place by place.
Fibers(f, S, place, N) == [i \in N |-> Sum(f, {x \in S : place[x] = i})]

LEMMA FibersAdd ==
  ASSUME NEW N, IsFiniteSet(N), NEW S, IsFiniteSet(S), NEW f, \A x \in S : f[x] \in Int,
         NEW place, \A x \in S : place[x] \in N
  PROVE  Sum(Fibers(f, S, place, N), N) = Sum(f, S)
<1> DEFINE F == {U \in SUBSET S : Sum(Fibers(f, U, place, N), N) = Sum(f, U)}
<1>0. \A U \in SUBSET S : IsFiniteSet(U) /\ \A x \in U : f[x] \in Int
  BY FS_Subset
<1>1. {} \in F
  <2>1. \A i \in N : Fibers(f, {}, place, N)[i] = 0
    <3>1. \A i \in N : {x \in {} : place[x] = i} = {}
      OBVIOUS
    <3> QED BY <3>1, SumEmpty DEF Fibers
  <2> QED BY <2>1, SumZero, SumEmpty
<1>2. ASSUME NEW U \in SUBSET S, U # {}, \A x \in U : U \ {x} \in F PROVE U \in F
  <2>1. PICK b \in U : TRUE
    BY <1>2
  <2> DEFINE old == Fibers(f, U \ {b}, place, N)
             new == Fibers(f, U, place, N)
             Of(i) == {x \in U : place[x] = i}
  <2>2. \A i \in N : new[i] = Sum(f, Of(i)) /\ old[i] = Sum(f, {x \in U \ {b} : place[x] = i})
    BY DEF Fibers
  <2>3. \A i \in N : new[i] \in Int /\ old[i] \in Int
    <3> SUFFICES ASSUME NEW i \in N PROVE new[i] \in Int /\ old[i] \in Int
      OBVIOUS
    <3> DEFINE A == Of(i)
               B == {x \in U \ {b} : place[x] = i}
    <3>1. A \in SUBSET S /\ B \in SUBSET S
      OBVIOUS
    <3>2. new[i] = Sum(f, A) /\ old[i] = Sum(f, B)
      BY <2>2
    <3> HIDE DEF A, B, new, old
    <3>3. /\ IsFiniteSet(A) /\ \A x \in A : f[x] \in Int
          /\ IsFiniteSet(B) /\ \A x \in B : f[x] \in Int
      BY <1>0, <3>1
    <3>4. Sum(f, A) \in Int /\ Sum(f, B) \in Int
      BY <3>3, SumType
    <3> QED BY <3>2, <3>4
  <2>4. ASSUME NEW i \in N \ {place[b]} PROVE new[i] = old[i]
    <3>1. Of(i) = {x \in U \ {b} : place[x] = i}
      OBVIOUS
    <3> HIDE DEF Of, new, old
    <3> QED BY <2>2, <3>1
  <2>5. place[b] \in N /\ f[b] \in Int
    BY <2>1
  <2>6. new[place[b]] = old[place[b]] + f[b]
    <3> DEFINE O == Of(place[b])
    <3>1. b \in O /\ O \in SUBSET S /\ O \ {b} = {x \in U \ {b} : place[x] = place[b]}
      BY <2>1
    <3>2. new[place[b]] = Sum(f, O) /\ old[place[b]] = Sum(f, O \ {b})
      <4> HIDE DEF new, old
      <4> QED BY <2>2, <2>5, <3>1
    <3> HIDE DEF O, new, old
    <3>3. Sum(f, O) = f[b] + Sum(f, O \ {b})
      BY <1>0, <3>1, SumTakesOut
    <3> QED BY <2>3, <2>5, <3>2, <3>3
  <2>7. Sum(old, N) = Sum(f, U \ {b})
    BY <1>2, <2>1
  <2>8. Sum(f, U) = f[b] + Sum(f, U \ {b})
    BY <1>0, <2>1, SumTakesOut
  <2>9. Sum(old, N) \in Int
    <3> HIDE DEF old, new
    <3> QED BY <2>3, SumType
  <2> HIDE DEF old, new
  <2>10. Sum(new, N) = Sum(old, N) + f[b]
    BY <2>3, <2>4, <2>5, <2>6, SumChanged
  <2>11. Sum(new, N) = Sum(f, U)
    BY <2>5, <2>7, <2>8, <2>9, <2>10
  <2> QED BY <2>11 DEF new
<1>3. S \in F
  <2> HIDE DEF F
  <2> QED BY <1>1, <1>2, SubsetInduction
<1> QED BY <1>3

\* A summand is a part of a sum of natural numbers.
LEMMA SumHas ==
  ASSUME NEW S, IsFiniteSet(S), NEW f, \A x \in S : f[x] \in Nat, NEW b \in S
  PROVE  Sum(f, S) \in Nat /\ f[b] <= Sum(f, S)
<1>1. \A x \in S : f[x] \in Int
  OBVIOUS
<1>2. Sum(f, S) = f[b] + Sum(f, S \ {b})
  BY <1>1, SumTakesOut
<1>3. IsFiniteSet(S \ {b}) /\ \A x \in S \ {b} : f[x] \in Nat
  BY FS_RemoveElement
<1>4. PICK rest \in Nat : rest = Sum(f, S \ {b})
  BY <1>3, SumNat
<1>5. f[b] \in Nat
  OBVIOUS
<1> QED BY <1>2, <1>4, <1>5

-----------------------------------------------------------------------------
(* BackendLog: busy times                                                   *)
RowFields(row) ==
  /\ row["left"] \in Nat /\ row["first"] \in Nat /\ row["right"] \in Nat
  /\ row["output"] \in Nat /\ row["prompt"] \in Nat /\ row["cached"] \in Nat
LogRows(rows) == IsFiniteSet(DOMAIN rows) /\ DOMAIN rows \subseteq Int /\ \A k \in DOMAIN rows : RowFields(rows[k])
BusyWithin(rows, from, start, end) ==
  {t \in Int : start <= t /\ t < end /\ \E k \in DOMAIN rows : rows[k][from] <= t /\ t < rows[k]["right"]}

\* Clipped to the window, requests that include all that are in it cover what all cover.
LEMMA ClippedBusy ==
  ASSUME NEW rows, LogRows(rows), NEW from \in {"left", "first"}, NEW start \in Nat, NEW end \in Nat, start < end,
         NEW A \in SUBSET DOMAIN rows,
         \A k \in DOMAIN rows : (\E t \in Int : start <= t /\ t < end /\ rows[k][from] <= t /\ t < rows[k]["right"]) => k \in A
  PROVE  L!UnionSeconds(L!Clipped(L!Span(rows, A, from), start, end)) = Cardinality(BusyWithin(rows, from, start, end))
<1> DEFINE l == [k \in A |-> rows[k][from]]
           r == [k \in A |-> rows[k]["right"]]
           I == L!Clipped(L!Span(rows, A, from), start, end)
<1>1. \A k \in A : l[k] \in Nat /\ r[k] \in Nat
  BY DEF LogRows, RowFields
<1>2. DOMAIN I = A
  BY DEF L!Clipped, L!Span
<1>3. \A k \in A : I[k].left = L!Max({l[k], start}) /\ I[k].right = L!Min({r[k], end})
  BY DEF L!Clipped, L!Span, L!Clip
<1>4. IsFiniteSet(A) /\ A \subseteq Int
  BY FS_Subset DEF LogRows
<1> HIDE DEF I
<1>5. ASSUME NEW k \in A
      PROVE  /\ I[k].left = (IF l[k] >= start THEN l[k] ELSE start)
             /\ I[k].right = (IF r[k] <= end THEN r[k] ELSE end)
  <2>1. l[k] \in Int /\ r[k] \in Int /\ start \in Int /\ end \in Int
    BY <1>1
  <2> HIDE DEF l, r
  <2>2. L!Max({l[k], start}) = (IF l[k] >= start THEN l[k] ELSE start)
    BY <2>1, LargerOf
  <2>3. L!Min({r[k], end}) = (IF r[k] <= end THEN r[k] ELSE end)
    BY <2>1, LargerOf
  <2> QED BY <1>3, <2>2, <2>3
<1>6. \A t \in Int, k \in A :
        I[k].left <= t /\ t < I[k].right <=> start <= t /\ t < end /\ l[k] <= t /\ t < r[k]
  <2> SUFFICES ASSUME NEW t \in Int, NEW k \in A
               PROVE  I[k].left <= t /\ t < I[k].right <=> start <= t /\ t < end /\ l[k] <= t /\ t < r[k]
    OBVIOUS
  <2>1. l[k] \in Int /\ r[k] \in Int
    BY <1>1
  <2> HIDE DEF l, r
  <2> QED BY <1>5, <2>1
<1>7. Intervals(I)
  <2>1. \A k \in A : I[k].left \in Nat /\ I[k].right \in Int
    <3> HIDE DEF l, r
    <3> QED BY <1>1, <1>5
  <2> QED BY <1>2, <1>4, <2>1 DEF Intervals
<1>8. Covered(I) = BusyWithin(rows, from, start, end)
  <2>1. ASSUME NEW t \in Int
        PROVE  (\E k \in DOMAIN I : I[k].left <= t /\ t < I[k].right)
                 <=> start <= t /\ t < end /\ \E k \in DOMAIN rows : rows[k][from] <= t /\ t < rows[k]["right"]
    <3>1. ASSUME NEW k \in A PROVE I[k].left <= t /\ t < I[k].right
                                     <=> start <= t /\ t < end /\ rows[k][from] <= t /\ t < rows[k]["right"]
      BY <1>6
    <3> QED BY <1>2, <3>1
  <2> QED BY <2>1 DEF Covered, BusyWithin
<1>9. L!UnionSeconds(I) = Cardinality(Covered(I))
  BY <1>7, UnionCounts
<1> QED BY <1>8, <1>9 DEF I

\* Unclipped, they cover what is in a window around all of them.
LEMMA WholeBusy ==
  ASSUME NEW rows, LogRows(rows), NEW from \in {"left", "first"}, NEW start \in Nat, NEW end \in Nat,
         \A k \in DOMAIN rows : start <= rows[k][from] /\ rows[k]["right"] < end
  PROVE  L!UnionSeconds(L!Span(rows, DOMAIN rows, from)) = Cardinality(BusyWithin(rows, from, start, end))
<1> DEFINE I == L!Span(rows, DOMAIN rows, from)
<1>1. DOMAIN I = DOMAIN rows /\ \A k \in DOMAIN rows : I[k].left = rows[k][from] /\ I[k].right = rows[k]["right"]
  BY DEF L!Span
<1> HIDE DEF I
<1>2. \A k \in DOMAIN rows : rows[k][from] \in Nat /\ rows[k]["right"] \in Nat
  BY DEF LogRows, RowFields
<1>3. Intervals(I)
  BY <1>1, <1>2 DEF Intervals, LogRows
<1>4. Covered(I) = BusyWithin(rows, from, start, end)
  <2>1. ASSUME NEW t \in Int, NEW k \in DOMAIN rows, rows[k][from] <= t, t < rows[k]["right"]
        PROVE  start <= t /\ t < end
    BY <1>2, <2>1
  <2> QED BY <1>1, <2>1 DEF Covered, BusyWithin
<1> QED BY <1>3, <1>4, UnionCounts DEF I

-----------------------------------------------------------------------------
(* BackendLog: what the hook writes                                         *)
Request(r) ==
  /\ r.chunks \in Seq([at : Nat, count : Nat]) /\ r.scheduled \in Nat /\ r.prompt \in Nat /\ r.cached \in Nat
  /\ \A i, j \in DOMAIN r.chunks : i <= j => r.chunks[i].at <= r.chunks[j].at
Requested(R) == IsFiniteSet(DOMAIN R) /\ DOMAIN R \subseteq Int /\ \A k \in DOMAIN R : Request(R[k])

\* The chunks with tokens.
Sending(r) == {j \in DOMAIN r.chunks : r.chunks[j].count > 0}
ChunksOf(r) ==
  /\ Len(r.chunks) \in Nat /\ DOMAIN r.chunks = 1 .. Len(r.chunks)
  /\ \A i \in 1 .. Len(r.chunks) : r.chunks[i].at \in Nat /\ r.chunks[i].count \in Nat

LEMMA ChunksAre == ASSUME NEW r, Request(r) PROVE ChunksOf(r)
<1> DEFINE V == [at : Nat, count : Nat]
           c == r.chunks
<1>1. c \in Seq(V)
  BY DEF Request
<1> HIDE DEF V, c
<1>2. Len(c) \in Nat /\ DOMAIN c = 1 .. Len(c) /\ \A i \in 1 .. Len(c) : c[i] \in V
  BY <1>1
<1>3. \A x \in V : x.at \in Nat /\ x.count \in Nat
  BY DEF V
<1> QED BY <1>2, <1>3 DEF ChunksOf, c

LEMMA MinOf == ASSUME NEW S, S \subseteq Nat, S # {} PROVE L!Min(S) \in S /\ \A y \in S : L!Min(S) <= y
<1>1. \E x \in S : \A y \in S : x <= y
  BY Least
<1> QED BY <1>1, Zenon DEF L!Min

\* The tokens of a request and those before a chunk are sums of its counts.
LEMMA TokensAre ==
  ASSUME NEW r, Request(r), NEW m \in 0 .. Len(r.chunks)
  PROVE  /\ IsFiniteSet(1 .. m) /\ \A i \in 1 .. m : L!Counts(r)[i] = r.chunks[i].count /\ L!Counts(r)[i] \in Nat
         /\ L!Total(1 .. m, L!Counts(r)) \in Nat
         /\ (L!Total(1 .. m, L!Counts(r)) = 0) <=> \A i \in 1 .. m : ~(r.chunks[i].count > 0)
<1> DEFINE c == L!Counts(r)
           sum == L!Total(1 .. m, c)
<1>1. m \in Int /\ \A i \in 1 .. m : i \in DOMAIN r.chunks /\ r.chunks[i].count \in Nat
  BY ChunksAre DEF ChunksOf
<1>2. \A i \in 1 .. m : c[i] = r.chunks[i].count /\ c[i] \in Nat
  BY <1>1 DEF L!Counts
<1> HIDE DEF c
<1>3. IsFiniteSet(1 .. m)
  BY <1>1, FS_Interval
<1>4. sum = Sum(c, 1 .. m)
  BY <1>3, LogSum
<1>5. Sum(c, 1 .. m) \in Nat
  BY <1>2, <1>3, SumNat
<1>6. ASSUME \A i \in 1 .. m : ~(r.chunks[i].count > 0) PROVE Sum(c, 1 .. m) = 0
  <2>1. \A i \in 1 .. m : c[i] = 0
    BY <1>2, <1>6
  <2> QED BY <1>3, <2>1, SumZero
<1>7. ASSUME NEW i \in 1 .. m, r.chunks[i].count > 0 PROVE Sum(c, 1 .. m) # 0
  <2>1. c[i] <= Sum(c, 1 .. m)
    BY <1>2, <1>3, SumHas
  <2> QED BY <1>2, <1>5, <1>7, <2>1
<1> HIDE DEF sum
<1>8. sum \in Nat /\ (sum = 0 <=> \A i \in 1 .. m : ~(r.chunks[i].count > 0))
  BY <1>4, <1>5, <1>6, <1>7, Zenon
<1> QED BY <1>2, <1>3, <1>8 DEF c, sum

\* first and last are the chunks with tokens that come first and last.
FirstAndLast(r, first, last) ==
  /\ first \in Sending(r) /\ last \in Sending(r) /\ \A i \in Sending(r) : first <= i /\ i <= last
  /\ L!First(r) = r.chunks[first].at /\ L!LastAt(r) = r.chunks[last].at

LEMMA FirstAndLastAre ==
  ASSUME NEW r, Request(r), Sending(r) # {} PROVE \E first, last \in Sending(r) : FirstAndLast(r, first, last)
<1> DEFINE I == {i \in 1 .. Len(r.chunks) : r.chunks[i].count > 0}
<1>1. I = Sending(r) /\ IsFiniteSet(1 .. Len(r.chunks))
  <2>1. Len(r.chunks) \in Nat /\ DOMAIN r.chunks = 1 .. Len(r.chunks)
    BY ChunksAre DEF ChunksOf
  <2>2. IsFiniteSet(1 .. Len(r.chunks))
    BY <2>1, FS_Interval
  <2> QED BY <2>1, <2>2, Zenon DEF Sending
<1>2. I \subseteq Nat /\ I # {} /\ I \subseteq Int /\ IsFiniteSet(I)
  <2>1. IsFiniteSet(I)
    BY <1>1, FS_Subset
  <2> QED BY <1>1, <2>1
<1>3. L!First(r) = r.chunks[IF I # {} THEN L!Min(I) ELSE 0].at
  BY Zenon DEF L!First, L!SelectInSeq
<1>4. L!LastAt(r) = r.chunks[IF I # {} THEN L!Max(I) ELSE 0].at
  BY Zenon DEF L!LastAt, L!SelectLastInSeq
<1> HIDE DEF I
<1>5. L!Min(I) \in I /\ \A y \in I : L!Min(I) <= y
  BY <1>2, MinOf
<1>6. L!Max(I) \in I /\ \A y \in I : y <= L!Max(I)
  BY <1>2, MaxOf
<1>7. FirstAndLast(r, L!Min(I), L!Max(I))
  BY <1>1, <1>2, <1>3, <1>4, <1>5, <1>6 DEF FirstAndLast
<1> QED BY <1>1, <1>5, <1>6, <1>7

\* Exactly one chunk with tokens is the first.
LEMMA FirstGenerated ==
  ASSUME NEW r, Request(r), NEW first, NEW last, FirstAndLast(r, first, last), NEW i \in Sending(r)
  PROVE  L!Generated(r, i) = 0 <=> i = first
<1>1. first \in 1 .. Len(r.chunks) /\ i \in 1 .. Len(r.chunks) /\ first <= i /\ Len(r.chunks) \in Nat
  BY ChunksAre DEF FirstAndLast, Sending, ChunksOf
<1>2. i - 1 \in 0 .. Len(r.chunks)
  BY <1>1
<1>3. L!Total(1 .. i - 1, L!Counts(r)) = 0 <=> \A j \in 1 .. i - 1 : ~(r.chunks[j].count > 0)
  BY <1>2, TokensAre
<1>4. ASSUME i # first PROVE first \in 1 .. i - 1 /\ r.chunks[first].count > 0
  BY <1>1, <1>4 DEF FirstAndLast, Sending
<1>5. ASSUME i = first, NEW j \in 1 .. i - 1 PROVE ~(r.chunks[j].count > 0)
  <2>1. j \in DOMAIN r.chunks /\ ~(first <= j)
    BY <1>1, <1>5, ChunksAre DEF ChunksOf
  <2> QED BY <2>1 DEF FirstAndLast, Sending
<1> QED BY <1>3, <1>4, <1>5 DEF L!Generated

-----------------------------------------------------------------------------
(* BackendLog: the events                                                   *)
EventOf(R, k, i) ==
  [request_id |-> k, chunk |-> i, at |-> R[k].chunks[i].at, output |-> R[k].chunks[i].count,
   decode |-> R[k].chunks[i].count - (IF L!Generated(R[k], i) = 0 THEN 1 ELSE 0)]
EventsOf(E, R) ==
  /\ IsFiniteSet(E)
  /\ \A e \in E : /\ e.request_id \in DOMAIN R /\ e.chunk \in Sending(R[e.request_id])
                  /\ e = EventOf(R, e.request_id, e.chunk)
  /\ \A k \in DOMAIN R : \A i \in Sending(R[k]) : EventOf(R, k, i) \in E

LEMMA EventsAre == ASSUME NEW R, Requested(R) PROVE EventsOf(L!TokenEvents(R), R)
<1> DEFINE Sent(k) == {EventOf(R, k, i) : i \in Sending(R[k])}
           all == {Sent(k) : k \in DOMAIN R}
           E == L!TokenEvents(R)
<1>1. E = UNION all
  BY Zenon DEF L!TokenEvents, EventOf, Sending
<1>2. ASSUME NEW k \in DOMAIN R PROVE IsFiniteSet(Sent(k))
  <2>1. IsFiniteSet(Sending(R[k]))
    <3>1. /\ Len(R[k].chunks) \in Nat /\ DOMAIN R[k].chunks = 1 .. Len(R[k].chunks)
      BY ChunksAre DEF ChunksOf, Requested
    <3>2. IsFiniteSet(1 .. Len(R[k].chunks))
      BY <3>1, FS_Interval
    <3> QED BY <3>1, <3>2, FS_Subset DEF Sending
  <2> DEFINE f == [i \in Sending(R[k]) |-> EventOf(R, k, i)]
  <2>2. Sent(k) = {f[i] : i \in Sending(R[k])}
    BY Zenon
  <2> HIDE DEF f, Sent
  <2> QED BY <2>1, <2>2, ImageFinite
<1>3. IsFiniteSet(all)
  <2> DEFINE f == [k \in DOMAIN R |-> Sent(k)]
  <2>1. all = {f[k] : k \in DOMAIN R}
    BY Zenon
  <2> HIDE DEF f, all
  <2> QED BY <2>1, ImageFinite DEF Requested
<1>4. IsFiniteSet(UNION all)
  <2>1. \A U \in all : IsFiniteSet(U)
    BY <1>2
  <2> HIDE DEF all
  <2> QED BY <1>3, <2>1, FS_UNION
<1>5. ASSUME NEW e \in E
      PROVE  /\ e.request_id \in DOMAIN R /\ e.chunk \in Sending(R[e.request_id])
             /\ e = EventOf(R, e.request_id, e.chunk)
  <2>1. PICK k \in DOMAIN R : e \in Sent(k)
    BY <1>1
  <2>2. PICK i \in Sending(R[k]) : e = EventOf(R, k, i)
    BY <2>1
  <2>3. e.request_id = k /\ e.chunk = i
    BY <2>2 DEF EventOf
  <2> QED BY <2>2, <2>3
<1>6. ASSUME NEW k \in DOMAIN R, NEW i \in Sending(R[k]) PROVE EventOf(R, k, i) \in E
  <2>1. EventOf(R, k, i) \in Sent(k) /\ Sent(k) \in all
    OBVIOUS
  <2> HIDE DEF Sent, all, E
  <2> QED BY <1>1, <2>1
<1> HIDE DEF E, all
<1> QED BY <1>1, <1>4, <1>5, <1>6 DEF EventsOf, E

\* Its numbers.
EventFields(e, r) ==
  /\ e.at = r.chunks[e.chunk].at /\ e.at \in Nat
  /\ e["output"] = r.chunks[e.chunk].count /\ e["output"] \in Nat /\ e["output"] > 0
  /\ e["decode"] \in Nat
  /\ e["decode"] = e["output"] - (IF L!Generated(r, e.chunk) = 0 THEN 1 ELSE 0)

LEMMA EventFieldsAre ==
  ASSUME NEW R, Requested(R), NEW E, EventsOf(E, R), NEW e \in E PROVE EventFields(e, R[e.request_id])
<1> DEFINE k == e.request_id
           i == e.chunk
<1>1. k \in DOMAIN R /\ i \in Sending(R[k]) /\ e = EventOf(R, k, i)
  BY DEF EventsOf
<1>2. e.at = R[k].chunks[i].at /\ e["output"] = R[k].chunks[i].count
      /\ e["decode"] = R[k].chunks[i].count - (IF L!Generated(R[k], i) = 0 THEN 1 ELSE 0)
  <2> HIDE DEF k, i
  <2> QED BY <1>1 DEF EventOf
<1> HIDE DEF k, i
<1>3. R[k].chunks[i].at \in Nat /\ R[k].chunks[i].count \in Nat /\ R[k].chunks[i].count > 0
  BY <1>1, ChunksAre DEF ChunksOf, Sending, Requested
<1>4. EventFields(e, R[k])
  BY <1>2, <1>3 DEF EventFields, i
<1> QED BY <1>4 DEF k

-----------------------------------------------------------------------------
(* BackendLog: the rows of finished requests, and the totals by request     *)
FinishedRows(rows, R) ==
  /\ DOMAIN rows = {k \in DOMAIN R : R[k].reason # "none"}
  /\ \A k \in DOMAIN rows :
       /\ rows[k]["left"] = R[k].scheduled /\ rows[k].reason = R[k].reason
       /\ rows[k]["output"] = L!Tokens(R[k]) /\ rows[k]["prompt"] = R[k].prompt /\ rows[k]["cached"] = R[k].cached
       /\ rows[k]["first"] = IF L!Tokens(R[k]) = 0 THEN 0 ELSE L!First(R[k])
       /\ rows[k]["right"] = IF L!Tokens(R[k]) = 0 THEN 0 ELSE L!LastAt(R[k])

LEMMA RowsFinished == ASSUME NEW R PROVE FinishedRows(L!Finished(R), R)
<1> DEFINE rows == L!Finished(R)
           row(r) == [left |-> r.scheduled, first |-> IF L!Tokens(r) = 0 THEN 0 ELSE L!First(r),
                      right |-> IF L!Tokens(r) = 0 THEN 0 ELSE L!LastAt(r), reason |-> r.reason,
                      output |-> L!Tokens(r), prompt |-> r.prompt, cached |-> r.cached]
<1>1. rows = [k \in {j \in DOMAIN R : R[j].reason # "none"} |-> row(R[k])]
  BY Zenon DEF L!Finished
<1> HIDE DEF rows
<1> QED BY <1>1 DEF FinishedRows, rows

\* A request has tokens when one of its chunks has.
LEMMA TokensSent ==
  ASSUME NEW r, Request(r) PROVE L!Tokens(r) \in Nat /\ (L!Tokens(r) = 0 <=> Sending(r) = {})
<1>1. /\ Len(r.chunks) \in Nat /\ DOMAIN r.chunks = 1 .. Len(r.chunks)
      /\ Len(r.chunks) \in 0 .. Len(r.chunks)
  BY ChunksAre DEF ChunksOf
<1>2. /\ L!Total(1 .. Len(r.chunks), L!Counts(r)) \in Nat
      /\ (L!Total(1 .. Len(r.chunks), L!Counts(r)) = 0)
           <=> \A i \in 1 .. Len(r.chunks) : ~(r.chunks[i].count > 0)
  BY <1>1, TokensAre
<1>3. DOMAIN L!Counts(r) = DOMAIN r.chunks
  BY DEF L!Counts
<1>4. L!Tokens(r) = L!Total(1 .. Len(r.chunks), L!Counts(r))
  BY <1>1, Zenon DEF L!Tokens
<1>5. Sending(r) = {} <=> \A i \in 1 .. Len(r.chunks) : ~(r.chunks[i].count > 0)
  BY <1>1, Zenon DEF Sending
<1> QED BY <1>2, <1>4, <1>5, Zenon

LEMMA RowsAre ==
  ASSUME NEW R, Requested(R), NEW rows, FinishedRows(rows, R) PROVE LogRows(rows)
<1>1. IsFiniteSet(DOMAIN rows) /\ DOMAIN rows \subseteq Int
  BY FS_Subset DEF Requested, FinishedRows
<1>2. ASSUME NEW k \in DOMAIN rows PROVE RowFields(rows[k])
  <2>1. k \in DOMAIN R /\ Request(R[k])
    BY DEF Requested, FinishedRows
  <2>2. L!Tokens(R[k]) \in Nat /\ (L!Tokens(R[k]) = 0 <=> Sending(R[k]) = {})
    BY <2>1, TokensSent
  <2>3. ASSUME L!Tokens(R[k]) # 0 PROVE L!First(R[k]) \in Nat /\ L!LastAt(R[k]) \in Nat
    <3>1. PICK first, last \in Sending(R[k]) : FirstAndLast(R[k], first, last)
      BY <2>1, <2>2, <2>3, FirstAndLastAre
    <3> QED BY <2>1, <3>1, ChunksAre DEF ChunksOf, FirstAndLast, Sending
  <2>4. R[k].scheduled \in Nat /\ R[k].prompt \in Nat /\ R[k].cached \in Nat
    BY <2>1 DEF Request
  <2>5. /\ rows[k]["left"] = R[k].scheduled
        /\ rows[k]["output"] = L!Tokens(R[k]) /\ rows[k]["prompt"] = R[k].prompt /\ rows[k]["cached"] = R[k].cached
        /\ rows[k]["first"] = (IF L!Tokens(R[k]) = 0 THEN 0 ELSE L!First(R[k]))
        /\ rows[k]["right"] = (IF L!Tokens(R[k]) = 0 THEN 0 ELSE L!LastAt(R[k]))
    BY Zenon DEF FinishedRows
  <2> QED BY <2>2, <2>3, <2>4, <2>5 DEF RowFields
<1> QED BY <1>1, <1>2 DEF LogRows

\* What an event adds to a field.
Amount(E, field) == [e \in E |-> e[field]]
OfRequest(E, k) == {e \in E : e.request_id = k}

LEMMA EventTotalIs ==
  ASSUME NEW E, IsFiniteSet(E), NEW A \in SUBSET E, NEW field
  PROVE  L!EventTotal(A, field) = Sum(Amount(E, field), A)
<1> DEFINE a == [e \in A |-> e[field]]
<1>1. IsFiniteSet(A)
  BY FS_Subset
<1>2. L!EventTotal(A, field) = L!Total(A, a)
  BY Zenon DEF L!EventTotal
<1>3. \A e \in A : a[e] = Amount(E, field)[e]
  BY DEF Amount
<1> HIDE DEF a
<1>4. L!Total(A, a) = Sum(a, A)
  BY <1>1, LogSum
<1>5. Sum(a, A) = Sum(Amount(E, field), A)
  BY <1>1, <1>3, SumSame
<1> QED BY <1>2, <1>4, <1>5

\* The totals by request are the rows'; one token of a request is not decoded.
TotalOfRequest(E, rows, k) ==
  /\ Sum(Amount(E, "output"), OfRequest(E, k)) = rows[k]["output"]
  /\ Sum(Amount(E, "decode"), OfRequest(E, k)) = rows[k]["output"] - 1

LEMMA RequestTotals ==
  ASSUME NEW R, Requested(R), NEW E, EventsOf(E, R), NEW rows, FinishedRows(rows, R), L!TotalsMatch(E, rows),
         NEW k \in DOMAIN rows
  PROVE  TotalOfRequest(E, rows, k)
<1> DEFINE A == OfRequest(E, k)
           f == Amount(E, "output")
           g == Amount(E, "decode")
<1>1. IsFiniteSet(E) /\ A \in SUBSET E /\ IsFiniteSet(A)
  <2>1. IsFiniteSet(E) /\ A \in SUBSET E
    BY DEF EventsOf, OfRequest
  <2> QED BY <2>1, FS_Subset
<1>2. k \in {e.request_id : e \in E} /\ L!EventTotal(A, "output") = rows[k].output
  BY Zenon DEF L!TotalsMatch, OfRequest
<1>3. \A e \in A : f[e] = e["output"] /\ g[e] = e["decode"] /\ e \in E /\ e.request_id = k
  BY DEF Amount, OfRequest
<1>4. k \in DOMAIN R /\ Request(R[k])
  BY DEF Requested, FinishedRows
<1>5. \A e \in A : EventFields(e, R[k])
  BY <1>3, EventFieldsAre
<1>6. \A e \in A : e.chunk \in Sending(R[k]) /\ e = EventOf(R, k, e.chunk)
  BY <1>3 DEF EventsOf
<1>7. PICK first, last \in Sending(R[k]) : FirstAndLast(R[k], first, last)
  <2>1. PICK e \in E : e.request_id = k
    BY <1>2
  <2>2. e \in A
    BY <2>1 DEF OfRequest
  <2>3. Sending(R[k]) # {}
    BY <1>6, <2>2
  <2> QED BY <1>4, <2>3, FirstAndLastAre
<1> DEFINE b == EventOf(R, k, first)
<1>8. b \in A /\ b.chunk = first
  <2>1. b.request_id = k /\ b.chunk = first
    BY DEF EventOf
  <2>2. b \in E
    BY <1>4 DEF EventsOf
  <2> QED BY <2>1, <2>2 DEF OfRequest
<1>9. Sum(f, A) = rows[k]["output"]
  <2>1. L!EventTotal(A, "output") = Sum(f, A)
    BY <1>1, EventTotalIs
  <2> QED BY <1>2, <2>1
<1>10. ASSUME NEW e \in A
       PROVE  /\ f[e] \in Int /\ g[e] \in Int
              /\ (e = b => g[e] = f[e] + (-1)) /\ (e # b => g[e] = f[e])
  <2>1. L!Generated(R[k], e.chunk) = 0 <=> e.chunk = first
    BY <1>4, <1>6, <1>7, FirstGenerated
  <2>2. e.chunk = first <=> e = b
    BY <1>6, <1>8
  <2>3. EventFields(e, R[k]) /\ f[e] = e["output"] /\ g[e] = e["decode"]
    BY <1>3, <1>5
  <2> HIDE DEF b, f, g, A
  <2> QED BY <2>1, <2>2, <2>3 DEF EventFields
<1> HIDE DEF A, f, g, b
<1>11. Sum(g, A) = Sum(f, A) + (-1)
  <2>1. \A e \in A : f[e] \in Int /\ g[e] \in Int
    BY <1>10
  <2>2. \A e \in A \ {b} : f[e] = g[e]
    BY <1>10
  <2>3. g[b] = f[b] + (-1) /\ -1 \in Int
    BY <1>8, <1>10
  <2> QED BY <1>1, <1>8, <2>1, <2>2, <2>3, SumChanged
<1>12. Sum(f, A) \in Int
  BY <1>1, <1>10, SumType
<1>13. Sum(g, A) = rows[k]["output"] - 1
  BY <1>9, <1>11, <1>12
<1> QED BY <1>9, <1>13 DEF TotalOfRequest, A, f, g

\* Added up over the requests, they are the totals of the run.
LEMMA RunTotals ==
  ASSUME NEW E, IsFiniteSet(E), NEW K, IsFiniteSet(K), \A e \in E : e.request_id \in K, NEW field,
         \A e \in E : e[field] \in Int, NEW h, \A k \in K : Sum(Amount(E, field), OfRequest(E, k)) = h[k]
  PROVE  Sum(Amount(E, field), E) = Sum(h, K)
<1> DEFINE f == Amount(E, field)
           place == [e \in E |-> e.request_id]
           fibers == Fibers(f, E, place, K)
<1>1. \A e \in E : f[e] \in Int /\ place[e] \in K
  BY DEF Amount
<1>2. ASSUME NEW k \in K PROVE fibers[k] = h[k]
  <2>1. {e \in E : place[e] = k} = OfRequest(E, k)
    BY DEF OfRequest
  <2>2. fibers[k] = Sum(f, {e \in E : place[e] = k})
    BY DEF Fibers
  <2> HIDE DEF f, place, fibers
  <2> QED BY <2>1, <2>2 DEF f
<1> HIDE DEF f, place
<1>3. Sum(fibers, K) = Sum(f, E)
  BY <1>1, FibersAdd
<1> HIDE DEF fibers
<1>4. Sum(fibers, K) = Sum(h, K)
  BY <1>2, SumSame
<1> QED BY <1>3, <1>4 DEF f

\* What the readers accept.
Accepted(E, rows) ==
  /\ DOMAIN rows # {} /\ L!TotalsMatch(E, rows)
  /\ \A k \in DOMAIN rows : L!InOrder(rows[k]) /\ L!Successful(rows[k]) /\ ~(rows[k].output < 1)

\* Every event is between the first token and the end of its request.
LEMMA EventsInside ==
  ASSUME NEW R, Requested(R), NEW E, EventsOf(E, R), NEW rows, FinishedRows(rows, R), Accepted(E, rows),
         NEW e \in E
  PROVE  /\ e.request_id \in DOMAIN rows
         /\ rows[e.request_id]["first"] <= e.at /\ e.at <= rows[e.request_id]["right"]
<1> DEFINE k == e.request_id
           r == R[k]
           i == e.chunk
<1>1. k \in DOMAIN rows
  BY Zenon DEF Accepted, L!TotalsMatch
<1>2. k \in DOMAIN R /\ Request(r) /\ i \in Sending(r)
  BY DEF Requested, EventsOf
<1>3. EventFields(e, r)
  BY EventFieldsAre
<1> HIDE DEF k, i
<1>4. L!Tokens(r) # 0
  BY <1>2, TokensSent
<1>5. rows[k]["first"] = L!First(r) /\ rows[k]["right"] = L!LastAt(r)
  BY <1>1, <1>4 DEF FinishedRows
<1> HIDE DEF r
<1>6. PICK first, last \in Sending(r) : FirstAndLast(r, first, last)
  BY <1>2, FirstAndLastAre
<1>7. first \in DOMAIN r.chunks /\ last \in DOMAIN r.chunks /\ i \in DOMAIN r.chunks /\ first <= i /\ i <= last
  BY <1>2, <1>6 DEF FirstAndLast, Sending
<1>8. r.chunks[first].at <= r.chunks[i].at /\ r.chunks[i].at <= r.chunks[last].at
  BY <1>2, <1>7 DEF Request
<1>9. rows[k]["first"] <= e.at /\ e.at <= rows[k]["right"]
  BY <1>3, <1>5, <1>6, <1>8 DEF FirstAndLast, EventFields, i
<1> QED BY <1>1, <1>9 DEF k

\* The window around a whole run has its totals.
TotalsOfRun(E, rows, start, end) ==
  /\ L!EventTotal({e \in E : L!In(e.at, start, end)}, "output") = L!RowTotal(rows, DOMAIN rows, "output")
  /\ L!EventTotal({e \in E : L!In(e.at, start, end)}, "decode")
       = L!Total(DOMAIN rows, [k \in DOMAIN rows |-> rows[k].output - 1])

LEMMA CoveredTotals ==
  ASSUME NEW R, Requested(R), NEW E, EventsOf(E, R), NEW rows, FinishedRows(rows, R), Accepted(E, rows),
         NEW start \in Nat, NEW end \in Nat, \A k \in DOMAIN rows : start <= rows[k].left /\ rows[k].right < end
  PROVE  TotalsOfRun(E, rows, start, end)
<1> DEFINE K == DOMAIN rows
           tokens == {e \in E : L!In(e.at, start, end)}
           output == [k \in K |-> rows[k]["output"]]
           decode == [k \in K |-> rows[k].output - 1]
<1>1. LogRows(rows) /\ IsFiniteSet(E) /\ IsFiniteSet(K)
  BY RowsAre DEF LogRows, EventsOf
<1>2. tokens = E
  <2>1. ASSUME NEW e \in E PROVE L!In(e.at, start, end)
    <3> DEFINE row == rows[e.request_id]
    <3>1. e.request_id \in DOMAIN rows /\ row["first"] <= e.at /\ e.at <= row["right"]
      BY EventsInside
    <3>2. RowFields(row) /\ L!InOrder(row) /\ start <= row.left /\ row.right < end
      BY <1>1, <3>1 DEF LogRows, Accepted
    <3>3. e.at \in Nat
      BY EventFieldsAre DEF EventFields
    <3> HIDE DEF row
    <3> QED BY <3>1, <3>2, <3>3 DEF RowFields, L!InOrder, L!In
  <2> QED BY <2>1
<1>3. \A e \in E : e["output"] \in Int /\ e["decode"] \in Int /\ e.request_id \in K
  <2> SUFFICES ASSUME NEW e \in E PROVE e["output"] \in Int /\ e["decode"] \in Int /\ e.request_id \in K
    OBVIOUS
  <2>1. e.request_id \in K
    BY EventsInside
  <2>2. EventFields(e, R[e.request_id])
    BY EventFieldsAre
  <2> QED BY <2>1, <2>2 DEF EventFields
<1>4. \A k \in K : TotalOfRequest(E, rows, k)
  BY RequestTotals DEF Accepted
<1>5. /\ \A k \in K : Sum(Amount(E, "output"), OfRequest(E, k)) = output[k]
      /\ \A k \in K : Sum(Amount(E, "decode"), OfRequest(E, k)) = decode[k]
  BY <1>4 DEF TotalOfRequest
<1>6. /\ L!RowTotal(rows, K, "output") = L!Total(K, output)
  BY Zenon DEF L!RowTotal
<1> HIDE DEF K, output, decode
<1>7. Sum(Amount(E, "output"), E) = Sum(output, K) /\ Sum(Amount(E, "decode"), E) = Sum(decode, K)
  BY <1>1, <1>3, <1>5, RunTotals
<1>8. L!EventTotal(E, "output") = Sum(Amount(E, "output"), E) /\ L!EventTotal(E, "decode") = Sum(Amount(E, "decode"), E)
  BY <1>1, EventTotalIs
<1>9. L!Total(K, output) = Sum(output, K) /\ L!Total(K, decode) = Sum(decode, K)
  BY <1>1, LogSum
<1> HIDE DEF tokens
<1> QED BY <1>2, <1>6, <1>7, <1>8, <1>9, Zenon DEF tokens, K, decode, TotalsOfRun

-----------------------------------------------------------------------------
(* BackendLog: bins and halves                                              *)
\* Bins of b seconds over a length, the last one shorter or not.
LEMMA BinsOver ==
  ASSUME NEW length \in Nat \ {0}, NEW b \in Nat \ {0}, NEW n, n = (length + b - 1) \div b
  PROVE  n \in Nat \ {0} /\ (n - 1) * b < length /\ length <= n * b
<1> DEFINE q == (length + b - 1) \div b
           m == (length + b - 1) % b
<1>1. length + b - 1 = b * q + m /\ m \in 0 .. b - 1 /\ q \in Int
  OBVIOUS
<1>2. PICK p \in Int : p = b * q
  BY <1>1
<1> HIDE DEF q, m
<1>3. p > 0 /\ length <= p /\ p < length + b
  BY <1>1, <1>2
<1>4. q > 0
  BY <1>1, <1>2, <1>3
<1>5. (q - 1) * b = p - b /\ q * b = p
  BY <1>1, <1>2
<1> QED BY <1>1, <1>3, <1>4, <1>5 DEF q

LEMMA Multiples ==
  ASSUME NEW i \in Int, NEW j \in Int, i <= j, NEW b \in Nat PROVE i * b <= j * b /\ i * b \in Int /\ j * b \in Int
OBVIOUS

\* The bins and the halves of a window: their number, and where a time belongs.
LEMMA BinsAre ==
  ASSUME BinSeconds \in Nat \ {0}, NEW start \in Nat, NEW end \in Nat, start < end
  PROVE  /\ L!BinCount(start, end) \in Nat \ {0}
         /\ (L!BinCount(start, end) - 1) * BinSeconds < end - start
         /\ end - start <= L!BinCount(start, end) * BinSeconds
         /\ \A t \in Nat : start <= t /\ t < end =>
              /\ L!BinOf(t, start, end) \in 0 .. L!BinCount(start, end) - 1
              /\ L!HalfOf(t, start, end) \in 0 .. 1
<1> DEFINE n == L!BinCount(start, end)
           length == end - start
<1>1. length \in Nat \ {0} /\ n = (length + BinSeconds - 1) \div BinSeconds
  BY DEF L!BinCount
<1> HIDE DEF n, length
<1>2. n \in Nat \ {0} /\ (n - 1) * BinSeconds < length /\ length <= n * BinSeconds
  BY <1>1, BinsOver
<1>3. ASSUME NEW t \in Nat, start <= t, t < end PROVE L!BinOf(t, start, end) \in 0 .. n - 1
  <2> DEFINE q == (t - start) \div BinSeconds
             m == (t - start) % BinSeconds
  <2>1. t - start \in Nat
    BY <1>3
  <2>2. t - start = BinSeconds * q + m /\ m \in 0 .. BinSeconds - 1 /\ q \in Int
    BY <2>1
  <2>3. L!BinOf(t, start, end) = L!Min({q, n - 1})
    BY DEF L!BinOf, n
  <2> HIDE DEF q, m
  <2>4. q >= 0
    BY <2>1, <2>2
  <2>5. q \in Int /\ n - 1 \in Int
    BY <1>2, <2>2
  <2>6. L!Min({q, n - 1}) = IF q <= n - 1 THEN q ELSE n - 1
    BY <2>5, LargerOf
  <2> QED BY <1>2, <2>3, <2>4, <2>5, <2>6
<1>4. \A t \in Nat : L!HalfOf(t, start, end) \in 0 .. 1
  BY DEF L!HalfOf
<1> QED BY <1>2, <1>3, <1>4 DEF n, length

LEMMA LastTakenOut ==
  ASSUME NEW n \in Nat \ {0}, NEW f, \A i \in 0 .. n - 1 : f[i] \in Int
  PROVE  Sum(f, 0 .. n - 1) = f[n - 1] + Sum(f, 0 .. (n - 1) - 1)
<1> DEFINE S == 0 .. n - 1
           last == n - 1
<1>1. last \in S /\ \A i \in S : f[i] \in Int
  OBVIOUS
<1>2. S \ {last} = 0 .. (n - 1) - 1
  OBVIOUS
<1>3. IsFiniteSet(S)
  <2>1. 0 \in Int /\ last \in Int
    OBVIOUS
  <2> HIDE DEF last
  <2> QED BY <2>1, FS_Interval DEF last
<1> HIDE DEF S, last
<1>4. Sum(f, S) = f[last] + Sum(f, S \ {last})
  BY <1>1, <1>3, SumTakesOut
<1> QED BY <1>2, <1>4, Zenon DEF S, last

\* The bins of a window share out its length.
LEMMA LengthsAdd ==
  ASSUME BinSeconds \in Nat \ {0}, NEW start \in Nat, NEW end \in Nat, start < end,
         NEW lengths, lengths = [i \in 0 .. L!BinCount(start, end) - 1 |-> L!BinLength(i, start, end)]
  PROVE  L!Total(DOMAIN lengths, lengths) = end - start /\ \A i \in DOMAIN lengths : lengths[i] > 0
<1> DEFINE n == L!BinCount(start, end)
           d == end - start
           b == BinSeconds
<1>1. n \in Nat \ {0} /\ (n - 1) * b < d /\ d <= n * b
  BY BinsAre
<1>2. d \in Nat /\ b \in Nat \ {0}
  OBVIOUS
<1>3. \A i \in 0 .. n - 1 : lengths[i] = L!Min({b, d - i * b})
  BY DEF L!BinLength
<1>4. DOMAIN lengths = 0 .. n - 1
  OBVIOUS
<1> HIDE DEF n, d
<1>5. ASSUME NEW i \in 0 .. n - 1
      PROVE  /\ lengths[i] \in Int /\ lengths[i] > 0
             /\ (i # n - 1 => lengths[i] = b) /\ (i = n - 1 => lengths[i] = d - (n - 1) * b)
  <2>1. PICK p \in Int : p = i * b
    BY <1>2
  <2>2. PICK q \in Int : q = (n - 1) * b
    BY <1>1, <1>2
  <2>3. n * b = q + b /\ (i + 1) * b = p + b
    BY <1>1, <1>2, <2>1, <2>2
  <2>4. p <= q
    BY <1>1, <1>2, <2>1, <2>2, Multiples
  <2>5. ASSUME i # n - 1 PROVE p + b <= q
    <3>1. i + 1 <= n - 1 /\ i + 1 \in Int /\ n - 1 \in Int
      BY <1>1, <2>5
    <3>2. (i + 1) * b <= (n - 1) * b
      BY <1>2, <3>1, Multiples
    <3> QED BY <2>2, <2>3, <3>2
  <2>6. b \in Int /\ d - p \in Int
    BY <1>2
  <2>7. L!Min({b, d - p}) = IF b <= d - p THEN b ELSE d - p
    BY <2>6, LargerOf
  <2>8. lengths[i] = IF b <= d - p THEN b ELSE d - p
    BY <1>3, <2>1, <2>7
  <2>9. q < d /\ d <= q + b
    BY <1>1, <2>2, <2>3
  <2>10. i = n - 1 => p = q
    BY <2>1, <2>2
  <2>11. lengths[i] \in Int /\ lengths[i] > 0 /\ (i # n - 1 => lengths[i] = b) /\ (i = n - 1 => lengths[i] = d - q)
    BY <1>2, <2>4, <2>5, <2>8, <2>9, <2>10
  <2> QED BY <2>2, <2>11
<1>6. IsFiniteSet(0 .. n - 1) /\ n - 1 \in 0 .. n - 1
  <2>1. 0 \in Int /\ n - 1 \in Int
    BY <1>1
  <2>2. IsFiniteSet(0 .. n - 1)
    BY <2>1, FS_Interval
  <2> QED BY <1>1, <2>2
<1>7. Sum(lengths, 0 .. n - 1) = lengths[n - 1] + Sum(lengths, 0 .. (n - 1) - 1)
  <2>1. \A i \in 0 .. n - 1 : lengths[i] \in Int
    BY <1>5
  <2> QED BY <1>1, <2>1, LastTakenOut
<1>8. Sum(lengths, 0 .. (n - 1) - 1) = b * (n - 1)
  <2>1. TailAdds(lengths, 0, 0, n - 1, b)
    <3>1. 0 \in Int /\ n - 1 \in Int /\ 0 <= 0 /\ 0 <= n - 1 /\ b \in Int
      BY <1>1
    <3>2. ASSUME NEW i \in 0 .. (n - 1) - 1 PROVE lengths[i] \in Int /\ lengths[i] = b
      <4>1. i \in 0 .. n - 1 /\ i # n - 1
        BY <1>1
      <4> QED BY <1>5, <4>1
    <3> QED BY <3>1, <3>2, SumConstantTail
  <2>2. 0 .. 0 - 1 = {} /\ (n - 1) - 0 = n - 1
    BY <1>1
  <2>3. Sum(lengths, 0 .. 0 - 1) = 0
    BY <2>2, SumEmpty
  <2>4. b * (n - 1) \in Int
    BY <1>1, <1>2
  <2>5. Sum(lengths, 0 .. (n - 1) - 1) = 0 + b * (n - 1)
    BY <2>1, <2>2, <2>3 DEF TailAdds
  <2> QED BY <2>4, <2>5
<1>9. Sum(lengths, 0 .. n - 1) = d
  <2>1. lengths[n - 1] = d - (n - 1) * b
    BY <1>5, <1>6
  <2>2. PICK q \in Int : q = (n - 1) * b /\ q = b * (n - 1)
    BY <1>1, <1>2
  <2> QED BY <1>2, <1>7, <1>8, <2>1, <2>2
<1>10. L!Total(DOMAIN lengths, lengths) = Sum(lengths, 0 .. n - 1)
  BY <1>4, <1>6, LogSum
<1> QED BY <1>4, <1>5, <1>9, <1>10 DEF d

\* The bins of a window and its halves share out what happens in it.
ShareOut(at, f, start, end) ==
  /\ L!Total(DOMAIN L!Bins(at, f, start, end), L!Bins(at, f, start, end)) = Sum(f, DOMAIN at)
  /\ L!Total(DOMAIN L!Halves(at, f, start, end), L!Halves(at, f, start, end)) = Sum(f, DOMAIN at)

LEMMA BinsShareOut ==
  ASSUME BinSeconds \in Nat \ {0}, NEW start \in Nat, NEW end \in Nat, start < end,
         NEW at, IsFiniteSet(DOMAIN at), \A x \in DOMAIN at : at[x] \in Nat /\ start <= at[x] /\ at[x] < end,
         NEW f, \A x \in DOMAIN at : f[x] \in Int
  PROVE  ShareOut(at, f, start, end)
<1> DEFINE S == DOMAIN at
           n == L!BinCount(start, end)
           bins == L!Bins(at, f, start, end)
           halves == L!Halves(at, f, start, end)
           bin == [x \in S |-> L!BinOf(at[x], start, end)]
           half == [x \in S |-> L!HalfOf(at[x], start, end)]
<1>1. n \in Nat \ {0} /\ \A x \in S : bin[x] \in 0 .. n - 1 /\ half[x] \in 0 .. 1
  BY BinsAre
<1>2. IsFiniteSet(0 .. n - 1) /\ IsFiniteSet(0 .. 1)
  <2>1. 0 \in Int /\ n - 1 \in Int /\ 1 \in Int
    BY <1>1
  <2> HIDE DEF n
  <2> QED BY <2>1, FS_Interval
<1>3. /\ DOMAIN bins = 0 .. n - 1 /\ DOMAIN halves = 0 .. 1
      /\ \A i \in 0 .. n - 1 : bins[i] = L!Total({x \in S : L!BinOf(at[x], start, end) = i}, f)
      /\ \A i \in 0 .. 1 : halves[i] = L!Total({x \in S : L!HalfOf(at[x], start, end) = i}, f)
  BY DEF L!Bins, L!Halves
<1>4. \A i : {x \in S : L!BinOf(at[x], start, end) = i} = {x \in S : bin[x] = i}
  OBVIOUS
<1>5. \A i : {x \in S : L!HalfOf(at[x], start, end) = i} = {x \in S : half[x] = i}
  OBVIOUS
<1> HIDE DEF n, bins, halves, bin, half
<1>6. \A i : IsFiniteSet({x \in S : bin[x] = i}) /\ IsFiniteSet({x \in S : half[x] = i})
  BY FS_Subset
<1>7. \A i \in 0 .. n - 1 : bins[i] = Fibers(f, S, bin, 0 .. n - 1)[i]
  BY <1>3, <1>4, <1>6, LogSum DEF Fibers
<1>8. \A i \in 0 .. 1 : halves[i] = Fibers(f, S, half, 0 .. 1)[i]
  BY <1>3, <1>5, <1>6, LogSum DEF Fibers
<1>9. Sum(bins, 0 .. n - 1) = Sum(f, S)
  <2>1. Sum(Fibers(f, S, bin, 0 .. n - 1), 0 .. n - 1) = Sum(f, S)
    BY <1>1, <1>2, FibersAdd
  <2>2. Sum(bins, 0 .. n - 1) = Sum(Fibers(f, S, bin, 0 .. n - 1), 0 .. n - 1)
    BY <1>2, <1>7, SumSame
  <2> QED BY <2>1, <2>2
<1>10. Sum(halves, 0 .. 1) = Sum(f, S)
  <2>1. Sum(Fibers(f, S, half, 0 .. 1), 0 .. 1) = Sum(f, S)
    BY <1>1, <1>2, FibersAdd
  <2>2. Sum(halves, 0 .. 1) = Sum(Fibers(f, S, half, 0 .. 1), 0 .. 1)
    BY <1>2, <1>8, SumSame
  <2> QED BY <2>1, <2>2
<1>11. /\ L!Total(DOMAIN bins, bins) = Sum(bins, 0 .. n - 1)
       /\ L!Total(DOMAIN halves, halves) = Sum(halves, 0 .. 1)
  BY <1>2, <1>3, LogSum
<1> QED BY <1>9, <1>10, <1>11 DEF ShareOut, bins, halves

-----------------------------------------------------------------------------
(* BackendLog: the readers                                                  *)
Tokened(E, start, end) == {e \in E : L!In(e.at, start, end)}
BusyOf(rows, K, from, start, end) == L!UnionSeconds(L!Clipped(L!Span(rows, K, from), start, end))

\* What the report says of a window that it accepts.
ActiveIn(rows, start, end) == {k \in DOMAIN rows : rows[k].right > start /\ rows[k].left < end}
DecodingIn(rows, start, end) == {k \in DOMAIN rows : rows[k].right > start /\ rows[k].first < end}
CachedIn(rows, start, end) == {k \in DOMAIN rows : L!In(rows[k].first, start, end)}
Reported(c, E, rows, start, end) ==
  LET tokens == Tokened(E, start, end)
      at == [e \in tokens |-> e.at]
      generated == [e \in tokens |-> e.output]
      first == [k \in CachedIn(rows, start, end) |-> rows[k].first]
      prompt == [k \in CachedIn(rows, start, end) |-> rows[k].prompt]
  IN /\ c["output"] = L!EventTotal(tokens, "output") /\ c["decoded"] = L!EventTotal(tokens, "decode")
     /\ c["active"] = BusyOf(rows, ActiveIn(rows, start, end), "left", start, end)
     /\ c["decode"] = BusyOf(rows, DecodingIn(rows, start, end), "first", start, end)
     /\ c["prompt"] = L!Total(CachedIn(rows, start, end), prompt)
     /\ c["output_bins"] = L!Bins(at, generated, start, end)
     /\ c["output_halves"] = L!Halves(at, generated, start, end)
     /\ c["prompt_bins"] = L!Bins(first, prompt, start, end)
     /\ c["prompt_halves"] = L!Halves(first, prompt, start, end)

LEMMA ReportIs ==
  ASSUME NEW E, NEW rows, NEW start, NEW end
  PROVE  LET c == L!BackendCounts(E, rows, start, end)
         IN c = L!Bad \/ (Accepted(E, rows) /\ Reported(c, E, rows, start, end))
<1> DEFINE c == L!BackendCounts(E, rows, start, end)
           K == DOMAIN rows
           tokens == Tokened(E, start, end)
           active == ActiveIn(rows, start, end)
           decoding == DecodingIn(rows, start, end)
           cache == CachedIn(rows, start, end)
           at == [e \in tokens |-> e.at]
           generated == [e \in tokens |-> e.output]
           first == [k \in cache |-> rows[k].first]
           prompt == [k \in cache |-> rows[k].prompt]
           bad == \/ K = {} \/ ~L!TotalsMatch(E, rows)
                  \/ \E k \in K : ~L!InOrder(rows[k]) \/ ~L!Successful(rows[k]) \/ rows[k].output < 1
                                  \/ rows[k].cached \notin 0 .. rows[k].prompt
           row == [status |-> "measured", output |-> L!EventTotal(tokens, "output"),
                   decoded |-> L!EventTotal(tokens, "decode"),
                   active |-> BusyOf(rows, active, "left", start, end),
                   decode |-> BusyOf(rows, decoding, "first", start, end),
                   prompt |-> L!Total(cache, prompt),
                   cached |-> L!RowTotal(rows, cache, "cached"),
                   output_bins |-> L!Bins(at, generated, start, end),
                   output_halves |-> L!Halves(at, generated, start, end),
                   prompt_bins |-> L!Bins(first, prompt, start, end),
                   prompt_halves |-> L!Halves(first, prompt, start, end)]
<1>1. c = IF bad THEN L!Bad ELSE row
  BY Zenon DEF L!BackendCounts, Tokened, BusyOf, ActiveIn, DecodingIn, CachedIn
<1>2. Reported(row, E, rows, start, end)
  <2> HIDE DEF tokens, active, decoding, cache
  <2>1. Reported(row, E, rows, start, end) <=>
          /\ row["output"] = L!EventTotal(tokens, "output") /\ row["decoded"] = L!EventTotal(tokens, "decode")
          /\ row["active"] = BusyOf(rows, active, "left", start, end)
          /\ row["decode"] = BusyOf(rows, decoding, "first", start, end)
          /\ row["prompt"] = L!Total(cache, prompt)
          /\ row["output_bins"] = L!Bins(at, generated, start, end)
          /\ row["output_halves"] = L!Halves(at, generated, start, end)
          /\ row["prompt_bins"] = L!Bins(first, prompt, start, end)
          /\ row["prompt_halves"] = L!Halves(first, prompt, start, end)
    <3> HIDE DEF row
    <3> QED BY Zenon DEF Reported, tokens, active, decoding, cache
  <2> HIDE DEF at, generated, first, prompt
  <2> QED BY <2>1
<1>3. ~bad => Accepted(E, rows)
  BY DEF Accepted
<1> HIDE DEF bad, row, c
<1>4. c = L!Bad \/ (Accepted(E, rows) /\ Reported(c, E, rows, start, end))
  <2>1. CASE bad
    BY <1>1, <2>1, Zenon
  <2>2. CASE ~bad
    <3>1. c = row
      BY <1>1, <2>2, Zenon
    <3> QED BY <1>2, <1>3, <2>2, <3>1, Zenon
  <2> QED BY <2>1, <2>2
<1> QED BY <1>4 DEF c

\* The event window of an accepted log.
TouchingIn(rows, start, end) == {k \in DOMAIN rows : rows[k].right >= start /\ rows[k].left < end}
DecodingAt(rows, start, end) ==
  {k \in TouchingIn(rows, start, end) : L!Min({rows[k].right, end}) > L!Max({rows[k].first, start})}
LEMMA EventWindowIs ==
  ASSUME NEW E, NEW rows, NEW start, NEW end, Accepted(E, rows)
  PROVE  L!SummarizeEventWindow(E, rows, start, end)
           = [status |-> "measured", output |-> L!EventTotal(Tokened(E, start, end), "output"),
              decoded |-> L!EventTotal(Tokened(E, start, end), "decode"),
              active |-> BusyOf(rows, TouchingIn(rows, start, end), "left", start, end),
              decode |-> BusyOf(rows, DecodingAt(rows, start, end), "first", start, end)]
<1> DEFINE row == [status |-> "measured", output |-> L!EventTotal(Tokened(E, start, end), "output"),
                   decoded |-> L!EventTotal(Tokened(E, start, end), "decode"),
                   active |-> BusyOf(rows, TouchingIn(rows, start, end), "left", start, end),
                   decode |-> BusyOf(rows, DecodingAt(rows, start, end), "first", start, end)]
           bad == \/ E = {} \/ ~L!TotalsMatch(E, rows)
                  \/ \E k \in DOMAIN rows : ~L!InOrder(rows[k])
                  \/ \E k \in TouchingIn(rows, start, end) : ~L!Successful(rows[k])
<1>1. L!SummarizeEventWindow(E, rows, start, end) = IF bad THEN L!Bad ELSE row
  BY Zenon DEF L!SummarizeEventWindow, Tokened, BusyOf, TouchingIn, DecodingAt
<1>2. E # {}
  BY DEF Accepted, L!TotalsMatch
<1>3. ~bad
  BY <1>2 DEF Accepted, TouchingIn
<1> HIDE DEF bad, row
<1>4. L!SummarizeEventWindow(E, rows, start, end) = row
  BY <1>1, <1>3
<1> QED BY <1>4 DEF row

\* The summary of an accepted run.
LEMMA WholeIs ==
  ASSUME NEW E, NEW rows, Accepted(E, rows)
  PROVE  L!SummarizeBackend(rows)
           = [status |-> "measured", output |-> L!RowTotal(rows, DOMAIN rows, "output"),
              decoded |-> L!Total(DOMAIN rows, [k \in DOMAIN rows |-> rows[k].output - 1]),
              active |-> L!UnionSeconds(L!Span(rows, DOMAIN rows, "left")),
              decode |-> L!UnionSeconds(L!Span(rows, DOMAIN rows, "first"))]
<1> DEFINE none == DOMAIN rows = {}
           bad == \E k \in DOMAIN rows : ~L!InOrder(rows[k]) \/ ~L!Successful(rows[k]) \/ rows[k].output < 1
<1>1. ~none /\ ~bad
  BY DEF Accepted
<1>2. L!SummarizeBackend(rows) =
        CASE none -> [status |-> "unavailable"]
          [] bad -> L!Bad
          [] OTHER -> [status |-> "measured", output |-> L!RowTotal(rows, DOMAIN rows, "output"),
                       decoded |-> L!Total(DOMAIN rows, [k \in DOMAIN rows |-> rows[k].output - 1]),
                       active |-> L!UnionSeconds(L!Span(rows, DOMAIN rows, "left")),
                       decode |-> L!UnionSeconds(L!Span(rows, DOMAIN rows, "first"))]
  BY Zenon DEF L!SummarizeBackend
<1> HIDE DEF none, bad
<1> QED BY <1>1, <1>2

\* Whichever requests a reader selects, the busy times are those of all requests.
LEMMA SelectedBusy ==
  ASSUME NEW rows, LogRows(rows), \A k \in DOMAIN rows : rows[k]["left"] <= rows[k]["first"],
         NEW start \in Nat, NEW end \in Nat, start < end
  PROVE  /\ BusyOf(rows, ActiveIn(rows, start, end), "left", start, end)
              = Cardinality(BusyWithin(rows, "left", start, end))
         /\ BusyOf(rows, DecodingIn(rows, start, end), "first", start, end)
              = Cardinality(BusyWithin(rows, "first", start, end))
         /\ BusyOf(rows, TouchingIn(rows, start, end), "left", start, end)
              = Cardinality(BusyWithin(rows, "left", start, end))
         /\ BusyOf(rows, DecodingAt(rows, start, end), "first", start, end)
              = Cardinality(BusyWithin(rows, "first", start, end))
<1> DEFINE Selected(A, from) ==
             /\ A \in SUBSET DOMAIN rows
             /\ \A k \in DOMAIN rows :
                  (\E t \in Int : start <= t /\ t < end /\ rows[k][from] <= t /\ t < rows[k]["right"]) => k \in A
<1>1. ASSUME NEW A, NEW from \in {"left", "first"}, Selected(A, from)
      PROVE  BusyOf(rows, A, from, start, end) = Cardinality(BusyWithin(rows, from, start, end))
  BY <1>1, ClippedBusy DEF BusyOf
<1>2. ASSUME NEW k \in DOMAIN rows
      PROVE  rows[k]["left"] \in Nat /\ rows[k]["first"] \in Nat /\ rows[k]["right"] \in Nat
  BY DEF LogRows, RowFields
<1>3. Selected(ActiveIn(rows, start, end), "left")
  BY <1>2 DEF ActiveIn
<1>4. Selected(DecodingIn(rows, start, end), "first")
  BY <1>2 DEF DecodingIn
<1>5. Selected(TouchingIn(rows, start, end), "left")
  BY <1>2 DEF TouchingIn
<1>6. Selected(DecodingAt(rows, start, end), "first")
  <2>1. ASSUME NEW k \in DOMAIN rows, NEW t \in Int, start <= t, t < end, rows[k]["first"] <= t, t < rows[k]["right"]
        PROVE  k \in DecodingAt(rows, start, end)
    <3> DEFINE a == rows[k]["first"]
               b == rows[k]["right"]
    <3>1. a \in Int /\ b \in Int /\ start \in Int /\ end \in Int
      BY <1>2
    <3>2. k \in TouchingIn(rows, start, end)
      BY <1>2, <2>1 DEF TouchingIn
    <3> HIDE DEF a, b
    <3>3. /\ L!Min({b, end}) = (IF b <= end THEN b ELSE end)
          /\ L!Max({a, start}) = (IF a >= start THEN a ELSE start)
      BY <3>1, LargerOf
    <3>4. a <= t /\ t < b
      BY <2>1 DEF a, b
    <3>5. L!Min({b, end}) > L!Max({a, start})
      BY <2>1, <3>1, <3>3, <3>4
    <3> QED BY <3>2, <3>5 DEF DecodingAt, a, b
  <2>2. DecodingAt(rows, start, end) \in SUBSET DOMAIN rows
    BY DEF DecodingAt, TouchingIn
  <2> HIDE DEF Selected
  <2> QED BY <2>1, <2>2 DEF Selected
<1> HIDE DEF Selected
<1> QED BY <1>1, <1>3, <1>4, <1>5, <1>6

\* The bins and halves of the report share out its totals.
LEMMA ReportShares ==
  ASSUME BinSeconds \in Nat \ {0}, NEW R, Requested(R), NEW E, EventsOf(E, R), NEW rows, LogRows(rows),
         NEW start \in Nat, NEW end \in Nat, start < end, NEW c, Reported(c, E, rows, start, end)
  PROVE  /\ L!Total(DOMAIN c["output_bins"], c["output_bins"]) = c["output"]
         /\ L!Total(DOMAIN c["output_halves"], c["output_halves"]) = c["output"]
         /\ L!Total(DOMAIN c["prompt_bins"], c["prompt_bins"]) = c["prompt"]
         /\ L!Total(DOMAIN c["prompt_halves"], c["prompt_halves"]) = c["prompt"]
<1> DEFINE tokens == Tokened(E, start, end)
           cache == CachedIn(rows, start, end)
           at == [e \in tokens |-> e.at]
           generated == [e \in tokens |-> e.output]
           first == [k \in cache |-> rows[k].first]
           prompt == [k \in cache |-> rows[k].prompt]
<1>1. /\ c["output"] = L!EventTotal(tokens, "output") /\ c["prompt"] = L!Total(cache, prompt)
      /\ c["output_bins"] = L!Bins(at, generated, start, end)
      /\ c["output_halves"] = L!Halves(at, generated, start, end)
      /\ c["prompt_bins"] = L!Bins(first, prompt, start, end)
      /\ c["prompt_halves"] = L!Halves(first, prompt, start, end)
  BY Zenon DEF Reported
<1>2. IsFiniteSet(tokens) /\ IsFiniteSet(cache) /\ IsFiniteSet(E) /\ tokens \in SUBSET E
  <2>1. IsFiniteSet(E) /\ IsFiniteSet(DOMAIN rows)
    BY DEF EventsOf, LogRows
  <2>2. tokens \in SUBSET E /\ cache \in SUBSET DOMAIN rows
    BY DEF Tokened, CachedIn
  <2> QED BY <2>1, <2>2, FS_Subset
<1>3. DOMAIN at = tokens /\ \A e \in tokens : at[e] \in Nat /\ start <= at[e] /\ at[e] < end /\ generated[e] \in Int
  <2> SUFFICES ASSUME NEW e \in tokens
               PROVE  at[e] \in Nat /\ start <= at[e] /\ at[e] < end /\ generated[e] \in Int
    OBVIOUS
  <2>1. e \in E /\ L!In(e.at, start, end)
    BY DEF Tokened
  <2>2. EventFields(e, R[e.request_id])
    BY <2>1, EventFieldsAre
  <2>3. at[e] = e.at /\ generated[e] = e["output"]
    OBVIOUS
  <2> QED BY <2>1, <2>2, <2>3 DEF EventFields, L!In
<1>4. DOMAIN first = cache /\ \A k \in cache : first[k] \in Nat /\ start <= first[k] /\ first[k] < end /\ prompt[k] \in Int
  <2> SUFFICES ASSUME NEW k \in cache
               PROVE  first[k] \in Nat /\ start <= first[k] /\ first[k] < end /\ prompt[k] \in Int
    OBVIOUS
  <2>1. k \in DOMAIN rows /\ L!In(rows[k].first, start, end)
    BY DEF CachedIn
  <2>2. RowFields(rows[k])
    BY <2>1 DEF LogRows
  <2>3. first[k] = rows[k].first /\ prompt[k] = rows[k].prompt
    OBVIOUS
  <2> QED BY <2>1, <2>2, <2>3 DEF RowFields, L!In
<1>5. \A e \in tokens : generated[e] = Amount(E, "output")[e]
  BY <1>2 DEF Amount
<1> HIDE DEF tokens, cache, at, generated, first, prompt
<1>6. ShareOut(at, generated, start, end)
  BY <1>2, <1>3, BinsShareOut
<1>7. ShareOut(first, prompt, start, end)
  BY <1>2, <1>4, BinsShareOut
<1>8. L!EventTotal(tokens, "output") = Sum(generated, tokens)
  <2>1. L!EventTotal(tokens, "output") = Sum(Amount(E, "output"), tokens)
    BY <1>2, EventTotalIs
  <2>2. Sum(generated, tokens) = Sum(Amount(E, "output"), tokens)
    BY <1>2, <1>5, SumSame
  <2> QED BY <2>1, <2>2
<1>9. L!Total(cache, prompt) = Sum(prompt, cache)
  BY <1>2, LogSum
<1> QED BY <1>1, <1>3, <1>4, <1>6, <1>7, <1>8, <1>9, Zenon DEF ShareOut

LEMMA AccountsDoAgree ==
  ASSUME BinSeconds \in Nat \ {0}, NEW R, Requested(R), NEW start \in Nat, NEW end \in Nat, start < end
  PROVE  L!AccountsAgree(R, start, end)
<1> DEFINE E == L!TokenEvents(R)
           rows == L!Finished(R)
           c == L!BackendCounts(E, rows, start, end)
           window == L!SummarizeEventWindow(E, rows, start, end)
           whole == L!SummarizeBackend(rows)
           total(f) == L!Total(DOMAIN f, f)
           lengths == [i \in 0 .. L!BinCount(start, end) - 1 |-> L!BinLength(i, start, end)]
           covered == \A k \in DOMAIN rows : start <= rows[k].left /\ rows[k].right < end
           agree == /\ window["status"] = "measured" /\ whole["status"] = "measured"
                    /\ \A f \in L!Fields : c[f] = window[f] /\ (covered => c[f] = whole[f])
                    /\ total(c["output_bins"]) = c["output"] /\ total(c["output_halves"]) = c["output"]
                    /\ total(c["prompt_bins"]) = c["prompt"] /\ total(c["prompt_halves"]) = c["prompt"]
                    /\ total(lengths) = end - start /\ \A i \in DOMAIN lengths : lengths[i] > 0
<1>1. EventsOf(E, R) /\ FinishedRows(rows, R) /\ LogRows(rows)
  BY EventsAre, RowsFinished, RowsAre
<1>2. total(lengths) = end - start /\ \A i \in DOMAIN lengths : lengths[i] > 0
  BY LengthsAdd
<1>3. c = L!Bad \/ (Accepted(E, rows) /\ Reported(c, E, rows, start, end))
  BY ReportIs
<1>4. L!Bad["status"] # "measured"
  BY DEF L!Bad
<1>5. L!AccountsAgree(R, start, end) <=> (c["status"] = "measured" => agree)
  BY Zenon DEF L!AccountsAgree
<1> HIDE DEF lengths, E, rows, c
<1> SUFFICES ASSUME c["status"] = "measured" PROVE agree
  BY <1>5
<1>6. Accepted(E, rows) /\ Reported(c, E, rows, start, end)
  BY <1>3, <1>4
<1>7. /\ total(c["output_bins"]) = c["output"] /\ total(c["output_halves"]) = c["output"]
      /\ total(c["prompt_bins"]) = c["prompt"] /\ total(c["prompt_halves"]) = c["prompt"]
  BY <1>1, <1>6, ReportShares
<1>8. /\ c["output"] = L!EventTotal(Tokened(E, start, end), "output")
      /\ c["decoded"] = L!EventTotal(Tokened(E, start, end), "decode")
      /\ c["active"] = BusyOf(rows, ActiveIn(rows, start, end), "left", start, end)
      /\ c["decode"] = BusyOf(rows, DecodingIn(rows, start, end), "first", start, end)
  BY <1>6, Zenon DEF Reported
<1>9. /\ window["status"] = "measured"
      /\ window["output"] = L!EventTotal(Tokened(E, start, end), "output")
      /\ window["decoded"] = L!EventTotal(Tokened(E, start, end), "decode")
      /\ window["active"] = BusyOf(rows, TouchingIn(rows, start, end), "left", start, end)
      /\ window["decode"] = BusyOf(rows, DecodingAt(rows, start, end), "first", start, end)
  BY <1>6, EventWindowIs
<1>10. /\ whole["status"] = "measured"
       /\ whole["output"] = L!RowTotal(rows, DOMAIN rows, "output")
       /\ whole["decoded"] = L!Total(DOMAIN rows, [k \in DOMAIN rows |-> rows[k].output - 1])
       /\ whole["active"] = L!UnionSeconds(L!Span(rows, DOMAIN rows, "left"))
       /\ whole["decode"] = L!UnionSeconds(L!Span(rows, DOMAIN rows, "first"))
  BY <1>6, WholeIs
<1> HIDE DEF window, whole, total
<1>11. ASSUME NEW k \in DOMAIN rows
       PROVE  /\ rows[k]["left"] \in Nat /\ rows[k]["first"] \in Nat /\ rows[k]["right"] \in Nat
              /\ rows[k]["left"] <= rows[k]["first"]
  BY <1>1, <1>6 DEF LogRows, RowFields, Accepted, L!InOrder
<1>12. /\ c["active"] = Cardinality(BusyWithin(rows, "left", start, end)) /\ c["active"] = window["active"]
       /\ c["decode"] = Cardinality(BusyWithin(rows, "first", start, end)) /\ c["decode"] = window["decode"]
  BY <1>1, <1>8, <1>9, <1>11, SelectedBusy
<1>13. ASSUME covered
       PROVE  /\ whole["active"] = Cardinality(BusyWithin(rows, "left", start, end))
              /\ whole["decode"] = Cardinality(BusyWithin(rows, "first", start, end))
  <2>1. /\ \A k \in DOMAIN rows : start <= rows[k]["left"] /\ rows[k]["right"] < end
        /\ \A k \in DOMAIN rows : start <= rows[k]["first"] /\ rows[k]["right"] < end
    BY <1>11, <1>13
  <2> QED BY <1>1, <1>10, <2>1, WholeBusy
<1>14. ASSUME covered
       PROVE  /\ L!EventTotal(Tokened(E, start, end), "output") = L!RowTotal(rows, DOMAIN rows, "output")
              /\ L!EventTotal(Tokened(E, start, end), "decode")
                   = L!Total(DOMAIN rows, [k \in DOMAIN rows |-> rows[k].output - 1])
  <2>1. \A k \in DOMAIN rows : start <= rows[k].left /\ rows[k].right < end
    BY <1>14
  <2>2. TotalsOfRun(E, rows, start, end)
    BY <1>1, <1>6, <2>1, CoveredTotals
  <2> QED BY <2>2, Zenon DEF TotalsOfRun, Tokened
<1> HIDE DEF covered
<1>15. ASSUME NEW f \in L!Fields PROVE c[f] = window[f] /\ (covered => c[f] = whole[f])
  <2>1. f \in {"output", "decoded", "active", "decode"}
    BY DEF L!Fields
  <2>2. CASE f = "output"
    BY <1>8, <1>9, <1>10, <1>14, <2>2
  <2>3. CASE f = "decoded"
    BY <1>8, <1>9, <1>10, <1>14, <2>3
  <2>4. CASE f = "active"
    BY <1>12, <1>13, <2>4
  <2>5. CASE f = "decode"
    BY <1>12, <1>13, <2>5
  <2> QED BY <2>1, <2>2, <2>3, <2>4, <2>5
<1> QED BY <1>2, <1>7, <1>9, <1>10, <1>15, Zenon

\* A log with an aborted request, or with tokens of one that has not ended.
LEMMA OnlyComplete ==
  ASSUME NEW R, Requested(R), NEW start, NEW end PROVE L!OnlyCompleteLogs(R, start, end)
<1> DEFINE E == L!TokenEvents(R)
           rows == L!Finished(R)
           c == L!BackendCounts(E, rows, start, end)
<1>1. EventsOf(E, R) /\ FinishedRows(rows, R)
  BY EventsAre, RowsFinished
<1>2. c = L!Bad \/ Accepted(E, rows)
  BY ReportIs
<1> HIDE DEF E, rows, c
<1>3. ASSUME Accepted(E, rows), NEW k \in DOMAIN R, R[k].reason = "abort" PROVE FALSE
  <2>1. k \in DOMAIN rows /\ rows[k].reason = "abort"
    BY <1>1, <1>3 DEF FinishedRows
  <2> QED BY <1>3, <2>1 DEF Accepted, L!Successful
<1>4. ASSUME Accepted(E, rows), NEW k \in DOMAIN R, R[k].reason = "none", L!Tokens(R[k]) > 0 PROVE FALSE
  <2>1. k \notin DOMAIN rows
    BY <1>1, <1>4 DEF FinishedRows
  <2>2. PICK i \in Sending(R[k]) : TRUE
    BY <1>4, TokensSent DEF Requested
  <2>3. EventOf(R, k, i) \in E /\ EventOf(R, k, i).request_id = k
    BY <1>1 DEF EventsOf, EventOf
  <2>4. {e.request_id : e \in E} = DOMAIN rows
    BY <1>4, Zenon DEF Accepted, L!TotalsMatch
  <2> QED BY <2>1, <2>3, <2>4
<1> QED BY <1>2, <1>3, <1>4, Zenon DEF L!OnlyCompleteLogs, E, rows, c

-----------------------------------------------------------------------------
(* TraceBuild: validate_trace and acyclic graphs                           *)
\* validate_trace's search is the search of Foundations.
LEMMA CycleSearch ==
  ASSUME NEW ids, NEW parents, NEW roots
  PROVE  T!CycleFound(ids, parents, roots) = Visited(Searching(ids, parents), Begin, roots).cycle
BY Zenon DEF T!CycleFound, T!FoldLeft, T!MapThenFoldSet, T!Max, Greatest, Visited, AllVisited, Visiting,
             Searching, Visits, VisitOf, AfterVisit, OnEntry, Done, Begin, SearchStates

Ids(nodes) == {nodes[i].id : i \in DOMAIN nodes}
Distinct(nodes) == \A i, j \in DOMAIN nodes : nodes[i].id = nodes[j].id => i = j
Known(nodes) == \A i \in DOMAIN nodes : T!ToSet(nodes[i].depends_on) \subseteq Ids(nodes)
ParentsOf(nodes) == [n \in Ids(nodes) |-> (CHOOSE x \in T!ToSet(nodes) : x.id = n).depends_on]
ParentSet(nodes, n) == UNION {T!ToSet(nodes[i].depends_on) : i \in {j \in DOMAIN nodes : nodes[j].id = n}}
NoCycle(nodes) == \A S \in SUBSET Ids(nodes) : S # {} => \E n \in S : ParentSet(nodes, n) \cap S = {}
Sources(nodes) == [i \in DOMAIN nodes |-> nodes[i].id]
Nodes(X, Y) == {x \in Seq(X) : \A i \in DOMAIN x : x[i].depends_on \in Seq(Y)}

\* With distinct ids, both name the same parents.
LEMMA ParentsNamed ==
  ASSUME NEW nodes, Distinct(nodes), NEW i \in DOMAIN nodes
  PROVE  /\ ParentsOf(nodes)[nodes[i].id] = nodes[i].depends_on
         /\ ParentSet(nodes, nodes[i].id) = T!ToSet(nodes[i].depends_on)
<1>1. nodes[i].id \in Ids(nodes) /\ nodes[i] \in T!ToSet(nodes)
  BY DEF Ids, T!ToSet
<1>2. ASSUME NEW x \in T!ToSet(nodes), x.id = nodes[i].id PROVE x = nodes[i]
  BY <1>2 DEF Distinct, T!ToSet
<1>3. (CHOOSE x \in T!ToSet(nodes) : x.id = nodes[i].id) = nodes[i]
  BY <1>1, <1>2
<1>4. ParentsOf(nodes)[nodes[i].id] = (CHOOSE x \in T!ToSet(nodes) : x.id = nodes[i].id).depends_on
  BY <1>1, Zenon DEF ParentsOf
<1>5. {j \in DOMAIN nodes : nodes[j].id = nodes[i].id} = {i}
  BY DEF Distinct
<1>6. ParentSet(nodes, nodes[i].id) = UNION {T!ToSet(nodes[j].depends_on) : j \in {i}}
  BY <1>5, Zenon DEF ParentSet
<1>7. UNION {T!ToSet(nodes[j].depends_on) : j \in {i}} = T!ToSet(nodes[i].depends_on)
  OBVIOUS
<1> QED BY <1>3, <1>4, <1>6, <1>7

\* It finds a cycle unless every set of nodes has one that waits for no other of it.
LEMMA CycleMeansCycle ==
  ASSUME NEW X, NEW Y, NEW nodes \in Nodes(X, Y), Distinct(nodes), Known(nodes)
  PROVE  ~T!CycleFound(Ids(nodes), ParentsOf(nodes), Sources(nodes)) <=> NoCycle(nodes)
<1> DEFINE ids == Ids(nodes)
           parents == ParentsOf(nodes)
           roots == Sources(nodes)
<1>1. nodes \in Seq(X) /\ \A i \in DOMAIN nodes : nodes[i].depends_on \in Seq(Y)
  BY DEF Nodes
<1>2. roots \in Seq(ids) /\ {roots[i] : i \in DOMAIN roots} = ids
  <2>1. DOMAIN nodes = 1 .. Len(nodes) /\ Len(nodes) \in Nat
    BY <1>1
  <2>2. DOMAIN roots = DOMAIN nodes /\ \A i \in DOMAIN nodes : roots[i] = nodes[i].id
    BY DEF Sources
  <2>3. roots \in [1 .. Len(nodes) -> ids]
    BY <2>1 DEF Sources, Ids
  <2>4. {roots[i] : i \in DOMAIN roots} = ids
    BY <2>2 DEF Ids
  <2> QED BY <2>1, <2>3, <2>4
<1>3. ASSUME NEW n \in ids
      PROVE  parents[n] \in Seq(ids) /\ Up(parents, n) = ParentSet(nodes, n)
  <2>1. PICK i \in DOMAIN nodes : n = nodes[i].id
    BY DEF Ids
  <2>2. parents[n] = nodes[i].depends_on /\ ParentSet(nodes, n) = T!ToSet(nodes[i].depends_on)
    BY <2>1, ParentsNamed
  <2> HIDE DEF parents, ids
  <2>3. Up(parents, n) = T!ToSet(nodes[i].depends_on)
    BY <2>2 DEF Up, T!ToSet
  <2>4. nodes[i].depends_on \in Seq(Y) /\ \A j \in DOMAIN nodes[i].depends_on : nodes[i].depends_on[j] \in ids
    BY <1>1 DEF Known, T!ToSet, ids
  <2>5. nodes[i].depends_on \in Seq(ids)
    BY <2>4
  <2> QED BY <2>2, <2>3, <2>5
<1>4. IsFiniteSet(ids)
  <2> DEFINE f == [i \in DOMAIN nodes |-> nodes[i].id]
  <2>1. IsFiniteSet(DOMAIN nodes)
    BY <1>1, FS_Interval
  <2>2. ids = {f[i] : i \in DOMAIN nodes}
    BY DEF Ids
  <2> HIDE DEF f, ids
  <2> QED BY <2>1, <2>2, ImageFinite
<1> HIDE DEF ids, parents, roots
<1>5. Graph(ids, parents)
  BY <1>3, <1>4 DEF Graph
<1>6. HasSinks(parents, ids) <=> NoCycle(nodes)
  <2>1. \A n \in ids : Up(parents, n) = ParentSet(nodes, n)
    BY <1>3
  <2>2. HasSinks(parents, ids) <=> \A S \in SUBSET ids : S # {} => \E n \in S : ParentSet(nodes, n) \cap S = {}
    BY <2>1 DEF HasSinks
  <2>3. NoCycle(nodes) <=> \A S \in SUBSET ids : S # {} => \E n \in S : ParentSet(nodes, n) \cap S = {}
    BY DEF NoCycle, ids
  <2> QED BY <2>2, <2>3
<1>7. ~T!CycleFound(ids, parents, roots) <=> HasSinks(parents, ids)
  BY <1>2, <1>5, SearchDecides, CycleSearch
<1> QED BY <1>6, <1>7 DEF ids, parents, roots

\* So validate_trace accepts exactly the acyclic graphs.
LEMMA ValidDag == ASSUME NEW X, NEW Y, NEW nodes \in Nodes(X, Y) PROVE T!ValidIsDag(nodes)
<1> DEFINE counted == Cardinality(Ids(nodes)) = Len(nodes)
           once == \A i \in DOMAIN nodes : Cardinality(T!ToSet(nodes[i].depends_on)) = Len(nodes[i].depends_on)
           injective == \A i \in DOMAIN nodes : T!IsInjective(nodes[i].depends_on)
           acyclic == ~T!CycleFound(Ids(nodes), ParentsOf(nodes), Sources(nodes))
           inside == \A n \in Ids(nodes) : ParentSet(nodes, n) \subseteq Ids(nodes)
<1>1. nodes \in Seq(X) /\ \A i \in DOMAIN nodes : nodes[i].depends_on \in Seq(Y)
  BY DEF Nodes
<1>2. counted <=> Distinct(nodes)
  <2> DEFINE f == [i \in DOMAIN nodes |-> nodes[i].id]
  <2>1. DOMAIN nodes = 1 .. Len(nodes) /\ Len(nodes) \in Nat
    BY <1>1
  <2>2. Ids(nodes) = {f[i] : i \in 1 .. Len(nodes)}
    BY <2>1 DEF Ids
  <2>3. Distinct(nodes) <=> \A i, j \in 1 .. Len(nodes) : f[i] = f[j] => i = j
    BY <2>1 DEF Distinct
  <2> HIDE DEF f
  <2> QED BY <2>1, <2>2, <2>3, ImageCounted
<1>3. once <=> injective
  <2>1. ASSUME NEW d \in Seq(Y) PROVE Cardinality(T!ToSet(d)) = Len(d) <=> T!IsInjective(d)
    <3>1. DOMAIN d = 1 .. Len(d) /\ Len(d) \in Nat
      OBVIOUS
    <3>2. T!ToSet(d) = {d[i] : i \in 1 .. Len(d)}
      BY <3>1, Zenon DEF T!ToSet
    <3>3. T!IsInjective(d) <=> \A i, j \in 1 .. Len(d) : d[i] = d[j] => i = j
      BY <3>1, Zenon DEF T!IsInjective
    <3> QED BY <3>1, <3>2, <3>3, ImageCounted
  <2> QED BY <1>1, <2>1
<1>4. ASSUME Distinct(nodes) PROVE Known(nodes) <=> inside
  <2>1. \A i \in DOMAIN nodes : ParentSet(nodes, nodes[i].id) = T!ToSet(nodes[i].depends_on)
    BY <1>4, ParentsNamed
  <2> QED BY <2>1 DEF Known, Ids
<1>5. ASSUME Distinct(nodes), Known(nodes) PROVE acyclic <=> NoCycle(nodes)
  BY <1>5, CycleMeansCycle
<1>6. T!ValidTrace(nodes) <=> nodes # <<>> /\ counted /\ once /\ Known(nodes) /\ acyclic
  <2> DEFINE each == \A i \in DOMAIN nodes :
                       /\ Cardinality(T!ToSet(nodes[i].depends_on)) = Len(nodes[i].depends_on)
                       /\ T!ToSet(nodes[i].depends_on) \subseteq Ids(nodes)
  <2>1. T!ValidTrace(nodes) = (/\ nodes # <<>> /\ counted
                               /\ each /\ acyclic)
    BY Zenon DEF T!ValidTrace, Ids, ParentsOf, Sources, T!Cardinality, Cardinality
  <2>2. each <=> once /\ Known(nodes)
    BY Zenon DEF Known
  <2> HIDE DEF each, counted, once, acyclic
  <2> QED BY <2>1, <2>2
<1>7. T!ValidIsDag(nodes) <=> (T!ValidTrace(nodes) <=> nodes # <<>> /\ Distinct(nodes) /\ inside /\ injective /\ NoCycle(nodes))
  BY Zenon DEF T!ValidIsDag, Ids, Distinct, ParentSet, NoCycle
<1> HIDE DEF counted, once, injective, acyclic, inside
<1> QED BY <1>2, <1>3, <1>4, <1>5, <1>6, <1>7

-----------------------------------------------------------------------------
(* TraceBuild: pairing calls with turns                                    *)
\* The calls of C carry the id of a turn only if they answered it.
Answers(C, turns) ==
  \A c \in C : /\ c.sequence \in Int
               /\ \A i \in DOMAIN turns : turns[i].id # NoId /\ c.id = turns[i].id => c.turn = i
Listed(s) == {s[i] : i \in DOMAIN s}

\* The same operators, as the proofs and as TraceBuild name them.
LEMMA ListedIs == ASSUME NEW s PROVE T!ToSet(s) = Listed(s)
BY Zenon DEF T!ToSet, Listed

\* Sorting, likewise.
LEMMA RankedSame == \A S, R : T!Ranked(S, R) = Ranked(S, R)
BY Zenon DEF T!Ranked, Ranked, T!Cardinality, Cardinality

Sooner(calls) ==
  {p \in (DOMAIN calls) \X (DOMAIN calls) : \/ calls[p[1]].sequence < calls[p[2]].sequence
                                        \/ /\ calls[p[1]].sequence = calls[p[2]].sequence
                                           /\ p[1] < p[2]}

\* Sorting the captured calls loses none.
LEMMA CapturedAll ==
  ASSUME NEW C, \A c \in C : c.sequence \in Int, NEW calls \in Seq(C)
  PROVE  /\ T!Captured(calls) \in Seq(C) /\ Len(T!Captured(calls)) = Len(calls)
         /\ Listed(T!Captured(calls)) = Listed(calls)
<1> DEFINE K == DOMAIN calls
           n == Len(calls)
           o == Ranked(K, Sooner(calls))
           s == [i \in K |-> calls[o[i]]]
<1>1. K = 1 .. n /\ n \in Nat /\ \A i \in K : calls[i] \in C
  OBVIOUS
<1>2. IsFiniteSet(K) /\ Cardinality(K) = n
  <2>1. 1 \in Int /\ n \in Int /\ n - 1 + 1 = n
    BY <1>1
  <2> QED BY <1>1, <2>1, FS_Interval
<1>3. Total(K, Sooner(calls))
  <2> DEFINE q == [i \in K |-> calls[i].sequence]
  <2>1. \A i \in K : i \in Int /\ q[i] \in Int
    BY <1>1
  <2>2. ASSUME NEW i \in K, NEW j \in K
        PROVE  <<i, j>> \in Sooner(calls) <=> q[i] < q[j] \/ (q[i] = q[j] /\ i < j)
    BY DEF Sooner
  <2> HIDE DEF q, K
  <2> QED BY <2>1, <2>2 DEF Total
<1>4. InOrderOf(o, K, Sooner(calls))
  <2> HIDE DEF K
  <2> QED BY <1>2, <1>3, RankedInOrder
<1>5. (\A i \in K : o[i] \in K) /\ \A x \in K : \E i \in K : o[i] = x
  BY <1>1, <1>2, <1>4, Zenon DEF InOrderOf
<1>6. T!Captured(calls) = s
  BY Zenon DEF T!Captured, Sooner, T!Ranked, Ranked, T!Cardinality, Cardinality
<1> HIDE DEF o
<1>7. DOMAIN s = K /\ \A i \in K : s[i] = calls[o[i]] /\ s[i] \in C
  BY <1>1, <1>5
<1>8. Listed(s) = Listed(calls)
  <2> HIDE DEF s, K
  <2>1. ASSUME NEW x \in Listed(s) PROVE x \in Listed(calls)
    <3>1. PICK i \in K : x = s[i]
      BY <1>7 DEF Listed
    <3> QED BY <1>5, <1>7, <3>1 DEF Listed, K
  <2>2. ASSUME NEW x \in Listed(calls) PROVE x \in Listed(s)
    <3>1. PICK j \in K : x = calls[j]
      BY DEF Listed, K
    <3>2. PICK i \in K : o[i] = j
      BY <1>5
    <3> QED BY <1>7, <3>1, <3>2 DEF Listed
  <2> QED BY <2>1, <2>2
<1>9. s \in Seq(C) /\ Len(s) = n
  <2>1. s = [i \in 1 .. n |-> s[i]]
    BY <1>1
  <2> HIDE DEF s
  <2> QED BY <1>1, <1>7, <2>1
<1> QED BY <1>6, <1>8, <1>9

\* Taking an element out of a sequence.
LEMMA FirstRemoved ==
  ASSUME NEW D, NEW u \in Seq(D), NEW i \in DOMAIN u
  PROVE  /\ T!RemoveFirst(u, u[i]) \in Seq(D) /\ Len(T!RemoveFirst(u, u[i])) = Len(u) - 1
         /\ Listed(u) = Listed(T!RemoveFirst(u, u[i])) \cup {u[i]}
         /\ i = 1 => T!RemoveFirst(u, u[i]) = Tail(u)
<1> DEFINE n == Len(u)
           I == {j \in 1 .. n : u[j] = u[i]}
           m == CHOOSE x \in I : \A y \in I : x =< y
           r == T!RemoveFirst(u, u[i])
<1>1. n \in Nat /\ DOMAIN u = 1 .. n /\ i \in I
  OBVIOUS
<1>2. m \in I /\ \A y \in I : m <= y
  <2>1. \E x \in I : \A y \in I : x <= y
    <3>1. I \subseteq Nat /\ I # {}
      BY <1>1
    <3> HIDE DEF I
    <3> QED BY <3>1, Least
  <2> HIDE DEF I
  <2> QED BY <2>1
<1>3. r = SubSeq(u, 1, m - 1) \o SubSeq(u, m + 1, n)
  <2>1. \E j \in 1 .. n : u[j] = u[i]
    BY <1>1
  <2>2. I # {}
    BY <1>1
  <2> QED BY <2>1, <2>2, Zenon DEF T!RemoveFirst, T!RemoveAt, T!SelectInSeq, T!Min
<1> HIDE DEF m, r
<1>4. m \in 1 .. n /\ u[m] = u[i]
  BY <1>2
<1> HIDE DEF I, n
<1> DEFINE a == SubSeq(u, 1, m - 1)
           b == SubSeq(u, m + 1, n)
<1>0. \A j \in 1 .. n : u[j] \in D
  BY DEF n
<1>5. a \in Seq(D) /\ Len(a) = m - 1 /\ \A j \in 1 .. m - 1 : a[j] = u[j]
  <2>1. m - 1 \in Int /\ (\A j \in 1 .. m - 1 : u[j] \in D) /\ (m - 1) - 1 + 1 = m - 1
    BY <1>0, <1>1, <1>4
  <2>2. /\ a \in Seq(D) /\ Len(a) = IF 1 <= m - 1 THEN (m - 1) - 1 + 1 ELSE 0
        /\ \A j \in 1 .. (m - 1) - 1 + 1 : a[j] = u[1 + j - 1]
    BY <2>1, SubSeqProperties
  <2>3. \A j \in 1 .. m - 1 : 1 + j - 1 = j
    OBVIOUS
  <2> HIDE DEF a
  <2> QED BY <1>4, <2>1, <2>2, <2>3
<1>6. b \in Seq(D) /\ Len(b) = n - m /\ \A j \in 1 .. n - m : b[j] = u[m + j]
  <2>1. m + 1 \in Int /\ (\A j \in m + 1 .. n : u[j] \in D) /\ n - (m + 1) + 1 = n - m
    BY <1>0, <1>1, <1>4
  <2>2. /\ b \in Seq(D) /\ Len(b) = IF m + 1 <= n THEN n - (m + 1) + 1 ELSE 0
        /\ \A j \in 1 .. n - (m + 1) + 1 : b[j] = u[(m + 1) + j - 1]
    BY <1>1, <2>1, SubSeqProperties
  <2>3. \A j \in 1 .. n - m : (m + 1) + j - 1 = m + j
    BY <1>4
  <2> HIDE DEF b
  <2> QED BY <1>1, <1>4, <2>1, <2>2, <2>3
<1> HIDE DEF a, b
<1>7. r \in Seq(D) /\ Len(r) = n - 1 /\ \A j \in 1 .. n - 1 : r[j] = IF j < m THEN u[j] ELSE u[j + 1]
  <2>1. r = a \o b
    BY <1>3 DEF a, b
  <2>2. r \in Seq(D) /\ Len(r) = (m - 1) + (n - m)
    <3>1. a \o b \in Seq(D) /\ Len(a \o b) = Len(a) + Len(b)
      BY <1>5, <1>6, ConcatProperties
    <3> QED BY <1>5, <1>6, <2>1, <3>1
  <2>3. ASSUME NEW j \in 1 .. n - 1 PROVE r[j] = IF j < m THEN u[j] ELSE u[j + 1]
    <3>1. CASE j < m
      BY <1>1, <1>4, <1>5, <1>6, <2>1, <3>1
    <3>2. CASE ~(j < m)
      <4>1. j - (m - 1) \in 1 .. n - m /\ m + (j - (m - 1)) = j + 1
        BY <1>1, <1>4, <3>2
      <4>2. r[j] = b[j - (m - 1)]
        BY <1>1, <1>4, <1>5, <1>6, <2>1, <3>2
      <4> QED BY <1>6, <3>2, <4>1, <4>2
    <3> QED BY <3>1, <3>2
  <2>4. (m - 1) + (n - m) = n - 1
    BY <1>1, <1>4
  <2> QED BY <2>2, <2>3, <2>4
<1>8. DOMAIN r = 1 .. n - 1
  BY <1>7
<1>9. ASSUME NEW x PROVE x \in Listed(u) <=> x \in Listed(r) \/ x = u[i]
  <2>1. ASSUME NEW j \in 1 .. n, j # m PROVE u[j] \in Listed(r)
    <3>1. CASE j < m
      <4>1. j \in 1 .. n - 1 /\ r[j] = u[j]
        BY <1>1, <1>4, <1>7, <3>1
      <4> QED BY <1>8, <4>1 DEF Listed
    <3>2. CASE j > m
      <4>1. j - 1 \in 1 .. n - 1 /\ ~(j - 1 < m) /\ (j - 1) + 1 = j
        BY <1>1, <1>4, <3>2
      <4>2. r[j - 1] = u[j]
        BY <1>7, <4>1
      <4> QED BY <1>8, <4>1, <4>2 DEF Listed
    <3> QED BY <1>4, <2>1, <3>1, <3>2
  <2>2. ASSUME NEW j \in 1 .. n - 1 PROVE r[j] \in Listed(u)
    <3>1. j \in 1 .. n /\ j + 1 \in 1 .. n
      BY <1>1
    <3> QED BY <1>1, <1>7, <3>1 DEF Listed
  <2>3. x \in Listed(u) <=> \E j \in 1 .. n : x = u[j]
    BY <1>1 DEF Listed
  <2>4. x \in Listed(r) <=> \E j \in 1 .. n - 1 : x = r[j]
    BY <1>8 DEF Listed
  <2> QED BY <1>1, <1>4, <2>1, <2>2, <2>3, <2>4
<1>10. ASSUME i = 1 PROVE r = Tail(u)
  <2>1. m = 1
    <3>1. m <= 1
      BY <1>1, <1>2, <1>10
    <3> QED BY <1>4, <3>1
  <2>2. \A j \in 1 .. n - 1 : r[j] = u[j + 1]
    BY <1>7, <2>1
  <2> QED BY <1>1, <1>7, <2>2 DEF n
<1> QED BY <1>7, <1>9, <1>10 DEF r, n

TakeStates(D) == [all : Seq(D), unused : Seq(D), ordered : Seq(D)]
Same(s, turn) == {i \in DOMAIN s.all : s.all[i].id = turn.id /\ turn.id # NoId}
Named(s, turn) == IF Same(s, turn) = {} THEN {} ELSE {s.all[CHOOSE i \in Same(s, turn) : \A j \in Same(s, turn) : j <= i]}
Taken(s, turn) ==
  IF Named(s, turn) # {} /\ Named(s, turn) \subseteq Listed(s.unused)
  THEN CHOOSE c \in Named(s, turn) : TRUE ELSE s.unused[1]
TakeOut(s, c) == [s EXCEPT !.unused = T!RemoveFirst(@, c), !.ordered = Append(@, c)]

\* A turn takes one call out of those that are unused:
LEMMA TakeIs == ASSUME NEW s, NEW turn PROVE T!TakeCall(s, turn) = TakeOut(s, Taken(s, turn))
BY Zenon DEF T!TakeCall, TakeOut, Taken, Named, Same, T!ToSet, Listed

\* The named call carries the turn's id.
LEMMA NamedIs ==
  ASSUME NEW D, NEW s \in TakeStates(D), NEW turn
  PROVE  /\ Named(s, turn) = {} => Same(s, turn) = {}
         /\ Named(s, turn) # {} => \E i \in DOMAIN s.all : /\ Named(s, turn) = {s.all[i]}
                                                          /\ s.all[i].id = turn.id /\ turn.id # NoId
<1> DEFINE S == Same(s, turn)
           i == CHOOSE x \in S : \A j \in S : j <= x
<1>1. s.all \in Seq(D)
  BY DEF TakeStates
<1>2. DOMAIN s.all = 1 .. Len(s.all) /\ Len(s.all) \in Nat
  BY <1>1
<1>3. S \in SUBSET (1 .. Len(s.all))
  BY <1>2 DEF Same
<1>4. CASE S = {}
  BY <1>4 DEF Named
<1>5. CASE S # {}
  <2> HIDE DEF S
  <2>1. \E x \in S : \A j \in S : j <= x
    <3>1. Greatest(S) \in S /\ \A j \in S : Greatest(S) >= j
      BY <1>2, <1>3, <1>5, GreatestIn
    <3>2. \A j \in S : j \in Int
      BY <1>2, <1>3
    <3> QED BY <3>1, <3>2
  <2>2. i \in S
    BY <2>1
  <2> HIDE DEF i
  <2>3. i \in DOMAIN s.all /\ s.all[i].id = turn.id /\ turn.id # NoId
    BY <2>2 DEF S, Same
  <2>4. Named(s, turn) = {s.all[i]}
    BY <1>5, Zenon DEF Named, S, i
  <2> QED BY <2>3, <2>4
<1> QED BY <1>4, <1>5

\* the one it names, or else the first.
LEMMA TakenIn ==
  ASSUME NEW D, NEW s \in TakeStates(D), s.unused # <<>>, NEW turn
  PROVE  \E i \in DOMAIN s.unused :
           /\ Taken(s, turn) = s.unused[i]
           /\ i = 1 \/ Named(s, turn) = {s.unused[i]}
           /\ (Named(s, turn) # {} /\ Named(s, turn) \subseteq Listed(s.unused)) => Named(s, turn) = {s.unused[i]}
<1> DEFINE N == Named(s, turn)
           u == s.unused
           usable == N # {} /\ N \subseteq Listed(u)
<1>1. u \in Seq(D)
  BY DEF TakeStates
<1>2. CASE usable
  <2>1. PICK c : N = {c}
    BY <1>2, NamedIs
  <2>2. Taken(s, turn) = CHOOSE x \in N : TRUE
    BY <1>2, Zenon DEF Taken
  <2> HIDE DEF N
  <2>3. Taken(s, turn) = c
    BY <2>1, <2>2
  <2>4. PICK i \in DOMAIN u : c = u[i]
    BY <1>2, <2>1 DEF Listed
  <2> QED BY <2>1, <2>3, <2>4 DEF N
<1>3. CASE ~usable
  <2>1. Taken(s, turn) = u[1]
    BY <1>3, Zenon DEF Taken
  <2>2. 1 \in DOMAIN u
    BY <1>1
  <2> QED BY <1>3, <2>1, <2>2
<1> QED BY <1>2, <1>3

Out(s, i, t) ==
  /\ t.all = s.all /\ Len(t.unused) = Len(s.unused) - 1 /\ t.ordered = Append(s.ordered, s.unused[i])
  /\ Listed(s.unused) = Listed(t.unused) \cup {s.unused[i]}
  /\ i = 1 => t.unused = Tail(s.unused)

\* What taking it out leaves.
LEMMA TakeOutIs ==
  ASSUME NEW D, NEW s \in TakeStates(D), NEW i \in DOMAIN s.unused
  PROVE  TakeOut(s, s.unused[i]) \in TakeStates(D) /\ Out(s, i, TakeOut(s, s.unused[i]))
<1> DEFINE c == s.unused[i]
           r == T!RemoveFirst(s.unused, c)
           t == TakeOut(s, c)
<1>1. s.unused \in Seq(D) /\ s.ordered \in Seq(D) /\ s.all \in Seq(D)
  BY DEF TakeStates
<1>2. c \in D
  BY <1>1
<1>3. /\ r \in Seq(D) /\ Len(r) = Len(s.unused) - 1 /\ Listed(s.unused) = Listed(r) \cup {c}
      /\ i = 1 => r = Tail(s.unused)
  BY <1>1, FirstRemoved
<1> HIDE DEF c, r
<1>4. Append(s.ordered, c) \in Seq(D)
  BY <1>1, <1>2
<1>5. t \in TakeStates(D) /\ t.all = s.all /\ t.unused = r /\ t.ordered = Append(s.ordered, c)
  BY <1>1, <1>3, <1>4 DEF TakeStates, TakeOut, r
<1>6. Out(s, i, t)
  <2> HIDE DEF t
  <2> QED BY <1>3, <1>5 DEF Out, c
<1> QED BY <1>5, <1>6 DEF c

\* Also without a call that is left.
LEMMA TakeStays ==
  ASSUME NEW C, NEW s \in TakeStates(C \cup {(<<>>)[1]}), NEW turn
  PROVE  T!TakeCall(s, turn) \in TakeStates(C \cup {(<<>>)[1]})
<1> DEFINE D == C \cup {(<<>>)[1]}
           c == Taken(s, turn)
<1>1. s \in TakeStates(D) /\ s.unused \in Seq(D) /\ s.ordered \in Seq(D) /\ s.all \in Seq(D)
  BY DEF TakeStates
<1>2. CASE s.unused = <<>>
  <2>1. Listed(s.unused) = {}
    BY <1>2 DEF Listed
  <2>2. c = s.unused[1]
    BY <2>1 DEF Taken
  <2>3. c \in D
    BY <1>2, <2>2
  <2>4. T!RemoveFirst(s.unused, c) = <<>>
    <3>1. ~\E i \in 1 .. Len(s.unused) : s.unused[i] = c
      BY <1>2
    <3> QED BY <1>2, <3>1, Zenon DEF T!RemoveFirst
  <2> HIDE DEF c, D
  <2>5. Append(s.ordered, c) \in Seq(D)
    BY <1>1, <2>3
  <2> DEFINE r == T!RemoveFirst(s.unused, c)
  <2>6. r \in Seq(D)
    BY <2>4
  <2> HIDE DEF r
  <2>7. TakeOut(s, c) \in TakeStates(D)
    BY <1>1, <2>5, <2>6 DEF TakeStates, TakeOut, r
  <2> QED BY <2>7, TakeIs DEF c, D
<1>3. CASE s.unused # <<>>
  <2>1. PICK i \in DOMAIN s.unused : c = s.unused[i]
    BY <1>3, TakenIn
  <2>2. TakeOut(s, s.unused[i]) \in TakeStates(D)
    BY TakeOutIs
  <2> QED BY <2>1, <2>2, TakeIs
<1> QED BY <1>2, <1>3

TakeStart(sorted) == [all |-> sorted, unused |-> sorted, ordered |-> <<>>]
Taking(g, sorted, turns) ==
  g = [s \in SUBSET DOMAIN turns |->
         IF s = {} THEN TakeStart(sorted) ELSE T!TakeCall(g[s \ {Greatest(s)}], turns[Greatest(s)])]
AllTaken(sorted, turns) == CHOOSE g : Taking(g, sorted, turns)
TakeSteps(f, sorted, turns, V) ==
  /\ f \in [0 .. Len(turns) -> V] /\ f[0] = TakeStart(sorted)
  /\ \A k \in 1 .. Len(turns) : f[k] = T!TakeCall(f[k - 1], turns[k])

\* The pairing, turn by turn.
LEMMA TakeStepwise ==
  ASSUME NEW C, NEW sorted \in Seq(C), NEW U, NEW turns \in Seq(U), Len(sorted) = Len(turns)
  PROVE  \E f : /\ TakeSteps(f, sorted, turns, TakeStates(C \cup {(<<>>)[1]}))
                /\ AllTaken(sorted, turns)[DOMAIN turns] = f[Len(turns)]
<1> DEFINE V == TakeStates(C \cup {(<<>>)[1]})
           n == Len(turns)
           step == [x \in (1 .. n) \X V |-> T!TakeCall(x[2], turns[x[1]])]
           base == TakeStart(sorted)
           all == AllTaken(sorted, turns)
<1>1. n \in Nat /\ DOMAIN turns = 1 .. n
  OBVIOUS
<1>2. base \in V
  <2>1. sorted \in Seq(C \cup {(<<>>)[1]}) /\ <<>> \in Seq(C \cup {(<<>>)[1]})
    OBVIOUS
  <2> QED BY <2>1 DEF TakeStart, TakeStates
<1>3. \A s \in V : \A turn : T!TakeCall(s, turn) \in V
  BY TakeStays
<1> HIDE DEF V, n, base
<1>4. step \in [(1 .. n) \X V -> V]
  BY <1>3
<1>5. PICK g \in [SUBSET (1 .. n) -> V] : Folding(base, step, g, n)
  <2> HIDE DEF step
  <2> QED BY <1>1, <1>2, <1>4, FoldsExist
<1>6. Taking(g, sorted, turns)
  <2>1. ASSUME NEW s \in SUBSET (1 .. n), s # {}
        PROVE  Folded(base, step, g, s) = T!TakeCall(g[s \ {Greatest(s)}], turns[Greatest(s)])
    <3>1. Greatest(s) \in 1 .. n
      BY <1>1, <2>1, GreatestIn
    <3>2. g[s \ {Greatest(s)}] \in V
      BY <1>5
    <3> QED BY <2>1, <3>1, <3>2 DEF Folded
  <2>2. Folded(base, step, g, {}) = base
    BY DEF Folded
  <2> HIDE DEF step
  <2> QED BY <1>1, <1>5, <2>1, <2>2 DEF Taking, Folding, base
<1>7. Taking(all, sorted, turns)
  BY <1>6, Zenon DEF AllTaken
<1> HIDE DEF all
<1> DEFINE f == [k \in 0 .. n |-> all[1 .. k]]
<1>8. f[0] = base
  <2>1. {} \in SUBSET DOMAIN turns /\ 1 .. 0 = {} /\ 0 \in 0 .. n
    BY <1>1
  <2> QED BY <1>7, <2>1 DEF Taking, base
<1>9. ASSUME NEW k \in 1 .. n PROVE f[k] = T!TakeCall(f[k - 1], turns[k])
  <2>1. /\ (1 .. k) \in SUBSET DOMAIN turns /\ 1 .. k # {}
        /\ Greatest(1 .. k) = k /\ (1 .. k) \ {k} = 1 .. k - 1
    BY <1>1, Segments
  <2>2. k \in 0 .. n /\ k - 1 \in 0 .. n
    BY <1>1
  <2>3. all[1 .. k] = T!TakeCall(all[1 .. k - 1], turns[k])
    BY <1>7, <2>1, Zenon DEF Taking
  <2> QED BY <2>2, <2>3
<1>10. f = [k \in 0 .. n |-> f[k]] /\ f[n] = all[1 .. n]
  BY <1>1
<1> HIDE DEF f
<1>11. f \in [0 .. n -> V]
  <2>1. \A k \in 1 .. n : f[k - 1] \in V => f[k] \in V
    BY <1>3, <1>9
  <2> QED BY <1>1, <1>2, <1>8, <1>10, <2>1, StepsStay
<1>12. TakeSteps(f, sorted, turns, V) /\ all[DOMAIN turns] = f[n]
  BY <1>1, <1>8, <1>9, <1>10, <1>11 DEF TakeSteps, n, base
<1> QED BY <1>12 DEF V, n, all

\* The pairing is the last of these steps.
LEMMA OrderedIs ==
  ASSUME NEW turns, NEW calls, Len(calls) = Len(turns)
  PROVE  T!OrderedCalls(turns, calls) = AllTaken(T!Captured(calls), turns)[DOMAIN turns].ordered
BY Zenon DEF T!OrderedCalls, T!FoldLeft, T!MapThenFoldSet, T!Max, Greatest, AllTaken, Taking, TakeStart

\* After k turns, k calls are taken and the others are left.
CallsKept(s, k, n, sorted) ==
  /\ s.all = sorted /\ Len(s.unused) = n - k /\ Len(s.ordered) = k
  /\ Listed(s.ordered) \cup Listed(s.unused) = Listed(sorted)
Own(s, k) == \A j \in 1 .. k : s.ordered[j].turn = j
Running(s, k, n, sorted) ==
  (\A j \in 1 .. k : s.ordered[j] = sorted[j]) /\ \A j \in 1 .. n - k : s.unused[j] = sorted[k + j]
AllKnown(sorted, turns) ==
  \A i \in DOMAIN turns : turns[i].id # NoId /\ \E c \in Listed(sorted) : c.id = turns[i].id
InTurn(sorted) == \A i \in DOMAIN sorted : sorted[i].turn = i
Paired(s, k, n, sorted, turns) ==
  /\ CallsKept(s, k, n, sorted)
  /\ AllKnown(sorted, turns) => Own(s, k)
  /\ InTurn(sorted) => Running(s, k, n, sorted)
TakesOne(s, i, turn, t) ==
  /\ Out(s, i, t)
  /\ i = 1 \/ Named(s, turn) = {s.unused[i]}
  /\ (Named(s, turn) # {} /\ Named(s, turn) \subseteq Listed(s.unused)) => Named(s, turn) = {s.unused[i]}

\* Both together.
LEMMA TakeTakesOne ==
  ASSUME NEW D, NEW s \in TakeStates(D), s.unused # <<>>, NEW turn
  PROVE  \E i \in DOMAIN s.unused : TakesOne(s, i, turn, T!TakeCall(s, turn))
<1>1. PICK i \in DOMAIN s.unused :
        /\ Taken(s, turn) = s.unused[i]
        /\ i = 1 \/ Named(s, turn) = {s.unused[i]}
        /\ (Named(s, turn) # {} /\ Named(s, turn) \subseteq Listed(s.unused)) => Named(s, turn) = {s.unused[i]}
  BY TakenIn
<1>2. T!TakeCall(s, turn) = TakeOut(s, s.unused[i])
  BY <1>1, TakeIs
<1> DEFINE t == TakeOut(s, s.unused[i])
<1>3. Out(s, i, t)
  BY TakeOutIs
<1> HIDE DEF t
<1>4. TakesOne(s, i, turn, t)
  BY <1>1, <1>3, Zenon DEF TakesOne
<1> QED BY <1>2, <1>4 DEF t

\* The next turn is paired as those before it.
LEMMA PairedOn ==
  ASSUME NEW C, NEW D, NEW turns, Answers(C, turns), NEW sorted \in Seq(C), NEW n \in Nat, Len(sorted) = n,
         NEW k \in Nat, k + 1 <= n, DOMAIN turns = 1 .. n,
         NEW s \in TakeStates(D), Paired(s, k, n, sorted, turns)
  PROVE  Paired(T!TakeCall(s, turns[k + 1]), k + 1, n, sorted, turns)
<1> DEFINE turn == turns[k + 1]
           t == T!TakeCall(s, turn)
<1>1. /\ s.unused \in Seq(D) /\ s.ordered \in Seq(D) /\ s.all = sorted
      /\ Len(s.unused) = n - k /\ Len(s.ordered) = k
      /\ Listed(s.ordered) \cup Listed(s.unused) = Listed(sorted)
  BY DEF TakeStates, Paired, CallsKept
<1>2. s.unused # <<>> /\ DOMAIN s.unused = 1 .. n - k
  BY <1>1
<1>3. PICK i \in DOMAIN s.unused : TakesOne(s, i, turn, t)
  BY <1>2, TakeTakesOne
<1> DEFINE c == s.unused[i]
<1> HIDE DEF t, turn, c
<1>4. /\ t.all = sorted /\ Len(t.unused) = n - (k + 1) /\ t.ordered = Append(s.ordered, c)
      /\ Listed(s.unused) = Listed(t.unused) \cup {c}
  <2>1. /\ t.all = s.all /\ Len(t.unused) = Len(s.unused) - 1 /\ t.ordered = Append(s.ordered, c)
        /\ Listed(s.unused) = Listed(t.unused) \cup {c}
    BY <1>3, Zenon DEF TakesOne, Out, c
  <2> QED BY <1>1, <2>1
<1>5. Len(t.ordered) = k + 1 /\ t.ordered[k + 1] = c /\ \A j \in 1 .. k : t.ordered[j] = s.ordered[j]
  BY <1>1, <1>4
<1>6. CallsKept(t, k + 1, n, sorted)
  <2>1. Listed(t.ordered) = Listed(s.ordered) \cup {c}
    <3>1. DOMAIN s.ordered = 1 .. k /\ DOMAIN t.ordered = 1 .. k + 1
      BY <1>1, <1>4
    <3>2. 1 .. k + 1 = (1 .. k) \cup {k + 1}
      OBVIOUS
    <3>3. Listed(t.ordered) = {t.ordered[j] : j \in (1 .. k) \cup {k + 1}}
      BY <3>1, <3>2, Zenon DEF Listed
    <3>4. Listed(s.ordered) = {s.ordered[j] : j \in 1 .. k}
      BY <3>1, Zenon DEF Listed
    <3> QED BY <1>5, <3>3, <3>4
  <2>2. Listed(t.ordered) \cup Listed(t.unused) = Listed(sorted)
    BY <1>1, <1>4, <2>1
  <2> QED BY <1>4, <1>5, <2>2 DEF CallsKept
<1>7. \A x \in Listed(sorted) : x \in C
  BY DEF Listed
<1>8. ASSUME NEW x \in Listed(sorted), x.id = turn.id, turn.id # NoId PROVE x.turn = k + 1
  <2>1. k + 1 \in DOMAIN turns
    OBVIOUS
  <2>2. x \in C
    BY <1>7
  <2> QED BY <1>8, <2>1, <2>2 DEF Answers, turn
<1>9. ASSUME AllKnown(sorted, turns), Own(s, k) PROVE Own(t, k + 1)
  <2>1. turn.id # NoId /\ \E x \in Listed(sorted) : x.id = turn.id
    BY <1>9 DEF AllKnown, turn
  <2>2. Same(s, turn) # {}
    BY <1>1, <2>1 DEF Same, Listed
  <2>3. PICK m \in DOMAIN s.all : Named(s, turn) = {s.all[m]} /\ s.all[m].id = turn.id
    BY <2>2, NamedIs
  <2>4. s.all[m] \in Listed(sorted)
    BY <1>1, <2>3 DEF Listed
  <2>5. s.all[m].turn = k + 1
    BY <1>8, <2>1, <2>3, <2>4
  <2>6. s.all[m] \notin Listed(s.ordered)
    <3>1. DOMAIN s.ordered = 1 .. k
      BY <1>1
    <3>2. \A j \in 1 .. k : s.ordered[j].turn = j
      BY <1>9 DEF Own
    <3> QED BY <2>5, <3>1, <3>2 DEF Listed
  <2>7. Named(s, turn) # {} /\ Named(s, turn) \subseteq Listed(s.unused)
    BY <1>1, <2>3, <2>4, <2>6
  <2>8. Named(s, turn) = {c}
    BY <1>3, <2>7, Zenon DEF TakesOne, c
  <2>9. c.turn = k + 1
    BY <2>3, <2>5, <2>8
  <2>10. ASSUME NEW j \in 1 .. k + 1 PROVE t.ordered[j].turn = j
    <3>1. CASE j = k + 1
      BY <1>5, <2>9, <3>1
    <3>2. CASE j # k + 1
      <4>1. j \in 1 .. k
        BY <3>2
      <4> QED BY <1>5, <1>9, <4>1 DEF Own
    <3> QED BY <3>1, <3>2
  <2> QED BY <2>10 DEF Own
<1>10. ASSUME InTurn(sorted), Running(s, k, n, sorted) PROVE Running(t, k + 1, n, sorted)
  <2>1. (\A j \in 1 .. k : s.ordered[j] = sorted[j]) /\ \A j \in 1 .. n - k : s.unused[j] = sorted[k + j]
    BY <1>10, Zenon DEF Running
  <2>2. DOMAIN sorted = 1 .. n
    OBVIOUS
  <2>3. i \in 1 .. n - k /\ c = sorted[k + i] /\ k + i \in 1 .. n
    BY <1>2, <2>1 DEF c
  <2>4. i = 1
    <3> SUFFICES ASSUME i # 1 PROVE FALSE
      OBVIOUS
    <3>1. Named(s, turn) = {c}
      BY <1>3, Zenon DEF TakesOne, c
    <3>2. c.id = turn.id /\ turn.id # NoId
      BY <3>1, NamedIs
    <3>3. c \in Listed(sorted)
      BY <2>2, <2>3 DEF Listed
    <3>4. c.turn = k + 1
      BY <1>8, <3>2, <3>3
    <3>5. c.turn = k + i
      BY <1>10, <2>2, <2>3 DEF InTurn
    <3> QED BY <2>3, <3>4, <3>5
  <2>5. t.unused = Tail(s.unused)
    BY <1>3, <2>4, Zenon DEF TakesOne, Out
  <2>6. ASSUME NEW j \in 1 .. n - (k + 1) PROVE t.unused[j] = sorted[(k + 1) + j]
    <3>1. t.unused[j] = s.unused[j + 1]
      BY <1>1, <2>5
    <3>2. j + 1 \in 1 .. n - k /\ k + (j + 1) = (k + 1) + j
      OBVIOUS
    <3> QED BY <2>1, <3>1, <3>2
  <2>7. ASSUME NEW j \in 1 .. k + 1 PROVE t.ordered[j] = sorted[j]
    <3>1. CASE j = k + 1
      BY <1>5, <2>3, <2>4, <3>1
    <3>2. CASE j # k + 1
      <4>1. j \in 1 .. k
        BY <3>2
      <4> QED BY <1>5, <2>1, <4>1
    <3> QED BY <3>1, <3>2
  <2> QED BY <2>6, <2>7 DEF Running
<1>11. Paired(t, k + 1, n, sorted, turns)
  BY <1>6, <1>9, <1>10, Zenon DEF Paired
<1> QED BY <1>11 DEF t, turn

\* All turns are paired with their own calls.
LEMMA PairsRight ==
  ASSUME NEW U, NEW turns \in Seq(U), NEW C, Answers(C, turns), NEW calls \in Seq(C)
  PROVE  T!PairedRight(turns, calls)
<1> DEFINE paired == T!OrderedCalls(turns, calls)
           sorted == T!Captured(calls)
           n == Len(turns)
           D == C \cup {(<<>>)[1]}
<1>1. CASE Len(calls) # n
  <2>1. paired = T!Error
    BY <1>1, Zenon DEF T!OrderedCalls
  <2> QED BY <2>1, Zenon DEF T!PairedRight
<1>2. CASE Len(calls) = n
  <2>1. sorted \in Seq(C) /\ Len(sorted) = n /\ Listed(sorted) = Listed(calls)
    <3>1. \A c \in C : c.sequence \in Int
      BY DEF Answers
    <3> HIDE DEF sorted
    <3> QED BY <1>2, <3>1, CapturedAll DEF sorted
  <2>2. n \in Nat /\ DOMAIN turns = 1 .. n
    OBVIOUS
  <2> HIDE DEF sorted
  <2>3. PICK f : TakeSteps(f, sorted, turns, TakeStates(D)) /\ AllTaken(sorted, turns)[DOMAIN turns] = f[n]
    BY <2>1, TakeStepwise
  <2> HIDE DEF D, n
  <2>4. /\ f \in [0 .. n -> TakeStates(D)] /\ f[0] = TakeStart(sorted)
        /\ \A k \in 1 .. n : f[k] = T!TakeCall(f[k - 1], turns[k])
    BY <2>3, Zenon DEF TakeSteps, n
  <2> DEFINE F == {k \in Nat : k <= n => Paired(f[k], k, n, sorted, turns)}
  <2>5. 0 \in F
    <3>1. f[0].all = sorted /\ f[0].unused = sorted /\ f[0].ordered = <<>>
      BY <2>4 DEF TakeStart
    <3>2. Listed(<<>>) = {}
      BY DEF Listed
    <3>3. CallsKept(f[0], 0, n, sorted)
      BY <2>1, <2>2, <3>1, <3>2 DEF CallsKept
    <3>4. Own(f[0], 0) /\ Running(f[0], 0, n, sorted)
      BY <2>2, <3>1 DEF Own, Running
    <3> QED BY <3>3, <3>4 DEF Paired
  <2>6. ASSUME NEW k \in Nat, k \in F PROVE k + 1 \in F
    <3> SUFFICES ASSUME k + 1 <= n PROVE Paired(f[k + 1], k + 1, n, sorted, turns)
      OBVIOUS
    <3>1. k + 1 \in 1 .. n /\ k \in 0 .. n /\ (k + 1) - 1 = k
      BY <2>2
    <3>2. f[k] \in TakeStates(D) /\ f[k + 1] = T!TakeCall(f[k], turns[k + 1])
      BY <2>4, <3>1
    <3>3. Paired(f[k], k, n, sorted, turns)
      BY <2>2, <2>6, <3>1
    <3>4. Paired(T!TakeCall(f[k], turns[k + 1]), k + 1, n, sorted, turns)
      BY <2>1, <2>2, <3>2, <3>3, PairedOn
    <3> QED BY <3>2, <3>4
  <2>7. n \in F
    <3> HIDE DEF F
    <3> QED BY <2>2, <2>5, <2>6, NatSetInduction
  <2>8. Paired(f[n], n, n, sorted, turns) /\ f[n] \in TakeStates(D)
    BY <2>2, <2>4, <2>7
  <2>9. paired = f[n].ordered
    BY <1>2, <2>3, OrderedIs, Zenon DEF sorted, n
  <2> HIDE DEF paired
  <2>10. CallsKept(f[n], n, n, sorted)
    BY <2>8, Zenon DEF Paired
  <2>11. f[n].ordered \in Seq(D) /\ f[n].unused \in Seq(D)
    BY <2>8 DEF TakeStates
  <2>12. Len(paired) = n /\ DOMAIN paired = 1 .. n
    BY <2>2, <2>9, <2>10, <2>11 DEF CallsKept
  <2>13. Listed(paired) = Listed(calls)
    <3>1. Len(f[n].unused) = 0
      BY <2>2, <2>10 DEF CallsKept
    <3>2. Listed(f[n].unused) = {}
      BY <2>11, <3>1 DEF Listed
    <3> QED BY <2>1, <2>9, <2>10, <3>2 DEF CallsKept
  <2>14. ASSUME AllKnown(sorted, turns) \/ InTurn(sorted), NEW i \in DOMAIN paired PROVE paired[i].turn = i
    <3>1. i \in 1 .. n
      BY <2>12
    <3>2. CASE AllKnown(sorted, turns)
      <4>1. Own(f[n], n)
        BY <2>8, <3>2, Zenon DEF Paired
      <4> QED BY <2>9, <3>1, <4>1 DEF Own
    <3>3. CASE InTurn(sorted)
      <4>1. Running(f[n], n, n, sorted)
        BY <2>8, <3>3, Zenon DEF Paired
      <4>2. paired[i] = sorted[i] /\ i \in DOMAIN sorted
        BY <2>1, <2>2, <2>9, <3>1, <4>1 DEF Running
      <4> QED BY <3>3, <4>2 DEF InTurn
    <3> QED BY <2>14, <3>2, <3>3
  <2>15. Listed(sorted) = Listed(calls)
    BY <2>1
  <2> DEFINE known == \A i \in DOMAIN turns : turns[i].id # NoId /\ \E c \in T!ToSet(calls) : c.id = turns[i].id
             order == \A i \in DOMAIN sorted : sorted[i].turn = i
             own == \A i \in DOMAIN paired : paired[i].turn = i
  <2>16. known => AllKnown(sorted, turns)
    BY <2>15, ListedIs DEF AllKnown
  <2>17. order => InTurn(sorted)
    BY DEF InTurn
  <2>18. T!ToSet(paired) = T!ToSet(calls)
    BY <2>13, ListedIs
  <2>19. known \/ order => own
    BY <2>14, <2>16, <2>17
  <2>20. T!PairedRight(turns, calls) = (paired # T!Error => /\ T!ToSet(paired) = T!ToSet(calls)
                                                            /\ known \/ order => own)
    BY Zenon DEF T!PairedRight, paired, sorted
  <2> HIDE DEF known, order, own
  <2> QED BY <2>18, <2>19, <2>20
<1> QED BY <1>1, <1>2

-----------------------------------------------------------------------------
(* TraceBuild: the order of the nodes of a built trace                     *)
NoRepeats(d) == \A i, j \in DOMAIN d : d[i] = d[j] => i = j
Deps(nodes, i) == Listed(nodes[i].depends_on)
FirstIds(nodes, k) == {nodes[j].id : j \in 1 .. k}
Backward(nodes) ==
  \A i \in DOMAIN nodes : NoRepeats(nodes[i].depends_on) /\ Deps(nodes, i) \subseteq FirstIds(nodes, i - 1)
\* A node that one of the next ones, up to node i, waits for.
Awaited(nodes, j, i) == \E k \in j + 1 .. i : nodes[j].id \in Deps(nodes, k)
OpenIn(nodes, last) == \A j \in DOMAIN nodes : nodes[j].id \in last \/ Awaited(nodes, j, Len(nodes))
JoinsAll(nodes) == \A i \in DOMAIN nodes : nodes[i].id[1] = "llm" => \A j \in 1 .. i - 1 : Awaited(nodes, j, i)
InBuildOrder(nodes, last) == Distinct(nodes) /\ Backward(nodes) /\ OpenIn(nodes, last) /\ JoinsAll(nodes)

\* One more node: what was open stays open or is waited for.
LEMMA GrownOn ==
  ASSUME NEW X, NEW nodes \in Seq(X), NEW last, InBuildOrder(nodes, last), NEW x \in X, NEW next,
         x.id \notin Ids(nodes), NoRepeats(x.depends_on), Listed(x.depends_on) \subseteq Ids(nodes), x.id \in next,
         last \subseteq next \cup Listed(x.depends_on),
         x.id[1] = "llm" => last \subseteq Listed(x.depends_on)
  PROVE  InBuildOrder(Append(nodes, x), next)
<1> DEFINE n == Len(nodes)
           more == Append(nodes, x)
<1>1. n \in Nat /\ DOMAIN nodes = 1 .. n /\ more \in Seq(X) /\ Len(more) = n + 1 /\ DOMAIN more = 1 .. n + 1
  OBVIOUS
<1>2. more[n + 1] = x /\ \A i \in 1 .. n : more[i] = nodes[i]
  OBVIOUS
<1>0. \A i \in 1 .. n + 1 : i = n + 1 \/ i \in 1 .. n
  BY <1>1
<1> HIDE DEF more, n
<1>3. Deps(more, n + 1) = Listed(x.depends_on) /\ \A i \in 1 .. n : Deps(more, i) = Deps(nodes, i)
  BY <1>2, Zenon DEF Deps
<1>4. Ids(nodes) = {nodes[j].id : j \in 1 .. n}
  BY <1>1, Zenon DEF Ids
<1>5. Distinct(more)
  <2>1. \A i, j \in 1 .. n : nodes[i].id = nodes[j].id => i = j
    BY <1>1, Zenon DEF InBuildOrder, Distinct
  <2>2. \A i \in 1 .. n : nodes[i].id # x.id
    BY <1>4
  <2> QED BY <1>0, <1>1, <1>2, <2>1, <2>2 DEF Distinct
<1>6. \A k \in 0 .. n : FirstIds(more, k) = FirstIds(nodes, k)
  BY <1>1, <1>2 DEF FirstIds
<1>7. Backward(more)
  <2>1. \A i \in 1 .. n : NoRepeats(nodes[i].depends_on) /\ Deps(nodes, i) \subseteq FirstIds(nodes, i - 1)
    BY <1>1, Zenon DEF InBuildOrder, Backward
  <2>2. ASSUME NEW i \in 1 .. n + 1
        PROVE  NoRepeats(more[i].depends_on) /\ Deps(more, i) \subseteq FirstIds(more, i - 1)
    <3>1. CASE i \in 1 .. n
      <4>1. i - 1 \in 0 .. n
        BY <1>1, <3>1
      <4> QED BY <1>2, <1>3, <1>6, <2>1, <3>1, <4>1
    <3>2. CASE i = n + 1
      <4>1. i - 1 = n /\ n \in 0 .. n
        BY <1>1, <3>2
      <4>2. FirstIds(more, n) = Ids(nodes)
        BY <1>4, <1>6, <4>1 DEF FirstIds
      <4> QED BY <1>2, <1>3, <3>2, <4>1, <4>2
    <3> QED BY <1>0, <3>1, <3>2
  <2> QED BY <1>1, <2>2 DEF Backward
<1>8. ASSUME NEW j \in 1 .. n, NEW i \in 1 .. n, Awaited(nodes, j, i) PROVE Awaited(more, j, i) /\ Awaited(more, j, n + 1)
  <2>1. PICK k \in j + 1 .. i : nodes[j].id \in Deps(nodes, k)
    BY <1>8 DEF Awaited
  <2>2. k \in 1 .. n /\ k \in j + 1 .. n + 1
    BY <1>1
  <2>3. more[j].id \in Deps(more, k)
    BY <1>2, <1>3, <2>1, <2>2
  <2> QED BY <2>2, <2>3 DEF Awaited
<1>9. ASSUME NEW j \in 1 .. n, nodes[j].id \in Listed(x.depends_on) PROVE Awaited(more, j, n + 1)
  <2>1. n + 1 \in j + 1 .. n + 1
    BY <1>1
  <2>2. more[j].id \in Deps(more, n + 1)
    BY <1>2, <1>3, <1>9
  <2> QED BY <2>1, <2>2 DEF Awaited
<1>10. \A j \in 1 .. n : nodes[j].id \in last \/ Awaited(nodes, j, n)
  BY <1>1, Zenon DEF InBuildOrder, OpenIn, n
<1>11. OpenIn(more, next)
  <2>1. ASSUME NEW j \in 1 .. n + 1 PROVE more[j].id \in next \/ Awaited(more, j, n + 1)
    <3>1. CASE j = n + 1
      BY <1>2, <3>1
    <3>2. CASE j \in 1 .. n /\ Awaited(nodes, j, n)
      <4>1. n \in 1 .. n
        BY <1>1, <3>2
      <4> QED BY <1>8, <3>2, <4>1
    <3>3. CASE j \in 1 .. n /\ nodes[j].id \in last
      BY <1>2, <1>9, <3>3
    <3> QED BY <1>0, <1>10, <3>1, <3>2, <3>3
  <2> QED BY <1>1, <2>1 DEF OpenIn
<1>12. JoinsAll(more)
  <2>1. ASSUME NEW i \in 1 .. n + 1, more[i].id[1] = "llm", NEW j \in 1 .. i - 1 PROVE Awaited(more, j, i)
    <3>1. CASE i \in 1 .. n
      <4>1. i \in DOMAIN nodes /\ nodes[i].id[1] = "llm" /\ j \in 1 .. n
        BY <1>1, <1>2, <2>1, <3>1
      <4>2. Awaited(nodes, j, i)
        BY <4>1, Zenon DEF InBuildOrder, JoinsAll
      <4> QED BY <1>8, <3>1, <4>1, <4>2
    <3>2. CASE i = n + 1
      <4>1. j \in 1 .. n /\ x.id[1] = "llm"
        BY <1>1, <1>2, <2>1, <3>2
      <4>2. CASE nodes[j].id \in last
        BY <1>9, <3>2, <4>1, <4>2
      <4>3. CASE Awaited(nodes, j, n)
        <5>1. n \in 1 .. n
          BY <1>1, <4>1
        <5> QED BY <1>8, <3>2, <4>1, <4>3, <5>1
      <4> QED BY <1>10, <4>1, <4>2, <4>3
    <3> QED BY <1>0, <3>1, <3>2
  <2> QED BY <1>1, <2>1, Zenon DEF JoinsAll
<1>13. InBuildOrder(more, next)
  BY <1>5, <1>7, <1>11, <1>12, Zenon DEF InBuildOrder
<1> QED BY <1>13 DEF more

NodeIds == {"llm", "tool"} \X Nat
BuiltNodes == [id : NodeIds, depends_on : Seq(NodeIds)]
BuildStates == [nodes : Seq(BuiltNodes), llms : Nat, tools : Nat, pending : Seq(NodeIds)]
Last(s) == Listed(T!PreviousTurn(s))
Numbered(s) == \A i \in DOMAIN s.nodes : LET id == s.nodes[i].id IN IF id[1] = "llm" THEN id[2] <= s.llms ELSE id[2] <= s.tools
BuildStanding(s) ==
  /\ Numbered(s) /\ InBuildOrder(s.nodes, Last(s))
  /\ T!PreviousTurn(s) \in Seq(NodeIds) /\ NoRepeats(T!PreviousTurn(s)) /\ Last(s) \subseteq Ids(s.nodes)
  /\ s.llms > 0 => T!Llm(s.llms) \in Ids(s.nodes)
Building == {s \in BuildStates : BuildStanding(s)}
InTurnStates == {s \in Building : s.llms > 0 /\ s.nodes # <<>>}

\* What the next LLM node will wait for.
LEMMA PreviousIs ==
  ASSUME NEW s
  PROVE  /\ s.pending # <<>> => T!PreviousTurn(s) = s.pending
         /\ s.pending = <<>> /\ s.llms > 0 => T!PreviousTurn(s) = <<T!Llm(s.llms)>>
         /\ s.pending = <<>> /\ ~(s.llms > 0) => T!PreviousTurn(s) = <<>>
BY DEF T!PreviousTurn

\* Lists of one element, and of one more.
LEMMA ListedOne == ASSUME NEW x PROVE Listed(<<x>>) = {x} /\ NoRepeats(<<x>>)
BY DEF Listed, NoRepeats

\* Appending adds one element.
LEMMA ListedMore ==
  ASSUME NEW X, NEW d \in Seq(X), NEW x
  PROVE  /\ Listed(Append(d, x)) = Listed(d) \cup {x}
         /\ NoRepeats(d) /\ x \notin Listed(d) => NoRepeats(Append(d, x))
<1> DEFINE n == Len(d)
           a == Append(d, x)
<1>1. n \in Nat /\ DOMAIN d = 1 .. n /\ DOMAIN a = 1 .. n + 1
  OBVIOUS
<1>2. a[n + 1] = x /\ \A i \in 1 .. n : a[i] = d[i]
  OBVIOUS
<1> HIDE DEF a, n
<1>3. \A i \in 1 .. n + 1 : i = n + 1 \/ i \in 1 .. n
  BY <1>1
<1>4. 1 .. n + 1 = (1 .. n) \cup {n + 1}
  BY <1>1
<1>5. Listed(a) = Listed(d) \cup {x}
  <2>1. Listed(a) = {a[j] : j \in (1 .. n) \cup {n + 1}}
    BY <1>1, <1>4, Zenon DEF Listed
  <2>2. Listed(d) = {d[j] : j \in 1 .. n}
    BY <1>1, Zenon DEF Listed
  <2> QED BY <1>2, <2>1, <2>2
<1>6. ASSUME NoRepeats(d), x \notin Listed(d) PROVE NoRepeats(a)
  <2>1. \A i, j \in 1 .. n : d[i] = d[j] => i = j
    BY <1>1, <1>6 DEF NoRepeats
  <2>2. \A i \in 1 .. n : d[i] # x
    BY <1>1, <1>6 DEF Listed
  <2> QED BY <1>1, <1>2, <1>3, <2>1, <2>2 DEF NoRepeats
<1> QED BY <1>5, <1>6 DEF a

\* A node with a new number.
LEMMA NewNumber ==
  ASSUME NEW s \in BuildStates, Numbered(s)
  PROVE  /\ T!Llm(s.llms + 1) \notin Ids(s.nodes) /\ T!Llm(s.llms + 1) \in NodeIds
         /\ T!Tool(s.tools + 1) \notin Ids(s.nodes) /\ T!Tool(s.tools + 1) \in NodeIds
<1>1. s.llms \in Nat /\ s.tools \in Nat
  BY DEF BuildStates
<1>2. ASSUME NEW i \in DOMAIN s.nodes PROVE s.nodes[i].id # <<"llm", s.llms + 1>> /\ s.nodes[i].id # <<"tool", s.tools + 1>>
  <2>1. IF s.nodes[i].id[1] = "llm" THEN s.nodes[i].id[2] <= s.llms ELSE s.nodes[i].id[2] <= s.tools
    BY DEF Numbered
  <2>2. ~(s.llms + 1 <= s.llms) /\ ~(s.tools + 1 <= s.tools)
    BY <1>1
  <2>3. CASE s.nodes[i].id = <<"llm", s.llms + 1>>
    BY <2>1, <2>2, <2>3
  <2>4. CASE s.nodes[i].id = <<"tool", s.tools + 1>>
    BY <2>1, <2>2, <2>4
  <2> QED BY <2>3, <2>4
<1> QED BY <1>1, <1>2 DEF Ids, NodeIds, T!Llm, T!Tool

NewNode(s, t, x, llms, tools, pending) ==
  t = [nodes |-> Append(s.nodes, x), llms |-> llms, tools |-> tools, pending |-> pending]

\* The state after each kind of node.
LEMMA AddsLlm ==
  ASSUME NEW s \in BuildStates
  PROVE  NewNode(s, T!AddLlm(s), [id |-> T!Llm(s.llms + 1), depends_on |-> T!PreviousTurn(s)],
                 s.llms + 1, s.tools, <<>>)
<1> DEFINE x == [id |-> T!Llm(s.llms + 1), depends_on |-> T!PreviousTurn(s)]
<1>1. T!AddLlm(s) = [s EXCEPT !.nodes = Append(@, x), !.llms = @ + 1, !.pending = <<>>]
  BY Zenon DEF T!AddLlm
<1> HIDE DEF x
<1>2. NewNode(s, T!AddLlm(s), x, s.llms + 1, s.tools, <<>>)
  BY <1>1 DEF NewNode, BuildStates
<1> QED BY <1>2 DEF x

\* OpenClaw.
LEMMA AddsSibling ==
  ASSUME NEW s \in BuildStates, NEW call
  PROVE  NewNode(s, T!AddTool(s, call, FALSE), [id |-> T!Tool(s.tools + 1), depends_on |-> <<T!Llm(s.llms)>>],
                 s.llms, s.tools + 1, Append(s.pending, T!Tool(s.tools + 1)))
BY DEF T!AddTool, T!AddSibling, NewNode, BuildStates

\* mini-SWE-agent.
LEMMA AddsChained ==
  ASSUME NEW s \in BuildStates, s.llms > 0, NEW call
  PROVE  NewNode(s, T!AddTool(s, call, TRUE), [id |-> T!Tool(s.tools + 1), depends_on |-> T!PreviousTurn(s)],
                 s.llms, s.tools + 1, <<T!Tool(s.tools + 1)>>)
<1>1. T!PreviousTurn(s) = IF s.pending = <<>> THEN <<T!Llm(s.llms)>> ELSE s.pending
  BY PreviousIs
<1>2. T!AddTool(s, call, TRUE) = T!AddChained(s, call)
  BY DEF T!AddTool
<1>3. T!AddChained(s, call) = [s EXCEPT !.nodes = Append(@, [id |-> T!Tool(s.tools + 1), depends_on |-> T!PreviousTurn(s)]),
                                        !.tools = @ + 1, !.pending = <<T!Tool(s.tools + 1)>>]
  BY <1>1, Zenon DEF T!AddChained
<1> QED BY <1>2, <1>3 DEF NewNode, BuildStates

\* The state after a node is added, from what the node waits for.
LEMMA Standing ==
  ASSUME NEW s \in Building, NEW x \in BuiltNodes, NEW t, NEW llms \in Nat, NEW tools \in Nat, NEW pending \in Seq(NodeIds),
         NewNode(s, t, x, llms, tools, pending),
         s.llms <= llms, s.tools <= tools,
         x.id = (IF llms = s.llms THEN T!Tool(tools) ELSE T!Llm(llms)),
         x.id \notin Ids(s.nodes), NoRepeats(x.depends_on), Listed(x.depends_on) \subseteq Ids(s.nodes),
         T!PreviousTurn(t) \in Seq(NodeIds), NoRepeats(T!PreviousTurn(t)), x.id \in Last(t),
         Last(t) \subseteq Ids(s.nodes) \cup {x.id}, Last(s) \subseteq Last(t) \cup Listed(x.depends_on),
         llms # s.llms => Last(s) \subseteq Listed(x.depends_on), llms > 0
  PROVE  t \in InTurnStates
<1> DEFINE n == Len(s.nodes)
<1>1. s \in BuildStates /\ s.nodes \in Seq(BuiltNodes) /\ BuildStanding(s) /\ s.llms \in Nat /\ s.tools \in Nat
  BY DEF Building, BuildStates
<1>2. /\ t.nodes = Append(s.nodes, x) /\ t.llms = llms /\ t.tools = tools /\ t.pending = pending
      /\ t.nodes \in Seq(BuiltNodes) /\ t \in BuildStates
  BY <1>1 DEF NewNode, BuildStates
<1>3. n \in Nat /\ DOMAIN s.nodes = 1 .. n /\ DOMAIN t.nodes = 1 .. n + 1 /\ Len(t.nodes) = n + 1
  BY <1>1, <1>2
<1>4. t.nodes[n + 1] = x /\ \A i \in 1 .. n : t.nodes[i] = s.nodes[i]
  BY <1>1, <1>2
<1> HIDE DEF n
<1>5. \A i \in 1 .. n + 1 : i = n + 1 \/ i \in 1 .. n
  BY <1>3
<1>6. Ids(t.nodes) = Ids(s.nodes) \cup {x.id}
  <2>1. 1 .. n + 1 = (1 .. n) \cup {n + 1}
    BY <1>3
  <2>2. Ids(t.nodes) = {t.nodes[i].id : i \in (1 .. n) \cup {n + 1}}
    BY <1>3, <2>1, Zenon DEF Ids
  <2>3. Ids(s.nodes) = {s.nodes[i].id : i \in 1 .. n}
    BY <1>3, Zenon DEF Ids
  <2> DEFINE f == [i \in 1 .. n + 1 |-> t.nodes[i].id]
  <2>4. f[n + 1] = x.id /\ \A i \in 1 .. n : f[i] = s.nodes[i].id
    BY <1>3, <1>4
  <2>5. Ids(t.nodes) = {f[i] : i \in (1 .. n) \cup {n + 1}}
    BY <2>1, <2>2
  <2>6. Ids(s.nodes) = {f[i] : i \in 1 .. n}
    <3> HIDE DEF f
    <3> QED BY <2>3, <2>4
  <2> HIDE DEF f
  <2> QED BY <2>4, <2>5, <2>6, Zenon
<1>7. x.id[1] = "llm" => llms # s.llms
  BY DEF T!Tool
<1>8. InBuildOrder(t.nodes, Last(t))
  <2>1. InBuildOrder(s.nodes, Last(s))
    BY <1>1, Zenon DEF BuildStanding
  <2>2. x.id[1] = "llm" => Last(s) \subseteq Listed(x.depends_on)
    BY <1>7
  <2> QED BY <1>1, <1>2, <2>1, <2>2, GrownOn
<1>9. Numbered(t)
  <2>1. ASSUME NEW i \in 1 .. n + 1
        PROVE  IF t.nodes[i].id[1] = "llm" THEN t.nodes[i].id[2] <= llms ELSE t.nodes[i].id[2] <= tools
    <3>1. CASE i = n + 1
      BY <1>4, <3>1 DEF T!Llm, T!Tool
    <3>2. CASE i \in 1 .. n
      <4>1. IF s.nodes[i].id[1] = "llm" THEN s.nodes[i].id[2] <= s.llms ELSE s.nodes[i].id[2] <= s.tools
        BY <1>1, <1>3, <3>2 DEF BuildStanding, Numbered
      <4>2. s.nodes[i].id[2] \in Nat
        <5>1. s.nodes[i] \in BuiltNodes
          BY <1>1, <1>3, <3>2
        <5> QED BY <5>1 DEF BuiltNodes, NodeIds
      <4> DEFINE number == s.nodes[i].id[2]
                 llm == s.nodes[i].id[1] = "llm"
      <4>3. t.nodes[i].id = s.nodes[i].id
        BY <1>4, <3>2
      <4>4. number \in Nat /\ (llm => number <= s.llms) /\ (~llm => number <= s.tools)
        BY <4>1, <4>2
      <4> HIDE DEF number
      <4>5. (llm => number <= llms) /\ (~llm => number <= tools)
        BY <1>1, <4>4
      <4> QED BY <4>3, <4>5 DEF number
    <3> QED BY <1>5, <3>1, <3>2
  <2> QED BY <1>2, <1>3, <2>1 DEF Numbered
<1>10. T!Llm(llms) \in Ids(t.nodes)
  <2>1. CASE llms = s.llms
    <3>1. T!Llm(s.llms) \in Ids(s.nodes)
      BY <1>1, <2>1 DEF BuildStanding
    <3> QED BY <1>6, <2>1, <3>1
  <2>2. CASE llms # s.llms
    BY <1>6, <2>2
  <2> QED BY <2>1, <2>2
<1>11. BuildStanding(t)
  BY <1>2, <1>6, <1>8, <1>9, <1>10 DEF BuildStanding
<1>12. t.nodes # <<>>
  BY <1>3
<1> QED BY <1>2, <1>11, <1>12 DEF InTurnStates, Building

\* Each step of the builders keeps the state in order.
LEMMA LlmStands == ASSUME NEW s \in Building PROVE T!AddLlm(s) \in InTurnStates
<1> DEFINE t == T!AddLlm(s)
           x == [id |-> T!Llm(s.llms + 1), depends_on |-> T!PreviousTurn(s)]
<1>1. /\ s \in BuildStates /\ s.llms \in Nat /\ s.tools \in Nat /\ BuildStanding(s)
      /\ T!PreviousTurn(s) \in Seq(NodeIds) /\ NoRepeats(T!PreviousTurn(s)) /\ Last(s) \subseteq Ids(s.nodes) /\ Numbered(s)
  BY DEF Building, BuildStates, BuildStanding
<1>2. NewNode(s, t, x, s.llms + 1, s.tools, <<>>)
  BY <1>1, AddsLlm
<1>3. x.id \notin Ids(s.nodes) /\ x.id = T!Llm(s.llms + 1) /\ x \in BuiltNodes /\ x.depends_on = T!PreviousTurn(s)
  BY <1>1, NewNumber DEF BuiltNodes
<1> HIDE DEF x, t
<1>4. t.pending = <<>> /\ t.llms = s.llms + 1
  BY <1>2 DEF NewNode
<1>5. T!PreviousTurn(t) = <<x.id>>
  <2>1. t.llms > 0
    BY <1>1, <1>4
  <2> QED BY <1>3, <1>4, <2>1, PreviousIs
<1>6. Last(t) = {x.id} /\ NoRepeats(T!PreviousTurn(t)) /\ T!PreviousTurn(t) \in Seq(NodeIds)
  <2>1. x.id \in NodeIds
    BY <1>3 DEF BuiltNodes
  <2>2. <<x.id>> \in Seq(NodeIds)
    BY <2>1
  <2> QED BY <1>5, <2>2, ListedOne DEF Last
<1>7. Listed(x.depends_on) = Last(s)
  BY <1>3 DEF Last
<1>8. s.llms + 1 \in Nat /\ s.llms + 1 > 0 /\ s.llms <= s.llms + 1 /\ s.llms + 1 # s.llms /\ s.tools <= s.tools /\ <<>> \in Seq(NodeIds)
  BY <1>1
<1>9. x.id = IF s.llms + 1 = s.llms THEN T!Tool(s.tools) ELSE T!Llm(s.llms + 1)
  BY <1>3, <1>8
<1>10. NoRepeats(x.depends_on) /\ Listed(x.depends_on) \subseteq Ids(s.nodes) /\ x.id \in Last(t)
  BY <1>1, <1>3, <1>6, <1>7
<1>11. Last(t) \subseteq Ids(s.nodes) \cup {x.id} /\ Last(s) \subseteq Last(t) \cup Listed(x.depends_on) /\ Last(s) \subseteq Listed(x.depends_on)
  BY <1>6, <1>7
<1> DEFINE l == s.llms + 1
<1>12. /\ l \in Nat /\ l > 0 /\ s.llms <= l /\ NewNode(s, t, x, l, s.tools, <<>>)
       /\ x.id = IF l = s.llms THEN T!Tool(s.tools) ELSE T!Llm(l)
  BY <1>2, <1>8, <1>9
<1> HIDE DEF l
<1> QED BY <1>1, <1>3, <1>6, <1>8, <1>10, <1>11, <1>12, Standing DEF t

\* And so for a tool node.
LEMMA ToolStands ==
  ASSUME NEW s \in InTurnStates, NEW call, NEW chained \in BOOLEAN
  PROVE  T!AddTool(s, call, chained) \in InTurnStates
<1> DEFINE t == T!AddTool(s, call, chained)
           tools == s.tools + 1
           new == T!Tool(tools)
<1>1. /\ s \in Building /\ s \in BuildStates /\ s.llms \in Nat /\ s.tools \in Nat /\ BuildStanding(s)
      /\ T!PreviousTurn(s) \in Seq(NodeIds) /\ NoRepeats(T!PreviousTurn(s)) /\ Last(s) \subseteq Ids(s.nodes)
      /\ s.llms > 0 /\ T!Llm(s.llms) \in Ids(s.nodes) /\ s.pending \in Seq(NodeIds) /\ Numbered(s)
  BY DEF InTurnStates, Building, BuildStates, BuildStanding
<1>2. new \notin Ids(s.nodes) /\ new \in NodeIds
  BY <1>1, NewNumber
<1>3. tools \in Nat /\ s.tools <= tools /\ s.llms <= s.llms
  BY <1>1
<1>4. T!Llm(s.llms) \in NodeIds
  BY <1>1 DEF T!Llm, NodeIds
<1> HIDE DEF t, tools, new
<1>5. CASE chained
  <2> DEFINE x == [id |-> new, depends_on |-> T!PreviousTurn(s)]
  <2>1. NewNode(s, t, x, s.llms, tools, <<new>>)
    BY <1>1, <1>5, AddsChained DEF t, tools, new
  <2>2. x \in BuiltNodes /\ x.id = new /\ x.depends_on = T!PreviousTurn(s)
    BY <1>1, <1>2 DEF BuiltNodes
  <2> HIDE DEF x
  <2>3. <<new>> \in Seq(NodeIds) /\ t.pending = <<new>> /\ <<new>> # <<>>
    BY <1>2, <2>1 DEF NewNode
  <2>4. T!PreviousTurn(t) = <<new>>
    BY <2>3, PreviousIs
  <2>5. Last(t) = {new} /\ NoRepeats(T!PreviousTurn(t)) /\ T!PreviousTurn(t) \in Seq(NodeIds)
    BY <2>3, <2>4, ListedOne DEF Last
  <2>6. Listed(x.depends_on) = Last(s)
    BY <2>2 DEF Last
  <2>7. NoRepeats(x.depends_on) /\ Listed(x.depends_on) \subseteq Ids(s.nodes) /\ x.id \in Last(t) /\ x.id \notin Ids(s.nodes)
    BY <1>1, <1>2, <2>2, <2>5, <2>6
  <2>8. Last(t) \subseteq Ids(s.nodes) \cup {x.id} /\ Last(s) \subseteq Last(t) \cup Listed(x.depends_on)
    BY <2>2, <2>5, <2>6
  <2>9. x.id = IF s.llms = s.llms THEN T!Tool(tools) ELSE T!Llm(s.llms)
    BY <2>2 DEF new
  <2> QED BY <1>1, <1>3, <2>1, <2>2, <2>3, <2>5, <2>7, <2>8, <2>9, Standing DEF t
<1>6. CASE ~chained
  <2> DEFINE x == [id |-> new, depends_on |-> <<T!Llm(s.llms)>>]
             pending == Append(s.pending, new)
  <2>1. NewNode(s, t, x, s.llms, tools, pending)
    BY <1>1, <1>6, AddsSibling DEF t, tools, new
  <2>2. x \in BuiltNodes /\ x.id = new /\ x.depends_on = <<T!Llm(s.llms)>>
    BY <1>2, <1>4 DEF BuiltNodes
  <2>3. pending \in Seq(NodeIds) /\ pending # <<>>
    BY <1>1, <1>2
  <2>4. /\ Listed(pending) = Listed(s.pending) \cup {new}
        /\ NoRepeats(s.pending) /\ new \notin Listed(s.pending) => NoRepeats(pending)
    BY <1>1, ListedMore
  <2> HIDE DEF x, pending
  <2>5. t.pending = pending
    BY <2>1 DEF NewNode
  <2>6. T!PreviousTurn(t) = pending
    BY <2>3, <2>5, PreviousIs
  <2>7. Listed(x.depends_on) = {T!Llm(s.llms)} /\ NoRepeats(x.depends_on)
    BY <2>2, ListedOne
  <2>8. Last(s) \subseteq Listed(s.pending) \cup {T!Llm(s.llms)} /\ Listed(s.pending) \subseteq Ids(s.nodes) /\ NoRepeats(s.pending)
    <3>1. CASE s.pending # <<>>
      <4>1. T!PreviousTurn(s) = s.pending
        BY <3>1, PreviousIs
      <4> QED BY <1>1, <4>1 DEF Last
    <3>2. CASE s.pending = <<>>
      <4>1. T!PreviousTurn(s) = <<T!Llm(s.llms)>>
        BY <1>1, <3>2, PreviousIs
      <4>2. Last(s) = {T!Llm(s.llms)}
        BY <4>1, ListedOne DEF Last
      <4>3. Listed(s.pending) = {} /\ NoRepeats(s.pending)
        BY <3>2 DEF Listed, NoRepeats
      <4> QED BY <4>2, <4>3
    <3> QED BY <3>1, <3>2
  <2>9. NoRepeats(T!PreviousTurn(t)) /\ T!PreviousTurn(t) \in Seq(NodeIds) /\ Last(t) = Listed(s.pending) \cup {new}
    BY <1>2, <2>3, <2>4, <2>6, <2>8 DEF Last
  <2>10. Listed(x.depends_on) \subseteq Ids(s.nodes) /\ x.id \in Last(t) /\ x.id \notin Ids(s.nodes)
    BY <1>1, <1>2, <2>2, <2>7, <2>9
  <2>11. Last(t) \subseteq Ids(s.nodes) \cup {x.id} /\ Last(s) \subseteq Last(t) \cup Listed(x.depends_on)
    BY <2>2, <2>7, <2>8, <2>9
  <2>12. x.id = IF s.llms = s.llms THEN T!Tool(tools) ELSE T!Llm(s.llms)
    BY <2>2 DEF new
  <2> QED BY <1>1, <1>3, <2>1, <2>2, <2>3, <2>7, <2>9, <2>10, <2>11, <2>12, Standing DEF t
<1> QED BY <1>5, <1>6 DEF t

AddingTools(g, s, tools, chained) ==
  g = [x \in SUBSET DOMAIN tools |->
         IF x = {} THEN T!AddLlm(s) ELSE T!AddTool(g[x \ {Greatest(x)}], tools[Greatest(x)], chained)]
AllAdded(s, tools, chained) == CHOOSE g : AddingTools(g, s, tools, chained)

\* The fold over the tools of a turn.
LEMMA AddTurnIs ==
  ASSUME NEW s, NEW turn, NEW chained
  PROVE  T!AddTurn(s, turn, chained) = AllAdded(s, turn.tools, chained)[DOMAIN turn.tools]
BY Zenon DEF T!AddTurn, T!FoldLeft, T!MapThenFoldSet, T!Max, Greatest, AllAdded, AddingTools

\* A turn, tool by tool.
LEMMA TurnStands ==
  ASSUME NEW s \in Building, NEW U, NEW turn, turn.tools \in Seq(U), NEW chained \in BOOLEAN
  PROVE  T!AddTurn(s, turn, chained) \in InTurnStates
<1> DEFINE V == InTurnStates
           tools == turn.tools
           n == Len(tools)
           step == [x \in (1 .. n) \X V |-> T!AddTool(x[2], tools[x[1]], chained)]
           base == T!AddLlm(s)
           all == AllAdded(s, tools, chained)
<1>1. n \in Nat /\ DOMAIN tools = 1 .. n
  OBVIOUS
<1>2. base \in V
  BY LlmStands
<1>3. \A t \in V : \A call : T!AddTool(t, call, chained) \in V
  BY ToolStands
<1> HIDE DEF V, n, base, tools
<1>4. step \in [(1 .. n) \X V -> V]
  BY <1>3
<1>5. PICK g \in [SUBSET (1 .. n) -> V] : Folding(base, step, g, n)
  <2> HIDE DEF step
  <2> QED BY <1>1, <1>2, <1>4, FoldsExist
<1>6. AddingTools(g, s, tools, chained)
  <2>1. ASSUME NEW x \in SUBSET (1 .. n), x # {}
        PROVE  Folded(base, step, g, x) = T!AddTool(g[x \ {Greatest(x)}], tools[Greatest(x)], chained)
    <3>1. Greatest(x) \in 1 .. n
      BY <1>1, <2>1, GreatestIn
    <3>2. g[x \ {Greatest(x)}] \in V
      BY <1>5
    <3> QED BY <2>1, <3>1, <3>2 DEF Folded
  <2>2. Folded(base, step, g, {}) = base
    BY DEF Folded
  <2> HIDE DEF step
  <2> QED BY <1>1, <1>5, <2>1, <2>2 DEF AddingTools, Folding, base
<1>7. AddingTools(all, s, tools, chained)
  BY <1>6, Zenon DEF AllAdded
<1> HIDE DEF all
<1> DEFINE f == [k \in 0 .. n |-> all[1 .. k]]
<1>8. f[0] = base
  <2>1. {} \in SUBSET DOMAIN tools /\ 1 .. 0 = {} /\ 0 \in 0 .. n
    BY <1>1
  <2> QED BY <1>7, <2>1 DEF AddingTools, base
<1>9. ASSUME NEW k \in 1 .. n PROVE f[k] = T!AddTool(f[k - 1], tools[k], chained)
  <2>1. /\ (1 .. k) \in SUBSET DOMAIN tools /\ 1 .. k # {}
        /\ Greatest(1 .. k) = k /\ (1 .. k) \ {k} = 1 .. k - 1
    BY <1>1, Segments
  <2>2. k \in 0 .. n /\ k - 1 \in 0 .. n
    BY <1>1
  <2>3. all[1 .. k] = T!AddTool(all[1 .. k - 1], tools[k], chained)
    BY <1>7, <2>1, Zenon DEF AddingTools
  <2> QED BY <2>2, <2>3
<1>10. f = [k \in 0 .. n |-> f[k]] /\ f[n] = all[1 .. n] /\ n \in 0 .. n
  BY <1>1
<1> HIDE DEF f
<1>11. f \in [0 .. n -> V]
  <2>1. \A k \in 1 .. n : f[k - 1] \in V => f[k] \in V
    BY <1>3, <1>9
  <2> QED BY <1>1, <1>2, <1>8, <1>10, <2>1, StepsStay
<1>12. all[DOMAIN tools] \in V
  BY <1>1, <1>10, <1>11
<1> QED BY <1>12, AddTurnIs DEF V, all, tools

BuildStart == [nodes |-> <<>>, llms |-> 0, tools |-> 0, pending |-> <<>>]
AddingTurns(g, turns, chained) ==
  g = [x \in SUBSET DOMAIN turns |->
         IF x = {} THEN BuildStart ELSE T!AddTurn(g[x \ {Greatest(x)}], turns[Greatest(x)], chained)]
AllTurns(turns, chained) == CHOOSE g : AddingTurns(g, turns, chained)

\* The fold over the turns.
LEMMA BuiltIs ==
  ASSUME NEW turns, NEW chained PROVE T!Built(turns, chained) = AllTurns(turns, chained)[DOMAIN turns].nodes
BY Zenon DEF T!Built, T!FoldLeft, T!MapThenFoldSet, T!Max, Greatest, AllTurns, AddingTurns, BuildStart

\* Nothing is built yet.
LEMMA StartStands == BuildStart \in Building
<1>1. BuildStart.nodes = <<>> /\ BuildStart.llms = 0 /\ BuildStart.pending = <<>> /\ BuildStart \in BuildStates
  BY DEF BuildStart, BuildStates
<1>2. T!PreviousTurn(BuildStart) = <<>>
  BY <1>1, PreviousIs
<1>3. DOMAIN BuildStart.nodes = {}
  BY <1>1
<1>4. Numbered(BuildStart) /\ InBuildOrder(BuildStart.nodes, Last(BuildStart))
  BY <1>3 DEF Numbered, InBuildOrder, Distinct, Backward, OpenIn, JoinsAll
<1>5. <<>> \in Seq(NodeIds) /\ NoRepeats(<<>>) /\ Listed(<<>>) = {}
  BY DEF NoRepeats, Listed
<1> QED BY <1>1, <1>2, <1>4, <1>5 DEF Building, BuildStanding, Last

\* The nodes of a trace, turn by turn.
LEMMA BuiltStands ==
  ASSUME NEW W, NEW turns \in Seq(W), NEW U, \A i \in DOMAIN turns : turns[i].tools \in Seq(U), NEW chained \in BOOLEAN
  PROVE  \E s \in Building : T!Built(turns, chained) = s.nodes /\ (turns # <<>> => s \in InTurnStates)
<1> DEFINE V == Building
           n == Len(turns)
           step == [x \in (1 .. n) \X V |-> T!AddTurn(x[2], turns[x[1]], chained)]
           base == BuildStart
           all == AllTurns(turns, chained)
<1>1. n \in Nat /\ DOMAIN turns = 1 .. n /\ (turns # <<>> => n > 0)
  OBVIOUS
<1>2. base \in V
  BY StartStands
<1>3. \A s \in V : \A i \in 1 .. n : T!AddTurn(s, turns[i], chained) \in InTurnStates
  BY <1>1, TurnStands
<1>0. InTurnStates \subseteq V
  BY DEF InTurnStates
<1> HIDE DEF V, n, base
<1>4. step \in [(1 .. n) \X V -> V]
  BY <1>0, <1>3
<1>5. PICK g \in [SUBSET (1 .. n) -> V] : Folding(base, step, g, n)
  <2> HIDE DEF step
  <2> QED BY <1>1, <1>2, <1>4, FoldsExist
<1>6. AddingTurns(g, turns, chained)
  <2>1. ASSUME NEW x \in SUBSET (1 .. n), x # {}
        PROVE  Folded(base, step, g, x) = T!AddTurn(g[x \ {Greatest(x)}], turns[Greatest(x)], chained)
    <3>1. Greatest(x) \in 1 .. n
      BY <1>1, <2>1, GreatestIn
    <3>2. g[x \ {Greatest(x)}] \in V
      BY <1>5
    <3> QED BY <2>1, <3>1, <3>2 DEF Folded
  <2>2. Folded(base, step, g, {}) = base
    BY DEF Folded
  <2> HIDE DEF step
  <2> QED BY <1>1, <1>5, <2>1, <2>2 DEF AddingTurns, Folding, base
<1>7. AddingTurns(all, turns, chained)
  BY <1>6, Zenon DEF AllTurns
<1> HIDE DEF all
<1> DEFINE f == [k \in 0 .. n |-> all[1 .. k]]
<1>8. f[0] = base
  <2>1. {} \in SUBSET DOMAIN turns /\ 1 .. 0 = {} /\ 0 \in 0 .. n
    BY <1>1
  <2> QED BY <1>7, <2>1 DEF AddingTurns, base
<1>9. ASSUME NEW k \in 1 .. n PROVE f[k] = T!AddTurn(f[k - 1], turns[k], chained)
  <2>1. /\ (1 .. k) \in SUBSET DOMAIN turns /\ 1 .. k # {}
        /\ Greatest(1 .. k) = k /\ (1 .. k) \ {k} = 1 .. k - 1
    BY <1>1, Segments
  <2>2. k \in 0 .. n /\ k - 1 \in 0 .. n
    BY <1>1
  <2>3. all[1 .. k] = T!AddTurn(all[1 .. k - 1], turns[k], chained)
    BY <1>7, <2>1, Zenon DEF AddingTurns
  <2> QED BY <2>2, <2>3
<1>10. f = [k \in 0 .. n |-> f[k]] /\ f[n] = all[1 .. n] /\ n \in 0 .. n
  BY <1>1
<1> HIDE DEF f
<1>11. f \in [0 .. n -> V]
  <2>1. \A k \in 1 .. n : f[k - 1] \in V => f[k] \in V
    BY <1>0, <1>3, <1>9
  <2> QED BY <1>1, <1>2, <1>8, <1>10, <2>1, StepsStay
<1>12. all[DOMAIN turns] = f[n] /\ f[n] \in V
  BY <1>1, <1>10, <1>11
<1>13. turns # <<>> => f[n] \in InTurnStates
  <2> SUFFICES ASSUME turns # <<>> PROVE f[n] \in InTurnStates
    OBVIOUS
  <2>1. n \in 1 .. n /\ n - 1 \in 0 .. n
    BY <1>1
  <2>2. f[n] = T!AddTurn(f[n - 1], turns[n], chained) /\ f[n - 1] \in V
    BY <1>9, <1>11, <2>1
  <2> QED BY <1>3, <2>1, <2>2
<1>14. T!Built(turns, chained) = f[n].nodes
  BY <1>12, BuiltIs DEF all
<1> QED BY <1>12, <1>13, <1>14 DEF V

Wider(nodes, known) == known \cup UNION {T!ToSet(nodes[i].depends_on) : i \in {j \in DOMAIN nodes : nodes[j].id \in known}}
Widening(g, nodes, ids) == g = [k \in 0 .. Len(nodes) |-> IF k = 0 THEN ids ELSE Wider(nodes, g[k - 1])]
AllBefore(nodes, ids) == CHOOSE g : Widening(g, nodes, ids)

\* What is before a node, round by round.
LEMMA BeforeRounds == ASSUME NEW nodes, NEW ids PROVE T!Before(nodes, ids) = AllBefore(nodes, ids)[Len(nodes)]
BY Zenon DEF T!Before, AllBefore, Widening, Wider

\* A round adds ids of nodes.
LEMMA WidensIn ==
  ASSUME NEW nodes \in Seq(BuiltNodes), NEW known \in SUBSET NodeIds PROVE Wider(nodes, known) \in SUBSET NodeIds
<1>1. ASSUME NEW i \in DOMAIN nodes PROVE T!ToSet(nodes[i].depends_on) \in SUBSET NodeIds
  <2>1. nodes[i] \in BuiltNodes
    OBVIOUS
  <2>2. nodes[i].depends_on \in Seq(NodeIds)
    BY <2>1 DEF BuiltNodes
  <2> QED BY <2>2 DEF T!ToSet
<1> QED BY <1>1 DEF Wider

\* The rounds are a function of their number.
LEMMA BeforeExists ==
  ASSUME NEW nodes \in Seq(BuiltNodes), NEW ids \in SUBSET NodeIds
  PROVE  Widening(AllBefore(nodes, ids), nodes, ids)
<1> DEFINE V == SUBSET NodeIds
           n == Len(nodes)
           step == [x \in (1 .. n) \X V |-> Wider(nodes, x[2])]
<1>1. n \in Nat /\ ids \in V
  OBVIOUS
<1>2. \A s \in V : Wider(nodes, s) \in V
  BY WidensIn
<1> HIDE DEF V, n
<1>3. step \in [(1 .. n) \X V -> V]
  BY <1>2
<1>4. PICK g \in [SUBSET (1 .. n) -> V] : Folding(ids, step, g, n)
  <2> HIDE DEF step
  <2> QED BY <1>1, <1>3, FoldsExist
<1> DEFINE f == [k \in 0 .. n |-> g[1 .. k]]
<1>5. f[0] = ids
  <2>1. {} \in SUBSET (1 .. n) /\ 1 .. 0 = {} /\ 0 \in 0 .. n
    BY <1>1
  <2>2. g[{}] = Folded(ids, step, g, {})
    BY <1>4, <2>1, Zenon DEF Folding
  <2>3. Folded(ids, step, g, {}) = ids
    BY DEF Folded
  <2> QED BY <2>1, <2>2, <2>3
<1>6. ASSUME NEW k \in 1 .. n PROVE f[k] = Wider(nodes, f[k - 1])
  <2>1. /\ (1 .. k) \in SUBSET (1 .. n) /\ 1 .. k # {}
        /\ Greatest(1 .. k) = k /\ (1 .. k) \ {k} = 1 .. k - 1
    BY <1>1, Segments
  <2>2. k \in 0 .. n /\ k - 1 \in 0 .. n /\ (1 .. k - 1) \in SUBSET (1 .. n)
    BY <1>1
  <2>3. g[1 .. k] = Folded(ids, step, g, 1 .. k)
    BY <1>4, <2>1, Zenon DEF Folding
  <2>4. Folded(ids, step, g, 1 .. k) = step[<<k, g[1 .. k - 1]>>]
    BY <2>1, Zenon DEF Folded
  <2>5. g[1 .. k - 1] \in V
    BY <1>4, <2>2
  <2>6. step[<<k, g[1 .. k - 1]>>] = Wider(nodes, g[1 .. k - 1])
    BY <2>5
  <2> HIDE DEF step
  <2> QED BY <2>2, <2>3, <2>4, <2>6
<1>7. f = [k \in 0 .. n |-> f[k]]
  OBVIOUS
<1> HIDE DEF f
<1>8. ASSUME NEW k \in 0 .. n PROVE f[k] = IF k = 0 THEN ids ELSE Wider(nodes, f[k - 1])
  <2>1. k # 0 => k \in 1 .. n
    BY <1>1
  <2> QED BY <1>5, <1>6, <2>1
<1>9. Widening(f, nodes, ids)
  <2>1. f = [k \in 0 .. n |-> IF k = 0 THEN ids ELSE Wider(nodes, f[k - 1])]
    BY <1>7, <1>8
  <2> QED BY <2>1 DEF Widening, n
<1> QED BY <1>9, Zenon DEF AllBefore

\* Everything before an LLM node is every node before it.
LEMMA BeforeLlm ==
  ASSUME NEW nodes \in Seq(BuiltNodes), Distinct(nodes), Backward(nodes), JoinsAll(nodes),
         NEW i \in DOMAIN nodes, nodes[i].id[1] = "llm"
  PROVE  T!Before(nodes, {nodes[i].id}) = FirstIds(nodes, i)
<1> DEFINE n == Len(nodes)
           ids == {nodes[i].id}
           b == AllBefore(nodes, ids)
           Filled(k) == b[k] \subseteq FirstIds(nodes, i) /\ \A j \in 1 .. i : i - k <= j => nodes[j].id \in b[k]
           F == {k \in Nat : k <= n => Filled(k)}
<1>1. n \in Nat /\ DOMAIN nodes = 1 .. n /\ i \in 1 .. n /\ i \in Nat /\ i <= n
  OBVIOUS
<1>2. ids \in SUBSET NodeIds
  <2>1. nodes[i] \in BuiltNodes
    OBVIOUS
  <2> QED BY <2>1 DEF BuiltNodes
<1>3. Widening(b, nodes, ids)
  BY <1>2, BeforeExists
<1> HIDE DEF b, n
<1>4. b[0] = ids /\ \A k \in 1 .. n : b[k] = Wider(nodes, b[k - 1])
  <2>1. b = [k \in 0 .. n |-> IF k = 0 THEN ids ELSE Wider(nodes, b[k - 1])]
    BY <1>3, Zenon DEF Widening, n
  <2>2. 0 \in 0 .. n /\ \A k \in 1 .. n : k \in 0 .. n /\ k # 0
    BY <1>1
  <2> HIDE DEF ids
  <2>3. \A k \in 0 .. n : b[k] = IF k = 0 THEN ids ELSE Wider(nodes, b[k - 1])
    BY <2>1, Zenon
  <2> QED BY <2>2, <2>3
<1>5. 0 \in F
  <2>1. \A j \in 1 .. i : i - 0 <= j => j = i
    BY <1>1
  <2>2. ids \subseteq FirstIds(nodes, i)
    BY <1>1 DEF FirstIds
  <2>3. Filled(0)
    BY <1>4, <2>1, <2>2
  <2> HIDE DEF Filled
  <2> QED BY <2>3
<1>6. ASSUME NEW k \in Nat, k \in F PROVE k + 1 \in F
  <2> SUFFICES ASSUME k + 1 <= n PROVE Filled(k + 1)
    <3> HIDE DEF Filled
    <3> QED OBVIOUS
  <2>1. k + 1 \in 1 .. n /\ (k + 1) - 1 = k /\ k <= n
    BY <1>1
  <2>2. Filled(k)
    <3> HIDE DEF Filled
    <3> QED BY <1>6, <2>1
  <2>3. b[k + 1] = Wider(nodes, b[k])
    BY <1>4, <2>1
  <2>4. ASSUME NEW x \in b[k + 1] PROVE x \in FirstIds(nodes, i)
    <3>1. CASE x \in b[k]
      BY <2>2, <3>1
    <3>2. CASE x \notin b[k]
      <4>1. PICK m \in DOMAIN nodes : nodes[m].id \in b[k] /\ x \in T!ToSet(nodes[m].depends_on)
        BY <2>3, <2>4, <3>2 DEF Wider
      <4>2. PICK l \in 1 .. i : nodes[m].id = nodes[l].id
        BY <2>2, <4>1 DEF FirstIds
      <4>3. l \in DOMAIN nodes
        BY <1>1
      <4>4. m = l
        BY <4>2, <4>3 DEF Distinct
      <4>5. x \in FirstIds(nodes, m - 1)
        <5>1. x \in Deps(nodes, m)
          BY <4>1, ListedIs DEF Deps
        <5> QED BY <5>1 DEF Backward
      <4>6. PICK j \in 1 .. m - 1 : x = nodes[j].id
        BY <4>5 DEF FirstIds
      <4>7. j \in 1 .. i
        BY <1>1, <4>4
      <4> QED BY <4>6, <4>7 DEF FirstIds
    <3> QED BY <3>1, <3>2
  <2>5. ASSUME NEW j \in 1 .. i, i - (k + 1) <= j PROVE nodes[j].id \in b[k + 1]
    <3>1. CASE i - k <= j
      <4>1. nodes[j].id \in b[k]
        BY <2>2, <3>1
      <4> QED BY <2>3, <4>1 DEF Wider
    <3>2. CASE ~(i - k <= j)
      <4>1. j = i - (k + 1) /\ j \in 1 .. i - 1
        BY <1>1, <2>5, <3>2
      <4>2. PICK m \in j + 1 .. i : nodes[j].id \in Deps(nodes, m)
        BY <4>1 DEF JoinsAll, Awaited
      <4>3. m \in 1 .. i /\ i - k <= m /\ m \in DOMAIN nodes
        BY <1>1, <4>1
      <4>4. nodes[m].id \in b[k]
        BY <2>2, <4>3
      <4>5. nodes[j].id \in T!ToSet(nodes[m].depends_on)
        BY <4>2, ListedIs DEF Deps
      <4> QED BY <2>3, <4>3, <4>4, <4>5 DEF Wider
    <3> QED BY <3>1, <3>2
  <2> QED BY <2>4, <2>5
<1>7. Filled(n)
  <2> HIDE DEF Filled
  <2>1. Nat \subseteq F
    <3> HIDE DEF F
    <3> QED BY <1>5, <1>6, NatSetInduction
  <2> QED BY <1>1, <2>1
<1>8. b[n] = FirstIds(nodes, i)
  <2>1. \A j \in 1 .. i : i - n <= j
    BY <1>1
  <2> QED BY <1>7, <2>1 DEF FirstIds
<1>9. T!Before(nodes, ids) = b[n]
  BY BeforeRounds DEF b, n
<1> QED BY <1>8, <1>9

\* What validate_trace asks of nodes.
LEMMA ValidMeans ==
  ASSUME NEW X, NEW Y, NEW nodes \in Nodes(X, Y)
  PROVE  T!ValidTrace(nodes) <=> /\ nodes # <<>> /\ Distinct(nodes)
                                 /\ \A n \in Ids(nodes) : ParentSet(nodes, n) \subseteq Ids(nodes)
                                 /\ \A i \in DOMAIN nodes : T!IsInjective(nodes[i].depends_on)
                                 /\ NoCycle(nodes)
<1>1. T!ValidIsDag(nodes)
  BY ValidDag
<1> QED BY <1>1, Zenon DEF T!ValidIsDag, Ids, Distinct, ParentSet, NoCycle

\* Nodes that wait for earlier ones only are a valid trace.
LEMMA BackwardValid ==
  ASSUME NEW nodes \in Seq(BuiltNodes), nodes # <<>>, Distinct(nodes), Backward(nodes) PROVE T!ValidTrace(nodes)
<1> DEFINE n == Len(nodes)
<1>1. n \in Nat /\ DOMAIN nodes = 1 .. n
  OBVIOUS
<1>2. nodes \in Nodes(BuiltNodes, NodeIds)
  <2>1. \A i \in DOMAIN nodes : nodes[i] \in BuiltNodes
    OBVIOUS
  <2> QED BY <2>1 DEF Nodes, BuiltNodes
<1>3. ASSUME NEW i \in DOMAIN nodes
      PROVE  T!IsInjective(nodes[i].depends_on) /\ T!ToSet(nodes[i].depends_on) \subseteq FirstIds(nodes, i - 1)
  <2>1. NoRepeats(nodes[i].depends_on) /\ Deps(nodes, i) \subseteq FirstIds(nodes, i - 1)
    BY Zenon DEF Backward
  <2>2. T!IsInjective(nodes[i].depends_on)
    BY <2>1, Zenon DEF NoRepeats, T!IsInjective
  <2> QED BY <2>1, <2>2, ListedIs DEF Deps
<1>4. ASSUME NEW x \in Ids(nodes) PROVE \E i \in DOMAIN nodes : x = nodes[i].id /\ ParentSet(nodes, x) \subseteq FirstIds(nodes, i - 1)
  <2>1. PICK i \in DOMAIN nodes : x = nodes[i].id
    BY DEF Ids
  <2> QED BY <1>3, <2>1, ParentsNamed
<1> HIDE DEF n
<1>5. \A i \in DOMAIN nodes : FirstIds(nodes, i - 1) \subseteq Ids(nodes)
  BY <1>1 DEF FirstIds, Ids
<1>6. NoCycle(nodes)
  <2>1. ASSUME NEW S \in SUBSET Ids(nodes), S # {} PROVE \E x \in S : ParentSet(nodes, x) \cap S = {}
    <3> DEFINE N == {i \in DOMAIN nodes : nodes[i].id \in S}
    <3>1. N \subseteq Nat /\ N # {}
      BY <1>1, <2>1 DEF Ids
    <3>2. PICK i \in N : \A j \in N : i <= j
      <4> HIDE DEF N
      <4> QED BY <3>1, Least
    <3>3. ParentSet(nodes, nodes[i].id) \subseteq FirstIds(nodes, i - 1)
      BY <1>3, ParentsNamed
    <3>4. ASSUME NEW x \in FirstIds(nodes, i - 1) PROVE x \notin S
      <4>1. PICK j \in 1 .. i - 1 : x = nodes[j].id
        BY DEF FirstIds
      <4>2. j \in DOMAIN nodes /\ ~(i <= j)
        BY <1>1
      <4> QED BY <3>2, <4>1, <4>2
    <3> QED BY <3>3, <3>4
  <2> QED BY <2>1 DEF NoCycle
<1>7. \A x \in Ids(nodes) : ParentSet(nodes, x) \subseteq Ids(nodes)
  BY <1>4, <1>5
<1> QED BY <1>2, <1>3, <1>6, <1>7, ValidMeans

\* What both builders promise.
LEMMA BuiltOrdered ==
  ASSUME NEW W, NEW turns \in Seq(W), NEW U, \A i \in DOMAIN turns : turns[i].tools \in Seq(U), NEW chained \in BOOLEAN
  PROVE  T!BuiltInOrder(turns, T!Built(turns, chained))
<1>1. PICK s \in Building : T!Built(turns, chained) = s.nodes /\ (turns # <<>> => s \in InTurnStates)
  BY BuiltStands
<1> DEFINE nodes == s.nodes
<1>2. nodes \in Seq(BuiltNodes) /\ Distinct(nodes) /\ Backward(nodes) /\ JoinsAll(nodes)
  BY DEF Building, BuildStates, BuildStanding, InBuildOrder
<1>3. turns # <<>> => T!ValidTrace(nodes)
  <2> SUFFICES ASSUME turns # <<>> PROVE T!ValidTrace(nodes)
    OBVIOUS
  <2>1. nodes # <<>>
    BY <1>1 DEF InTurnStates
  <2> HIDE DEF nodes
  <2> QED BY <1>2, <2>1, BackwardValid
<1> HIDE DEF nodes
<1>4. \A i \in DOMAIN nodes : nodes[i].id[1] = "llm" => T!Before(nodes, {nodes[i].id}) = {nodes[j].id : j \in 1 .. i}
  BY <1>2, BeforeLlm, Zenon DEF FirstIds
<1>5. T!BuiltInOrder(turns, nodes)
  BY <1>3, <1>4, Zenon DEF T!BuiltInOrder
<1> QED BY <1>1, <1>5 DEF nodes

\* Calls that are left out leave a sequence of calls.
LEMMA UsableIn == ASSUME NEW C, NEW calls \in Seq(C) PROVE T!UsableCalls(calls) \in Seq(C)
<1> DEFINE K == {i \in DOMAIN calls : calls[i].usable}
           m == Cardinality(K)
           o == Ranked(K, Less(K))
           s == [i \in 1 .. m |-> calls[o[i]]]
<1>1. DOMAIN calls = 1 .. Len(calls) /\ Len(calls) \in Nat /\ \A i \in DOMAIN calls : calls[i] \in C
  OBVIOUS
<1>2. K \in SUBSET Int /\ K \in SUBSET (1 .. Len(calls))
  BY <1>1
<1>3. IsFiniteSet(K) /\ m \in Nat
  <2>1. IsFiniteSet(1 .. Len(calls))
    BY <1>1, FS_Interval
  <2> HIDE DEF K
  <2> QED BY <1>2, <2>1, FS_Subset, FS_CardinalityType
<1>4. T!UsableCalls(calls) = s
  BY Zenon DEF T!UsableCalls, T!Ranked, Ranked, T!Less, Less, T!Cardinality, Cardinality
<1>5. \A i \in 1 .. m : o[i] \in K
  <2> HIDE DEF K
  <2>1. InOrderOf(o, K, Less(K))
    BY <1>2, <1>3, LessTotal, RankedInOrder
  <2> HIDE DEF o
  <2> QED BY <2>1 DEF InOrderOf
<1> HIDE DEF o, m
<1>6. \A i \in 1 .. m : calls[o[i]] \in C
  BY <1>1, <1>5
<1>7. s \in Seq(C)
  BY <1>3, <1>6
<1> QED BY <1>4, <1>7

\* OpenClaw's traces are in order.
LEMMA OpenclawOrdered ==
  ASSUME NEW W, NEW turns \in Seq(W), NEW U, \A i \in DOMAIN turns : turns[i].tools \in Seq(U), NEW calls, NEW results
  PROVE  T!BuiltInOrder(turns, T!BuildOpenclaw(turns, calls, results))
<1>1. T!BuildOpenclaw(turns, calls, results) = T!Error \/ T!BuildOpenclaw(turns, calls, results) = T!Built(turns, FALSE)
  BY Zenon DEF T!BuildOpenclaw
<1>2. T!BuiltInOrder(turns, T!Error)
  BY Zenon DEF T!BuiltInOrder
<1>3. T!BuiltInOrder(turns, T!Built(turns, FALSE))
  BY BuiltOrdered
<1> QED BY <1>1, <1>2, <1>3, Zenon

\* And mini-SWE-agent's.
LEMMA MinisweOrdered ==
  ASSUME NEW W, NEW turns \in Seq(W), NEW U, \A i \in DOMAIN turns : turns[i].tools \in Seq(U), NEW calls
  PROVE  T!BuiltInOrder(turns, T!BuildMiniswe(turns, calls))
<1>1. T!BuildMiniswe(turns, calls) = T!Error \/ T!BuildMiniswe(turns, calls) = T!Built(turns, TRUE)
  BY Zenon DEF T!BuildMiniswe
<1>2. T!BuiltInOrder(turns, T!Error)
  BY Zenon DEF T!BuiltInOrder
<1>3. T!BuiltInOrder(turns, T!Built(turns, TRUE))
  BY BuiltOrdered
<1> QED BY <1>1, <1>2, <1>3, Zenon

-----------------------------------------------------------------------------
(* The theorems                                                             *)

\* Rendered jobs fit their queue and leave time for their window, the roles of a
\* layout share out the allocation evenly, and packed members never share a node
\* (config.render, config.layout, packed.partition and packed.render).
THEOREM LayoutsAreSound == Spec => []LayoutIsSound
<1>1. Chosen => LayoutIsSound
  <2> SUFFICES ASSUME Chosen PROVE LayoutIsSound
    OBVIOUS
  <2>1. ASSUME kind = "config" PROVE P!JobsFit(input.config, input.smoke, input.group)
    <3>1. input \in Configs
      BY <2>1 DEF Chosen
    <3>2. /\ input.smoke \in BOOLEAN /\ \A w \in Workloads : input.config.window[w] \in Nat
          /\ {input.config.pbs.max_nodes, input.config.pbs.walltime, input.config.pbs.drain} \subseteq Nat
          /\ input.config.pbs.routes \in Seq(QueueRoutes)
          /\ input.config.inference \cup input.config.router.inference \subseteq Nat
      BY <3>1, LayoutConstants, Zenon
    <3> QED BY <3>2, JobsAllFit
  <2>2. ASSUME kind = "allocation"
        PROVE  P!RolesPartition(input.replicas, input.frontends, input.hosts, input.batch)
    <3>1. input \in [replicas : Nat, frontends : Nat \ {0}, hosts : Seq(Hosts), batch : Hosts]
      BY <2>2, LayoutConstants DEF Chosen
    <3>2. /\ input.replicas \in Nat /\ input.frontends \in Nat \ {0}
          /\ input.hosts \in Seq(Hosts) /\ input.batch \in Hosts
      BY <3>1
    <3> QED BY <3>2, RolesShareOut
  <2>3. ASSUME kind = "pack" PROVE P!PacksDisjoint(input.members, input.size, input.hosts, input.batch)
    <3>1. input \in [members : Seq(Members), size : Nat, hosts : Seq(Hosts), batch : Hosts]
      BY <2>3, LayoutConstants DEF Chosen
    <3>2. /\ input.members \in Seq(Members) /\ input.size \in Nat
          /\ input.hosts \in Seq(Hosts) /\ input.batch \in Hosts
      BY <3>1
    <3> QED BY <3>2, PacksApart
  <2> QED BY <2>1, <2>2, <2>3 DEF LayoutIsSound
<1> QED BY <1>1, InputsChosen, PTL

\* A replay gives the model its own words for every recorded one, and leaves the
\* rest of the text as it is, whatever it has learned (bindings.Bindings.add and
\* rewrite).
THEOREM RewritesAreExact == Spec => []RewriteIsExact
<1>1. Chosen => RewriteIsExact
  <2> SUFFICES ASSUME Chosen, kind = "text"
               PROVE  T!RewriteExact(Learned(input), input.words, Separator)
    BY DEF RewriteIsExact
  <2>1. input \in Texts
    BY DEF Chosen
  <2>2. input \in [learned : Seq([recorded : Seq(Symbols \ {Separator}), replayed : Seq(Symbols)]),
                   words : Seq(Seq(Symbols))]
    BY <2>1, TextConstants
  <2>3. /\ input.learned \in Seq([recorded : Seq(Symbols \ {Separator}), replayed : Seq(Symbols)])
        /\ input.words \in Seq(Seq(Symbols)) /\ Separator \in Symbols
    BY <2>2, TextConstants
  <2>4. Bindable(Learned(input), Symbols, Separator)
    BY <2>3, LearnedBinds, Zenon DEF Learned
  <2> QED BY <2>3, <2>4, RewritesExactly
<1> QED BY <1>1, InputsChosen, PTL

\* What the metric accounts say is backed by the samples: a delta is progress that
\* no restart interrupts, an energy is the integral of the power line, a covered
\* window has no hole, and CPU shares are shares (summarize_metrics,
\* resource_counts and HardwareSampler).
THEOREM SamplesAreSound == Spec => []SamplesAreBacked
<1>1. Chosen => SamplesAreBacked
  <2> SUFFICES ASSUME Chosen PROVE SamplesAreBacked
    OBVIOUS
  <2>1. ASSUME kind = "samples"
        PROVE  /\ M!DeltasAreProgress(input.samples, input.start, input.end)
               /\ M!EnergyIsIntegral(input.samples, input.start, input.end)
               /\ M!CoverageIsClose(input.samples, input.start, input.end)
    <3>1. input \in Samplings
      BY <2>1 DEF Chosen
    <3>2. input.start \in Int /\ input.end \in Int /\ Sampled(input.samples)
      BY <3>1, MetricConstants DEF Sampled
    <3> QED BY <3>2, DeltasProgress, EnergyIntegral, CoverageNear
  <2>2. ASSUME kind = "ticks" PROVE M!CpuBusySane(input.old, input.new)
    <3>1. input \in Ticks
      BY <2>2 DEF Chosen
    <3>2. /\ input.old \in Seq(Int) /\ input.new \in Seq(Int)
          /\ Len(input.old) = Len(input.new) /\ Len(input.new) >= 5
      BY <3>1, MetricConstants
    <3> QED BY <3>2, BusySane
  <2> QED BY <2>1, <2>2 DEF SamplesAreBacked
<1> QED BY <1>1, InputsChosen, PTL

\* Whatever the tasks and the window, the sweep over a window and the peak of a run
\* are what counting second by second gives, the parts of a task's time are the
\* seconds of one kind and of both, adjacent windows count every task once, and
\* percentiles are in order (window.timeline, replay/benchmark.summarize,
\* vllm_backend.union_seconds, report.execution_breakdown, summarize_window,
\* distribution).
THEOREM WindowsAreExact == Spec => []WindowIsExact
<1>1. Chosen => WindowIsExact
  <2> SUFFICES ASSUME Chosen PROVE WindowIsExact
    OBVIOUS
  <2>1. ASSUME kind = "window"
        PROVE  LET all == input.llm \o input.tool
                   rows == [k \in DOMAIN all |-> [left |-> all[k].left, right |-> all[k].right,
                                                  status |-> input.status[k]]]
                   last == L!Max({input.end} \cup {all[k].right : k \in DOMAIN all})
               IN /\ L!TimelineExact(all, input.start, input.end) /\ L!UnionExact(input.llm, input.tool, last)
                  /\ L!WindowsAdd(rows, input.start, input.middle, input.end)
    <3> DEFINE llm == input.llm
               tool == input.tool
               start == input.start
               middle == input.middle
               end == input.end
               all == llm \o tool
               rows == [k \in DOMAIN all |-> [left |-> all[k].left, right |-> all[k].right,
                                              status |-> input.status[k]]]
               last == L!Max({end} \cup {all[k].right : k \in DOMAIN all})
    <3>1. /\ llm \in Seq(Spans) /\ tool \in Seq(Spans)
          /\ start \in Nat /\ middle \in Nat /\ end \in Nat
          /\ start <= middle /\ middle <= end /\ start < end
      <4>1. input \in Windows
        BY <2>1 DEF Chosen
      <4> QED BY <4>1, WindowConstants
    <3> HIDE DEF llm, tool, start, middle, end
    <3>2. Spans \subseteq Span /\ \A i \in Spans : i.left <= i.right
      BY DEF Spans, Span
    <3>3. llm \in Seq(Span) /\ tool \in Seq(Span) /\ all \in Seq(Spans) /\ all \in Seq(Span)
      <4>1. \A s \in Seq(Spans) : s \in Seq(Span)
        BY <3>2, SeqDef
      <4>2. all \in Seq(Spans)
        BY <3>1, ConcatProperties
      <4> QED BY <3>1, <4>1, <4>2
    <3>4. Len(all) = Len(llm) + Len(tool) /\ Len(llm) \in Nat /\ Len(tool) \in Nat
          /\ (\A k \in 1 .. Len(llm) : all[k] = llm[k]) /\ (\A k \in 1 .. Len(tool) : all[Len(llm) + k] = tool[k])
          /\ DOMAIN all = 1 .. Len(all) /\ DOMAIN llm = 1 .. Len(llm) /\ DOMAIN tool = 1 .. Len(tool)
      BY <3>1
    <3> HIDE DEF all
    <3>5. /\ Intervals(all) /\ \A k \in DOMAIN all : all[k].left \in Int /\ all[k].right \in Int
      BY <3>3, SpansAre
    <3>6. Lasting(all)
      <4>1. \A k \in DOMAIN all : all[k] \in Spans
        BY <3>3
      <4> QED BY <3>2, <4>1 DEF Lasting
    <3>7. L!TimelineExact(all, start, end)
      BY <3>1, <3>5, <3>6, TimelinesExact
    <3>8. last \in Int /\ \A k \in DOMAIN all : all[k].right <= last
      <4>1. end \in Int
        BY <3>1
      <4>2. IsLast(last, all, end)
        BY <3>5, <4>1, LastOf
      <4> HIDE DEF last
      <4> QED BY <4>2 DEF IsLast
    <3> HIDE DEF last
    <3>9. (\A k \in DOMAIN llm : llm[k].right <= last) /\ (\A k \in DOMAIN tool : tool[k].right <= last)
      <4>1. ASSUME NEW k \in DOMAIN llm PROVE llm[k].right <= last
        <5>1. k \in DOMAIN all /\ all[k] = llm[k]
          BY <3>4
        <5> QED BY <3>8, <5>1
      <4>2. ASSUME NEW k \in DOMAIN tool PROVE tool[k].right <= last
        <5>1. Len(llm) + k \in DOMAIN all /\ all[Len(llm) + k] = tool[k]
          BY <3>4
        <5> QED BY <3>8, <5>1
      <4> QED BY <4>1, <4>2
    <3>10. L!UnionExact(llm, tool, last)
      BY <3>3, <3>8, <3>9, UnionsExact
    <3>11. L!WindowsAdd(rows, start, middle, end)
      <4>1. DOMAIN rows = DOMAIN all /\ \A k \in DOMAIN rows : rows[k].left \in Int /\ rows[k].right \in Int
        BY <3>5
      <4>2. IsFiniteSet(DOMAIN all)
        BY <3>5 DEF Intervals
      <4>3. start \in Int /\ middle \in Int /\ end \in Int /\ start <= middle /\ middle <= end
        BY <3>1
      <4> HIDE DEF rows
      <4> QED BY <4>1, <4>2, <4>3, AdjacentWindowsAdd
    <3> QED BY <3>7, <3>10, <3>11, Zenon DEF llm, tool, start, middle, end, all, last
  <2>2. ASSUME kind = "values" PROVE L!PercentilesOrdered(input)
    <3>1. input \in Values
      BY <2>2 DEF Chosen
    <3>2. input \in Seq(Int) /\ input # <<>> /\ \A i, j \in DOMAIN input : i <= j => input[i] <= input[j]
      BY <3>1, WindowConstants
    <3>3. DOMAIN input = 1 .. Len(input) /\ Len(input) > 0
      BY <3>2
    <3> QED BY <3>2, <3>3, PercentilesInOrder
  <2> QED BY <2>1, <2>2, Zenon DEF WindowIsExact
<1> QED BY <1>1, InputsChosen, PTL

\* Whatever the log and the window, the three readers agree on what they accept, the
\* bins and halves of the report share out its totals, and a log with an aborted
\* request or with tokens of one that has not ended is no measurement
\* (vllm_backend.summarize_backend, summarize_event_window, report.backend_counts).
THEOREM LogsAgree == Spec => []LogAccountsAgree
<1>1. Chosen => LogAccountsAgree
  <2> SUFFICES ASSUME Chosen, kind = "log"
               PROVE  /\ L!AccountsAgree(input.requests, input.start, input.end)
                      /\ L!OnlyCompleteLogs(input.requests, input.start, input.end)
    BY DEF LogAccountsAgree
  <2> DEFINE R == input.requests
  <2>1. input \in Logs
    BY DEF Chosen
  <2>2. /\ BinSeconds \in Nat \ {0} /\ R \in Seq(LoggedRequests)
        /\ input.start \in Nat /\ input.end \in Nat /\ input.start < input.end
        /\ \A k \in DOMAIN R : \A i, j \in DOMAIN R[k].chunks : i <= j => R[k].chunks[i].at <= R[k].chunks[j].at
    BY <2>1, LogConstants
  <2> HIDE DEF R
  <2>3. DOMAIN R = 1 .. Len(R) /\ Len(R) \in Nat /\ \A k \in DOMAIN R : R[k] \in LoggedRequests
    BY <2>2
  <2>4. \A k \in DOMAIN R : Request(R[k])
    BY <2>2, <2>3 DEF LoggedRequests, Request
  <2>5. Requested(R)
    <3>1. IsFiniteSet(1 .. Len(R)) /\ 1 .. Len(R) \subseteq Int
      BY <2>3, FS_Interval
    <3> QED BY <2>3, <2>4, <3>1 DEF Requested
  <2> QED BY <2>2, <2>5, AccountsDoAgree, OnlyComplete DEF R
<1> QED BY <1>1, InputsChosen, PTL

\* Whatever the session, turns are paired with the calls that answered them when ids
\* or the order of capture tell them apart, and no call is lost or used twice; the
\* trace that either builder makes is valid, and every LLM node in it comes after
\* all that the turns before it did.  Whatever the nodes, validate_trace accepts
\* them if, and only if, they name one another, once each, and go in no circle
\* (adapters/openclaw.build_trace, adapters/minisweagent.build_trace,
\* schema.validate_trace).
THEOREM TracesSound == Spec => []TracesAreSound
<1>1. Chosen => TracesAreSound
  <2> SUFFICES ASSUME Chosen PROVE TracesAreSound
    OBVIOUS
  <2>1. ASSUME kind = "turns"
        PROVE  LET extra == [id |-> NoId, turn |-> 0, sequence |-> 0, usable |-> FALSE]
                   calls == IF input.failed THEN Append(input.calls, extra) ELSE input.calls
                   results == T!FlattenSeq([i \in DOMAIN input.turns |-> input.turns[i].tools])
               IN /\ T!PairedRight(input.turns, input.calls)
                  /\ T!PairedRight(input.turns, T!UsableCalls(calls))
                  /\ T!BuiltInOrder(input.turns, T!BuildOpenclaw(input.turns, calls, results))
                  /\ T!BuiltInOrder(input.turns, T!BuildMiniswe(input.turns, calls))
    <3> DEFINE turns == input.turns
               extra == [id |-> NoId, turn |-> 0, sequence |-> 0, usable |-> FALSE]
               calls == IF input.failed THEN Append(input.calls, extra) ELSE input.calls
               C == T!ToSet(input.calls)
               D == C \cup {extra}
    <3>1. input \in Sessions
      BY <2>1 DEF Chosen
    <3>2. /\ turns \in Seq(T!ToSet(turns)) /\ input.calls \in Seq(C)
          /\ \A i \in DOMAIN turns : turns[i].tools \in Seq(T!Asked(turns))
          /\ \A c \in C : /\ c.sequence \in Nat
                          /\ \A i \in DOMAIN turns : c.id = turns[i].id => c.id = NoId \/ c.turn = i
      BY <3>1, TraceConstants, Zenon
    <3>3. extra.id = NoId /\ extra.sequence = 0
      OBVIOUS
    <3> HIDE DEF turns, C, extra
    <3>4. Answers(C, turns)
      BY <3>2 DEF Answers
    <3>5. Answers(D, turns)
      BY <3>2, <3>3 DEF Answers
    <3>6. calls \in Seq(D)
      <4>1. input.calls \in Seq(D) /\ extra \in D
        BY <3>2
      <4> QED BY <4>1
    <3> HIDE DEF calls, D
    <3>7. T!PairedRight(turns, input.calls)
      BY <3>2, <3>4, PairsRight
    <3>8. T!PairedRight(turns, T!UsableCalls(calls))
      <4>1. T!UsableCalls(calls) \in Seq(D)
        BY <3>6, UsableIn
      <4> QED BY <3>2, <3>5, <4>1, PairsRight
    <3>9. \A results : T!BuiltInOrder(turns, T!BuildOpenclaw(turns, calls, results))
      BY <3>2, OpenclawOrdered
    <3>10. T!BuiltInOrder(turns, T!BuildMiniswe(turns, calls))
      BY <3>2, MinisweOrdered
    <3> QED BY <3>7, <3>8, <3>9, <3>10, Zenon DEF turns, calls, extra
  <2>2. ASSUME kind = "nodes" PROVE T!ValidIsDag(input)
    <3> DEFINE Y == UNION {T!ToSet(input[i].depends_on) : i \in DOMAIN input}
    <3>1. input \in Graphs
      BY <2>2 DEF Chosen
    <3>2. /\ input \in Seq(T!ToSet(input))
          /\ \A i \in DOMAIN input : input[i].depends_on \in Seq(T!ToSet(input[i].depends_on))
      BY <3>1, TraceConstants, Zenon
    <3>3. \A i \in DOMAIN input : input[i].depends_on \in Seq(Y)
      <4>1. \A i \in DOMAIN input : T!ToSet(input[i].depends_on) \subseteq Y
        OBVIOUS
      <4> HIDE DEF Y
      <4> QED BY <3>2, <4>1
    <3> HIDE DEF Y
    <3>4. input \in Nodes(T!ToSet(input), Y)
      BY <3>2, <3>3 DEF Nodes
    <3> QED BY <3>4, ValidDag
  <2> QED BY <2>1, <2>2, Zenon DEF TracesAreSound
<1> QED BY <1>1, InputsChosen, PTL
=============================================================================
