-------------------------- MODULE ImageCache_proof --------------------------
(***************************************************************************)
(* Safety of ImageCache for any set of images, any number of prepare and   *)
(* stage_images processes, kills and reruns.                               *)
(***************************************************************************)
EXTENDS ImageCache, TLAPS

\* A process between its lock and its end, and one that deals with a source.
Busy == {"pull", "check", "copy", "rename", "save"}
Held == Busy \cup {"index", "next"}

\* What both commands keep: whoever works holds the lock, so its memory is the
\* index; every source it has dealt with is cached.
ProcInv(p) ==
  LET d == CacheOf(p) IN
  /\ pc[p] \in Held => lock[d] = p
  /\ pc[p] \in Held \ {"index"} => mem[p] = index[d]
  /\ pc[p] \in Busy => current[p] \in pool[p]
  /\ pc[p] = "pull" => failures[p] < MaxFailures
  /\ todo[p] \subseteq pool[p]
  /\ pc[p] \in {"idle", "index"} => todo[p] = pool[p]
  /\ pc[p] \in Held =>
       \A s \in pool[p] \ todo[p] :
         Cached(d, s) \/ (s = current[p] /\ pc[p] \in Busy)
  /\ pc[p] = "done" => \A s \in pool[p] : Cached(d, s)

\* prepare saves the index and renames only what it has checked, in this order.
PrepareInv(p) ==
  p \in Preparers =>
    /\ pc[p] # "copy"
    /\ pc[p] \in {"save", "rename"} => partial["shared"][current[p]] = "good"
    /\ pc[p] = "rename" => current[p] \in index["shared"]

\* stage_images copies what the shared cache has and keeps, and saves the index
\* after the rename.
StageInv(p) ==
  p \in Stagers =>
    /\ pc[p] \notin {"pull", "check"}
    /\ pc[p] \in Held => \A s \in pool[p] : Cached("shared", s)
    /\ pc[p] = "rename" => partial["local"][current[p]] = "good"
    /\ pc[p] = "save" => image["local"][current[p]] = "good"

IInv ==
  /\ TypeOK
  /\ OnlyGoodImages
  /\ ImagesAreIndexed
  /\ \A p \in Procs : ProcInv(p) /\ PrepareInv(p) /\ StageInv(p)

\* A step of p: its own, its kill, or the operator's rerun.
Moves(p) == Step(p) \/ Crash(p) \/ Rerun(p)

\* No cached image is lost.
Grows == \A d \in Caches, s \in Sources : Cached(d, s) => Cached(d, s)'

-----------------------------------------------------------------------------
\* The initial state satisfies the invariant.
LEMMA InitInv == Init => IInv
<1> SUFFICES ASSUME Init PROVE IInv
  OBVIOUS
<1>1. TypeOK
  BY CacheAssumption DEF Init, TypeOK, Caches, Files, States
<1>2. OnlyGoodImages /\ ImagesAreIndexed
  BY DEF Init, OnlyGoodImages, ImagesAreIndexed, Caches
<1>3. ASSUME NEW p \in Procs PROVE ProcInv(p) /\ PrepareInv(p) /\ StageInv(p)
  BY DEF Init, ProcInv, PrepareInv, StageInv, Held, Busy
<1> QED BY <1>1, <1>2, <1>3 DEF IInv

\* A process works in one cache; the other one is a Caches member as well.
LEMMA CacheTypes ==
  ASSUME NEW p \in Procs
  PROVE  CacheOf(p) \in Caches
BY DEF CacheOf, Caches

\* The building blocks of the actions keep the types.
LEMMA EndTypes ==
  ASSUME TypeOK, NEW p \in Procs, NEW st \in States, End(p, st)
  PROVE  /\ pc' \in [Procs -> States]
         /\ lock' \in [Caches -> Procs \cup {Nobody}]
BY DEF End, Goto, TypeOK

LEMMA GotoTypes ==
  ASSUME TypeOK, NEW p \in Procs, NEW st \in States, Goto(p, st)
  PROVE  pc' \in [Procs -> States]
BY DEF Goto, TypeOK

LEMMA PartialTypes ==
  ASSUME TypeOK, NEW p \in Procs, NEW file \in Files, SetPartial(p, file),
         current[p] \in Sources
  PROVE  partial' \in [Caches -> [Sources -> Files]]
BY CacheTypes DEF SetPartial, TypeOK

\* Types are kept by every step.
LEMMA TypeStep ==
  ASSUME IInv, NEW p \in Procs, Moves(p)
  PROVE  TypeOK'
<1> USE CacheTypes, CacheAssumption
<1>0. TypeOK /\ ProcInv(p)
  BY DEF IInv
<1>1. CASE Begin(p)
  BY <1>0, <1>1 DEF Begin, End, Goto, TypeOK, States, diskVars
<1>2. CASE ReadIndex(p)
  BY <1>0, <1>2 DEF ReadIndex, Goto, TypeOK, States, diskVars
<1>3. CASE NextSource(p)
  <2>1. /\ pc' \in [Procs -> States]
        /\ lock' \in [Caches -> Procs \cup {Nobody}]
    <3>1. \/ UNCHANGED <<pc, lock>>
          \/ \E st \in States : End(p, st)
          \/ (\E st \in States : Goto(p, st)) /\ UNCHANGED lock
      BY <1>3 DEF NextSource, States
    <3> QED BY <1>0, <3>1, EndTypes, GotoTypes DEF TypeOK
  <2>2. /\ todo' \in [Procs -> SUBSET Sources]
        /\ current' \in [Procs -> Sources \cup {NoSource}]
        /\ failures' \in [Procs -> 0 .. MaxFailures]
    <3>1. todo' \in [Procs -> SUBSET Sources]
      <4>1. todo[p] \subseteq Sources
        BY <1>0 DEF TypeOK
      <4>2. todo' = todo \/ \E s \in Sources : todo' = [todo EXCEPT ![p] = todo[p] \ {s}]
        BY <1>0, <1>3 DEF NextSource, TypeOK
      <4>3. todo' = todo \/ \E T \in SUBSET Sources : todo' = [todo EXCEPT ![p] = T]
        BY <4>1, <4>2
      <4> QED BY <1>0, <4>3 DEF TypeOK
    <3>2. current' \in [Procs -> Sources \cup {NoSource}]
      <4>1. current' = current \/ \E s \in Sources : current' = [current EXCEPT ![p] = s]
        BY <1>0, <1>3 DEF NextSource, TypeOK
      <4> QED BY <1>0, <4>1 DEF TypeOK
    <3>3. failures' \in [Procs -> 0 .. MaxFailures]
      <4>1. failures' = failures \/ failures' = [failures EXCEPT ![p] = 0]
        BY <1>3 DEF NextSource
      <4>2. 0 \in 0 .. MaxFailures
        OBVIOUS
      <4> HIDE CacheAssumption
      <4> QED BY <1>0, <4>1, <4>2 DEF TypeOK
    <3> QED BY <3>1, <3>2, <3>3
  <2> QED BY <1>0, <1>3, <2>1, <2>2 DEF NextSource, TypeOK, diskVars
<1>4. CASE Pull(p)
  <2>1. /\ pc' \in [Procs -> States]
        /\ lock' \in [Caches -> Procs \cup {Nobody}]
    <3>1. \/ UNCHANGED <<pc, lock>>
          \/ \E st \in States : End(p, st)
          \/ (\E st \in States : Goto(p, st)) /\ UNCHANGED lock
      BY <1>4 DEF Pull, States
    <3> QED BY <1>0, <3>1, EndTypes, GotoTypes DEF TypeOK
  <2>2. partial' \in [Caches -> [Sources -> Files]]
    <3>1. \E file \in Files : SetPartial(p, file)
      BY <1>4 DEF Pull, Files
    <3>2. current[p] \in Sources
      BY <1>0, <1>4 DEF Pull, ProcInv, Busy, TypeOK
    <3> QED BY <1>0, <3>1, <3>2, PartialTypes
  <2>3. failures' \in [Procs -> 0 .. MaxFailures]
    <3>1. failures[p] \in 0 .. MaxFailures /\ failures[p] < MaxFailures
      BY <1>0, <1>4 DEF Pull, TypeOK, ProcInv
    <3>2. failures[p] + 1 \in 0 .. MaxFailures
      BY <3>1
    <3>3. failures' = failures \/ failures' = [failures EXCEPT ![p] = @ + 1]
      BY <1>4 DEF Pull
    <3> QED BY <1>0, <3>2, <3>3 DEF TypeOK
  <2> QED BY <1>0, <1>4, <2>1, <2>2, <2>3 DEF Pull, TypeOK
<1>5. CASE CheckPulled(p)
  BY <1>0, <1>5 DEF CheckPulled, End, Goto, TypeOK, States, diskVars
<1>6. CASE Copy(p)
  BY <1>0, <1>6 DEF Copy, SetPartial, End, Goto, TypeOK, States, Files, Caches,
     ProcInv, Held, Busy
<1>7. CASE Rename(p)
  BY <1>0, <1>7 DEF Rename, Goto, TypeOK, States, Files, ProcInv, Held, Busy
<1>8. CASE SaveIndex(p)
  BY <1>0, <1>8 DEF SaveIndex, Goto, TypeOK, States, ProcInv, Held, Busy
<1>9. CASE Crash(p)
  <2>1. /\ pc' \in [Procs -> States]
        /\ lock' \in [Caches -> Procs \cup {Nobody}]
    BY <1>0, <1>9, EndTypes DEF Crash, States
  <2>2. partial' \in [Caches -> [Sources -> Files]]
    <3>1. CASE UNCHANGED partial
      BY <1>0, <3>1 DEF TypeOK
    <3>2. CASE SetPartial(p, "torn") /\ pc[p] \in Busy
      <4>1. current[p] \in Sources
        BY <1>0, <3>2 DEF ProcInv, TypeOK
      <4> QED BY <1>0, <3>2, <4>1, PartialTypes DEF Files
    <3> QED BY <1>9, <3>1, <3>2 DEF Crash, Busy
  <2> QED BY <1>0, <1>9, <2>1, <2>2 DEF Crash, TypeOK
<1>10. CASE Rerun(p)
  BY <1>0, <1>10 DEF Rerun, Goto, TypeOK, States, diskVars
<1> QED BY <1>1, <1>2, <1>3, <1>4, <1>5, <1>6, <1>7, <1>8, <1>9, <1>10
      DEF Moves, Step

-----------------------------------------------------------------------------
(* What a step of one process leaves to the others *)

\* Only p's own control state moves, only p's cache is written, and only while
\* p works.
LEMMA Frame ==
  ASSUME IInv, NEW p \in Procs, Moves(p)
  PROVE  /\ pool' = pool
         /\ \A q \in Procs : q # p =>
              /\ pc'[q] = pc[q] /\ todo'[q] = todo[q] /\ mem'[q] = mem[q]
              /\ current'[q] = current[q] /\ failures'[q] = failures[q]
         /\ \A d \in Caches : d # CacheOf(p) =>
              image'[d] = image[d] /\ partial'[d] = partial[d] /\ index'[d] = index[d]
         /\ pc[p] \notin Held => UNCHANGED diskVars
<1> TypeOK /\ CacheOf(p) \in Caches
  BY CacheTypes DEF IInv
<1> USE DEF TypeOK, Goto, End, SetPartial, diskVars, Held, Busy
<1>1. CASE Begin(p) \/ ReadIndex(p) \/ CheckPulled(p) \/ Rerun(p)
  BY <1>1 DEF Begin, ReadIndex, CheckPulled, Rerun
<1>2. CASE NextSource(p)
  BY <1>2 DEF NextSource
<1>3. CASE Pull(p)
  BY <1>3 DEF Pull
<1>4. CASE Copy(p)
  BY <1>4 DEF Copy
<1>5. CASE Rename(p) \/ SaveIndex(p)
  BY <1>5 DEF Rename, SaveIndex
<1>6. CASE Crash(p)
  BY <1>6 DEF Crash
<1> QED BY <1>1, <1>2, <1>3, <1>4, <1>5, <1>6 DEF Moves, Step

\* A lock is taken only when it is free, and released only by its owner.
LEMMA LockFrame ==
  ASSUME IInv, NEW p \in Procs, Moves(p), NEW d \in Caches
  PROVE  \/ lock'[d] = lock[d]
         \/ lock[d] = Nobody /\ lock'[d] = p
         \/ lock[d] = p /\ lock'[d] = Nobody
BY DEF IInv, TypeOK, Moves, Step, Begin, ReadIndex, NextSource, Pull, CheckPulled,
   Copy, Rename, SaveIndex, Crash, Rerun, End, Goto

\* No step makes a cached image uncached: the index is written by the holder of
\* the lock, whose memory is the index, and a rename puts an image in place.
LEMMA CacheGrows ==
  ASSUME IInv, NEW p \in Procs, Moves(p)
  PROVE  Grows
<1> DEFINE d == CacheOf(p)
<1> TypeOK /\ ProcInv(p) /\ PrepareInv(p) /\ StageInv(p) /\ d \in Caches
  BY CacheTypes DEF IInv
<1>1. CASE SaveIndex(p)
  <2>1. image' = image /\ index' = [index EXCEPT ![d] = index[d] \cup {current[p]}]
    BY <1>1 DEF SaveIndex, ProcInv, Held, Busy
  <2> QED BY <2>1 DEF Grows, Cached, TypeOK
<1>2. CASE Rename(p)
  <2>1. partial[d][current[p]] = "good"
    BY <1>2, CacheAssumption DEF Rename, PrepareInv, StageInv, CacheOf, Procs
  <2> QED BY <1>2, <2>1 DEF Rename, Grows, Cached, TypeOK
<1>3. CASE ~SaveIndex(p) /\ ~Rename(p)
  <2>1. image' = image /\ index' = index
    BY <1>3 DEF Moves, Step, Begin, ReadIndex, NextSource, Pull, CheckPulled, Copy,
       Crash, Rerun, diskVars
  <2> QED BY <2>1 DEF Grows, Cached
<1> QED BY <1>1, <1>2, <1>3

\* The other processes keep what they have: one that works in the cache of p
\* holds the lock, so p does not touch the disk.
LEMMA OthersKept ==
  ASSUME IInv, NEW p \in Procs, Moves(p), NEW q \in Procs, q # p
  PROVE  ProcInv(q)' /\ PrepareInv(q)' /\ StageInv(q)'
<1> /\ TypeOK /\ ProcInv(p)
    /\ ProcInv(q) /\ PrepareInv(q) /\ StageInv(q)
    /\ CacheOf(q) \in Caches /\ CacheOf(p) \in Caches /\ CacheOf(q)' = CacheOf(q)
  BY CacheTypes DEF IInv, CacheOf
<1>1. /\ pool' = pool /\ pc'[q] = pc[q] /\ todo'[q] = todo[q]
      /\ mem'[q] = mem[q] /\ current'[q] = current[q] /\ failures'[q] = failures[q]
  BY Frame
<1>2. \A d \in Caches, s \in Sources : Cached(d, s) => Cached(d, s)'
  BY CacheGrows DEF Grows
<1>3. pool[q] \subseteq Sources
  BY DEF TypeOK
<1>4. CASE pc[q] \in Held
  <2>1. lock[CacheOf(q)] = q
    BY <1>4 DEF ProcInv
  <2>2. lock'[CacheOf(q)] = q
    BY <2>1, LockFrame, CacheAssumption
  <2>3. CacheOf(p) = CacheOf(q) => pc[p] \notin Held
    BY <2>1 DEF ProcInv
  <2>4. /\ image'[CacheOf(q)] = image[CacheOf(q)]
        /\ partial'[CacheOf(q)] = partial[CacheOf(q)]
        /\ index'[CacheOf(q)] = index[CacheOf(q)]
    BY <2>3, Frame DEF diskVars
  <2>5. ProcInv(q)'
    BY <1>1, <1>2, <1>3, <1>4, <2>2, <2>4 DEF ProcInv, Held, Busy
  <2>6. PrepareInv(q)'
    BY <1>1, <2>4 DEF PrepareInv, CacheOf
  <2>7. StageInv(q)'
    <3>1. q \in Stagers => CacheOf(q) = "local"
      BY CacheAssumption DEF CacheOf
    <3>2. "shared" \in Caches
      BY DEF Caches
    <3> QED BY <1>1, <1>2, <1>3, <2>4, <3>1, <3>2 DEF StageInv
  <2> QED BY <2>5, <2>6, <2>7
<1>5. CASE pc[q] \notin Held
  <2>1. ProcInv(q)'
    BY <1>1, <1>2, <1>3, <1>5 DEF ProcInv, Held, Busy
  <2>2. PrepareInv(q)' /\ StageInv(q)'
    BY <1>1, <1>5 DEF PrepareInv, StageInv, Held, Busy
  <2> QED BY <2>1, <2>2
<1> QED BY <1>4, <1>5

-----------------------------------------------------------------------------
(* What a step does to its own process and to the disk *)

\* Only a rename puts a file under its final name, a good one.
LEMMA GoodStep ==
  ASSUME IInv, NEW p \in Procs, Moves(p)
  PROVE  OnlyGoodImages'
<1> DEFINE d == CacheOf(p)
<1> /\ TypeOK /\ OnlyGoodImages /\ ProcInv(p) /\ PrepareInv(p) /\ StageInv(p)
    /\ d \in Caches
  BY CacheTypes DEF IInv
<1>1. CASE Rename(p)
  <2>1. partial[d][current[p]] = "good"
    BY <1>1, CacheAssumption DEF Rename, PrepareInv, StageInv, CacheOf, Procs
  <2> QED BY <1>1, <2>1 DEF Rename, OnlyGoodImages, TypeOK
<1>2. CASE ~Rename(p)
  <2>1. image' = image
    BY <1>2 DEF Moves, Step, Begin, ReadIndex, NextSource, Pull, CheckPulled, Copy,
       SaveIndex, Crash, Rerun, diskVars
  <2> QED BY <2>1 DEF OnlyGoodImages
<1> QED BY <1>1, <1>2

\* prepare renames only what its index has, and no index loses an entry.
LEMMA IndexedStep ==
  ASSUME IInv, NEW p \in Procs, Moves(p)
  PROVE  ImagesAreIndexed'
<1> DEFINE d == CacheOf(p)
<1> /\ TypeOK /\ ImagesAreIndexed /\ ProcInv(p) /\ PrepareInv(p)
    /\ d \in Caches /\ "shared" \in Caches
  BY CacheTypes DEF IInv, Caches
<1>1. CASE Rename(p)
  <2>1. p \in Preparers => d = "shared" /\ current[p] \in index["shared"]
    BY <1>1 DEF Rename, PrepareInv, CacheOf
  <2>2. p \notin Preparers => d # "shared"
    BY DEF CacheOf
  <2> QED BY <1>1, <2>1, <2>2 DEF Rename, ImagesAreIndexed, TypeOK
<1>2. CASE SaveIndex(p)
  <2>1. image' = image /\ index' = [index EXCEPT ![d] = index[d] \cup {current[p]}]
    BY <1>2 DEF SaveIndex, ProcInv, Held, Busy
  <2> QED BY <2>1 DEF ImagesAreIndexed, TypeOK
<1>3. CASE ~SaveIndex(p) /\ ~Rename(p)
  <2>1. image' = image /\ index' = index
    BY <1>3 DEF Moves, Step, Begin, ReadIndex, NextSource, Pull, CheckPulled, Copy,
       Crash, Rerun, diskVars
  <2> QED BY <2>1 DEF ImagesAreIndexed
<1> QED BY <1>1, <1>2, <1>3

\* A process that ends without success promises nothing but its own bookkeeping.
LEMMA EndKeeps ==
  ASSUME IInv, TypeOK', NEW p \in Procs, NEW st \in {"failed", "killed"},
         pc' = [pc EXCEPT ![p] = st],
         todo'[p] \subseteq pool'[p]
  PROVE  ProcInv(p)' /\ PrepareInv(p)' /\ StageInv(p)'
BY DEF IInv, TypeOK, ProcInv, PrepareInv, StageInv, Held, Busy

\* p's own part of the invariant, action by action.
LEMMA OwnKept ==
  ASSUME IInv, NEW p \in Procs, Moves(p)
  PROVE  ProcInv(p)' /\ PrepareInv(p)' /\ StageInv(p)'
<1> DEFINE d == CacheOf(p)
<1>1. /\ TypeOK /\ ProcInv(p) /\ PrepareInv(p) /\ StageInv(p)
      /\ d \in Caches /\ CacheOf(p)' = d /\ "shared" \in Caches
      /\ p \in Preparers => d = "shared"
      /\ p \in Stagers => d = "local"
      /\ OnlyGoodImages /\ pool[p] \subseteq Sources
  BY CacheTypes, CacheAssumption DEF IInv, CacheOf, Caches, TypeOK
<1>2. TypeOK'
  BY TypeStep
<1>3. \A e \in Caches, s \in Sources : Cached(e, s) => Cached(e, s)'
  BY CacheGrows DEF Grows
<1> HIDE DEF d
<1>4. CASE \E st \in {"failed", "killed"} : End(p, st)
  <2>1. pool' = pool /\ todo'[p] \subseteq pool[p]
    BY <1>1, Frame DEF Moves, Step, Begin, ReadIndex, NextSource, Pull, CheckPulled,
       Copy, Rename, SaveIndex, Crash, Rerun, ProcInv, TypeOK
  <2> QED BY <1>2, <1>4, <2>1, EndKeeps DEF End, Goto
<1>5. CASE Begin(p) /\ ~\E st \in {"failed", "killed"} : End(p, st)
  <2>1. /\ pc[p] = "idle" /\ lock' = [lock EXCEPT ![d] = p]
        /\ pc' = [pc EXCEPT ![p] = "index"]
        /\ p \in Stagers => \A s \in pool[p] : Cached("shared", s)
        /\ UNCHANGED <<image, partial, index, todo, pool, current, mem, failures>>
    BY <1>5 DEF Begin, Goto, diskVars, d
  <2> QED BY <1>1, <1>3, <2>1 DEF ProcInv, PrepareInv, StageInv, Held, Busy, TypeOK
<1>6. CASE ReadIndex(p)
  <2>1. /\ pc[p] = "index" /\ mem' = [mem EXCEPT ![p] = index[d]]
        /\ pc' = [pc EXCEPT ![p] = "next"]
        /\ UNCHANGED <<image, partial, index, lock, todo, pool, current, failures>>
    BY <1>6 DEF ReadIndex, Goto, diskVars, d
  <2> QED BY <1>1, <1>3, <2>1 DEF ProcInv, PrepareInv, StageInv, Held, Busy, TypeOK
<1>7. CASE NextSource(p) /\ ~\E st \in {"failed", "killed"} : End(p, st)
  <2>0. pc[p] = "next" /\ UNCHANGED <<image, partial, index, pool, mem>>
    BY <1>7 DEF NextSource, diskVars
  <2>1. CASE todo[p] = {} /\ End(p, "done") /\ UNCHANGED <<todo, current, failures>>
    BY <1>1, <1>3, <2>0, <2>1 DEF End, Goto, ProcInv, PrepareInv, StageInv, Held,
       Busy, TypeOK
  <2>2. CASE \E s \in todo[p] :
               /\ todo' = [todo EXCEPT ![p] = todo[p] \ {s}]
               /\ Cached(d, s) /\ UNCHANGED <<pc, lock, current, failures>>
    <3>1. PICK s \in todo[p] :
               /\ todo' = [todo EXCEPT ![p] = todo[p] \ {s}]
               /\ Cached(d, s) /\ UNCHANGED <<pc, lock, current, failures>>
      BY <2>2
    <3>2. todo'[p] = todo[p] \ {s}
      BY <1>1, <3>1 DEF TypeOK
    <3> QED BY <1>1, <1>3, <2>0, <3>1, <3>2 DEF ProcInv, PrepareInv, StageInv, Held, Busy
  <2>3. CASE \E s \in todo[p] :
               /\ todo' = [todo EXCEPT ![p] = todo[p] \ {s}]
               /\ current' = [current EXCEPT ![p] = s]
               /\ failures' = [failures EXCEPT ![p] = 0]
               /\ Goto(p, IF p \in Preparers THEN "pull" ELSE "copy")
               /\ UNCHANGED lock
    <3>1. PICK s \in todo[p] :
               /\ todo' = [todo EXCEPT ![p] = todo[p] \ {s}]
               /\ current' = [current EXCEPT ![p] = s]
               /\ failures' = [failures EXCEPT ![p] = 0]
               /\ pc' = [pc EXCEPT ![p] = IF p \in Preparers THEN "pull" ELSE "copy"]
               /\ UNCHANGED lock
      BY <2>3 DEF Goto
    <3>2. /\ todo'[p] = todo[p] \ {s} /\ current'[p] = s /\ failures'[p] = 0
          /\ p \in Preparers => pc'[p] = "pull"
          /\ p \notin Preparers => pc'[p] = "copy"
          /\ pc'[p] \in {"pull", "copy"}
      BY <1>1, <3>1 DEF TypeOK
    <3> QED BY <1>1, <1>3, <2>0, <3>1, <3>2, CacheAssumption
          DEF ProcInv, PrepareInv, StageInv, Held, Busy
  <2> QED BY <1>7, <2>1, <2>2, <2>3 DEF NextSource, d
<1>8. CASE Pull(p) /\ ~\E st \in {"failed", "killed"} : End(p, st)
  <2>1. /\ pc[p] = "pull" /\ UNCHANGED <<image, index, lock, todo, pool, current, mem>>
        /\ pc'[p] = "pull" => failures'[p] < MaxFailures
        /\ pc'[p] \in {"pull", "check"}
    <3>1. failures[p] \in Nat /\ MaxFailures \in Nat
      BY <1>1, CacheAssumption DEF TypeOK
    <3>2. /\ pc[p] = "pull" /\ UNCHANGED <<image, index, lock, todo, pool, current, mem>>
          /\ \/ pc' = [pc EXCEPT ![p] = "check"]
             \/ pc' = pc /\ failures' = failures
             \/ /\ pc' = pc /\ failures' = [failures EXCEPT ![p] = failures[p] + 1]
                /\ ~(failures[p] + 1 >= MaxFailures)
      BY <1>8 DEF Pull, Goto
    <3>3. pc'[p] = "check" \/ (pc'[p] = "pull" /\ failures'[p] < MaxFailures)
      BY <1>1, <3>1, <3>2 DEF TypeOK, ProcInv
    <3> QED BY <3>2, <3>3
  <2> QED BY <1>1, <1>3, <2>1 DEF ProcInv, PrepareInv, StageInv, Held, Busy
<1>9. CASE CheckPulled(p) /\ ~\E st \in {"failed", "killed"} : End(p, st)
  <2>1. /\ pc[p] = "check" /\ pc' = [pc EXCEPT ![p] = "save"]
        /\ partial["shared"][current[p]] = "good"
        /\ UNCHANGED <<image, partial, index, lock, todo, pool, current, mem, failures>>
    BY <1>9 DEF CheckPulled, Goto, diskVars
  <2> QED BY <1>1, <1>3, <2>1 DEF ProcInv, PrepareInv, StageInv, Held, Busy, TypeOK
<1>10. CASE Copy(p) /\ ~\E st \in {"failed", "killed"} : End(p, st)
  <2>1. /\ pc[p] = "copy" /\ pc' = [pc EXCEPT ![p] = "rename"]
        /\ SetPartial(p, image["shared"][current[p]])
        /\ UNCHANGED <<image, index, lock, todo, pool, current, mem, failures>>
    BY <1>10 DEF Copy, Goto
  <2>2. p \notin Preparers /\ p \in Stagers /\ current[p] \in pool[p]
    BY <1>1, <2>1 DEF PrepareInv, Procs, ProcInv, Busy
  <2>3. image["shared"][current[p]] = "good"
    BY <1>1, <2>1, <2>2 DEF StageInv, Held, Busy, Cached, OnlyGoodImages
  <2>4. partial'["local"][current[p]] = "good"
    BY <1>1, <2>1, <2>2, <2>3 DEF SetPartial, TypeOK, d
  <2> QED BY <1>1, <1>3, <2>1, <2>2, <2>4 DEF ProcInv, PrepareInv, StageInv, Held,
        Busy, TypeOK
<1>11. CASE Rename(p)
  <2>1. /\ pc[p] = "rename"
        /\ image' = [image EXCEPT ![d][current[p]] = partial[d][current[p]]]
        /\ pc' = [pc EXCEPT ![p] = IF p \in Preparers THEN "next" ELSE "save"]
        /\ UNCHANGED <<index, lock, todo, pool, current, mem, failures>>
    BY <1>11 DEF Rename, Goto, d
  <2>2. current[p] \in pool[p] /\ partial[d][current[p]] = "good"
    BY <1>1, <2>1 DEF ProcInv, PrepareInv, StageInv, Busy, Procs
  <2>3. image'[d][current[p]] = "good"
    BY <1>1, <2>1, <2>2 DEF TypeOK
  <2>4. CASE p \in Preparers
    <3>1. pc'[p] = "next" /\ Cached(d, current[p])'
      BY <1>1, <2>1, <2>3, <2>4 DEF TypeOK, PrepareInv, Cached
    <3> QED BY <1>1, <1>3, <2>1, <2>4, <3>1, CacheAssumption
          DEF ProcInv, PrepareInv, StageInv, Held, Busy
  <2>5. CASE p \notin Preparers
    <3>1. pc'[p] = "save" /\ p \in Stagers
      BY <1>1, <2>1, <2>5 DEF TypeOK, Procs
    <3> QED BY <1>1, <1>3, <2>1, <2>3, <2>5, <3>1
          DEF ProcInv, PrepareInv, StageInv, Held, Busy
  <2> QED BY <2>4, <2>5
<1>12. CASE SaveIndex(p)
  <2>1. /\ pc[p] = "save"
        /\ mem'[p] = mem[p] \cup {current[p]}
        /\ index'[d] = mem[p] \cup {current[p]}
        /\ pc'[p] = IF p \in Preparers THEN "rename" ELSE "next"
        /\ UNCHANGED <<image, partial, lock, todo, pool, current, failures>>
    <3>1. /\ pc[p] = "save"
          /\ mem' = [mem EXCEPT ![p] = mem[p] \cup {current[p]}]
          /\ index' = [index EXCEPT ![d] = mem[p] \cup {current[p]}]
          /\ pc' = [pc EXCEPT ![p] = IF p \in Preparers THEN "rename" ELSE "next"]
          /\ UNCHANGED <<image, partial, lock, todo, pool, current, failures>>
      BY <1>12 DEF SaveIndex, Goto, d
    <3> QED BY <1>1, <3>1 DEF TypeOK
  <2>2. CASE p \in Preparers
    BY <1>1, <1>3, <2>1, <2>2, CacheAssumption DEF ProcInv, PrepareInv, StageInv,
       Held, Busy
  <2>3. CASE p \notin Preparers
    <3>1. p \in Stagers /\ Cached(d, current[p])'
      BY <1>1, <2>1, <2>3 DEF Procs, StageInv, Cached
    <3> QED BY <1>1, <1>3, <2>1, <2>3, <3>1 DEF ProcInv, PrepareInv, StageInv, Held, Busy
  <2> QED BY <2>2, <2>3
<1>13. CASE Rerun(p)
  <2>1. /\ pc'[p] = "idle" /\ todo'[p] = pool[p] /\ pool' = pool
    BY <1>1, <1>13 DEF Rerun, Goto, TypeOK
  <2> QED BY <2>1 DEF ProcInv, PrepareInv, StageInv, Held, Busy
<1>14. Crash(p) => \E st \in {"failed", "killed"} : End(p, st)
  BY DEF Crash
<1> QED BY <1>4, <1>5, <1>6, <1>7, <1>8, <1>9, <1>10, <1>11, <1>12, <1>13, <1>14
      DEF Moves, Step

\* Every step keeps the invariant.
LEMMA StepInv == IInv /\ [Next]_vars => IInv'
<1> SUFFICES ASSUME IInv, [Next]_vars PROVE IInv'
  OBVIOUS
<1>1. ASSUME NEW p \in Procs, Moves(p) PROVE IInv'
  <2>1. \A q \in Procs : ProcInv(q)' /\ PrepareInv(q)' /\ StageInv(q)'
    BY <1>1, OwnKept, OthersKept
  <2> QED BY <1>1, <2>1, TypeStep, GoodStep, IndexedStep DEF IInv
<1>2. CASE UNCHANGED vars
  BY <1>2 DEF vars, diskVars, procVars, IInv, TypeOK, OnlyGoodImages,
     ImagesAreIndexed, ProcInv, PrepareInv, StageInv, Cached, CacheOf
<1> QED BY <1>1, <1>2 DEF Next, Moves

-----------------------------------------------------------------------------
(* Theorems *)

\* IInv holds in every reachable state.
THEOREM Invariance == Spec => []IInv
BY InitInv, StepInv, PTL DEF Spec

\* Type correctness; in particular a pull is given up in time.
THEOREM TypeCorrect == Spec => []TypeOK
BY Invariance, PTL DEF IInv

\* A file under its final name is a complete, checked image.
THEOREM FinalNamesAreGood == Spec => []OnlyGoodImages
BY Invariance, PTL DEF IInv

\* prepare never meets an unindexed image of its own making.
THEOREM SharedImagesIndexed == Spec => []ImagesAreIndexed
BY Invariance, PTL DEF IInv

\* What a command reported as cached is cached, for good.
THEOREM SuccessLasts == Spec => []SuccessIsCached
<1>1. IInv => SuccessIsCached
  BY DEF IInv, ProcInv, SuccessIsCached
<1> QED BY <1>1, Invariance, PTL

\* No step of any process makes a cached image uncached.
THEOREM CacheMonotone == Spec => CachedStays
<1>1. IInv /\ [Next]_vars => [Grows]_vars
  BY CacheGrows DEF Next, Moves
<1>2. [Grows]_vars => [\A d \in Caches, s \in Sources : Cached(d, s) => Cached(d, s)']_vars
  BY DEF Grows
<1> QED BY <1>1, <1>2, Invariance, PTL DEF Spec, CachedStays
=============================================================================
