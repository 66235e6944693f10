-------------------------- MODULE MultiNode_proof --------------------------
(***************************************************************************)
(* Safety of MultiNode for any replicas, frontends and layout, any number  *)
(* of signals and of faults.                                               *)
(***************************************************************************)
EXTENDS MultiNode, TLAPS

\* What a context manager, its ssh process and the remote know of each other.
\* A context is left normally only when the remote ended without an error.
ProcInv(p) ==
  /\ ctx[p] = "none" <=> ssh[p] = "none"
  /\ ctx[p] = "none" => remote[p] = "none"
  /\ ssh[p] = "ok" => remote[p] = "gone" /\ p \notin sick
  /\ ctx[p] = "left" => p \in cut \/ Exited(p)
  /\ ctx[p] = "left" /\ ~failing => ssh[p] = "ok"
  /\ ctx[p] = "up" => p \in ready

\* A vLLM group belongs to a service that is up, or that reported its loss.
GroupInv(r) ==
  r \in groups => \/ remote[r] \in {"working", "ready", "stopping"}
                  \/ remote[r] = "gone" /\ r \in lost /\ r \in sick

\* A benchmark lives inside its frontend, and the frontend's files tell of it.
BenchInv(r) ==
  LET h == FrontOf[r] IN
  /\ bench[r] # "none" => remote[h] \notin {"none", "boot"}
  /\ Live(r) => remote[h] # "gone"
  /\ bench[r] \in {"run", "done", "orphan"} => start
  /\ h \in ready => r \in benchReady
  /\ h \in complete => bench[r] = "done"

\* The phases of the coordinator.  Once the window is published every context
\* is entered, and no backend is let go before all frontends.
CoordInv ==
  /\ cpc = "begin" => \A p \in Procs : ctx[p] = "none"
  /\ cpc = "backends" => \A h \in Hosts : ctx[h] = "none"
  /\ cpc = "fronts" => \A r \in Replicas : ctx[r] = "up"
  /\ cpc \in {"allocation", "drain", "settle"} =>
       ~failing /\ \A p \in Procs : ctx[p] = "up"
  /\ cpc = "settle" => complete = Hosts
  /\ cpc = "unwind" /\ ~failing =>
       complete = Hosts /\ \A p \in Procs : ctx[p] # "none"
  /\ cpc = "ended" => \A p \in Procs : ctx[p] \in {"none", "left"}
  /\ start =>
       /\ cpc \notin {"begin", "backends", "fronts"}
       /\ Hosts \subseteq ready
       /\ \A p \in Procs : ctx[p] \in {"up", "closing", "left"}
       /\ \A r \in Replicas : ctx[r] # "up" => \A h \in Hosts : ctx[h] = "left"
  /\ runStatus = "completed" =>
       /\ cpc = "ended" /\ ~failing /\ complete = Hosts
       /\ \A p \in Procs : ctx[p] = "left"

IInv ==
  /\ TypeOK
  /\ \A p \in Procs : ProcInv(p)
  /\ \A r \in Replicas : GroupInv(r) /\ BenchInv(r)
  /\ CoordInv

-----------------------------------------------------------------------------
\* Replicas and frontends are different processes, each replica has a frontend.
LEMMA Layout ==
  /\ Replicas \subseteq Procs /\ Hosts \subseteq Procs
  /\ \A r \in Replicas : FrontOf[r] \in Hosts /\ r \notin Hosts
  /\ \A h \in Hosts : h \notin Replicas
  /\ 0 \in 0 .. MaxSignals /\ 0 \in 0 .. MaxFaults
BY MultiNodeAssumption DEF Procs

\* The initial state satisfies the invariant.
LEMMA InitInv == Init => IInv
<1> SUFFICES ASSUME Init PROVE IInv
  OBVIOUS
<1> USE Layout
<1>1. TypeOK
  BY DEF Init, TypeOK, CoordStates, CtxStates, RemoteStates, BenchStates
<1>2. \A p \in Procs : ProcInv(p)
  BY DEF Init, ProcInv, Exited
<1>3. \A r \in Replicas : GroupInv(r) /\ BenchInv(r)
  BY DEF Init, GroupInv, BenchInv, Live, Lively
<1>4. CoordInv
  BY DEF Init, CoordInv
<1> QED BY <1>1, <1>2, <1>3, <1>4 DEF IInv

-----------------------------------------------------------------------------
(* Steps of the coordinator *)

\* The first error: nothing but the unfinished startups and the phase change.
LEMMA FailKeeps ==
  ASSUME IInv, Fail, cancelReq' \in BOOLEAN,
         \/ cpc \in {"backends", "fronts", "allocation", "drain", "settle"}
         \/ \E p \in Procs : ctx[p] = "starting",
         cpc # "killed"
  PROVE  IInv'
<1> USE Layout
<1>0. /\ TypeOK /\ CoordInv
      /\ \A p \in Procs : ProcInv(p)
      /\ \A r \in Replicas : GroupInv(r) /\ BenchInv(r)
  BY DEF IInv
<1>1. /\ UNCHANGED <<cut, start, runStatus, ssh, remote, sick, ready, groups, bench,
                     benchReady, complete, lost, signals, faults>>
      /\ failing' = TRUE
      /\ cpc' = cpc \/ cpc' = "unwind"
      /\ \A p \in Procs : ctx'[p] = IF ctx[p] = "starting" THEN "closing" ELSE ctx[p]
      /\ cpc' = "unwind" \/ cpc' \in {"backends", "fronts"}
  BY DEF Fail, remoteVars, fileVars, benchVars, envVars
<1>2. TypeOK'
  BY <1>0, <1>1 DEF Fail, TypeOK, CoordStates, CtxStates
<1>3. ASSUME NEW p \in Procs PROVE ProcInv(p)'
  BY <1>0, <1>1 DEF ProcInv, Exited
<1>4. ASSUME NEW r \in Replicas PROVE GroupInv(r)' /\ BenchInv(r)'
  BY <1>0, <1>1 DEF GroupInv, BenchInv, Live, Lively
<1>5. CoordInv'
  BY <1>0, <1>1 DEF CoordInv
<1> QED BY <1>2, <1>3, <1>4, <1>5 DEF IInv

\* A change of phase alone, with the verdict: the services are not touched.
LEMMA PhaseKeeps ==
  ASSUME IInv,
         UNCHANGED <<ctx, cut, ssh, remoteVars, lost, faults>>,
         cpc' \in CoordStates, failing' \in BOOLEAN, failing => failing',
         cancelReq' \in BOOLEAN, start' \in BOOLEAN, signals' \in 0 .. MaxSignals,
         start => start',
         runStatus' \in {"none", "completed", "failed"},
         CoordInv'
  PROVE  IInv'
<1> USE Layout
<1>0. /\ TypeOK
      /\ \A p \in Procs : ProcInv(p)
      /\ \A r \in Replicas : GroupInv(r) /\ BenchInv(r)
  BY DEF IInv
<1>1. UNCHANGED <<remote, sick, ready, groups, bench, benchReady, complete>>
  BY DEF remoteVars, fileVars, benchVars
<1>2. TypeOK'
  BY <1>0, <1>1 DEF TypeOK
<1>3. ASSUME NEW p \in Procs PROVE ProcInv(p)'
  BY <1>0, <1>1 DEF ProcInv, Exited
<1>4. ASSUME NEW r \in Replicas PROVE GroupInv(r)' /\ BenchInv(r)'
  BY <1>0, <1>1 DEF GroupInv, BenchInv, Live, Lively
<1> QED BY <1>2, <1>3, <1>4 DEF IInv

\* The contexts of ps, none of them entered before, are started.
LEMMA EnterKeeps ==
  ASSUME IInv, NEW ps \in SUBSET Procs, Enter(ps),
         \A p \in ps : ctx[p] = "none",
         UNCHANGED <<failing, cancelReq, cut, start, runStatus, sick, ready, groups,
                     bench, benchReady, complete, envVars>>,
         \/ cpc = "begin" /\ cpc' = "backends" /\ ps = Replicas
         \/ cpc = "backends" /\ cpc' = "fronts" /\ ps = Hosts
            /\ \A r \in Replicas : ctx[r] = "up"
  PROVE  IInv'
<1> USE Layout
<1>0. /\ TypeOK /\ CoordInv
      /\ \A p \in Procs : ProcInv(p)
      /\ \A r \in Replicas : GroupInv(r) /\ BenchInv(r)
  BY DEF IInv
<1>1. /\ UNCHANGED <<lost, signals, faults>>
      /\ \A p \in Procs :
           /\ ctx'[p] = IF p \in ps THEN "starting" ELSE ctx[p]
           /\ ssh'[p] = IF p \in ps THEN "up" ELSE ssh[p]
           /\ remote'[p] = IF p \in ps THEN "boot" ELSE remote[p]
  BY DEF Enter, fileVars, benchVars, envVars
<1>2. TypeOK'
  BY <1>0, <1>1 DEF Enter, fileVars, benchVars, TypeOK, CoordStates, CtxStates,
       RemoteStates
<1>3. ASSUME NEW p \in Procs PROVE ProcInv(p)'
  BY <1>0, <1>1 DEF ProcInv, Exited
<1>4. ASSUME NEW r \in Replicas PROVE GroupInv(r)' /\ BenchInv(r)'
  <2>1. \A p \in ps : remote[p] = "none"
    BY <1>0 DEF ProcInv
  <2>2. GroupInv(r)'
    BY <1>0, <1>1, <2>1 DEF GroupInv
  <2>3. BenchInv(r)'
    BY <1>0, <1>1, <2>1 DEF BenchInv, Live, Lively
  <2> QED BY <2>2, <2>3
<1>5. CoordInv'
  BY <1>0, <1>1 DEF CoordInv
<1> QED BY <1>2, <1>3, <1>4, <1>5 DEF IInv

\* One context moves on.
LEMMA ContextKeeps ==
  ASSUME IInv, NEW p \in Procs, NEW st \in {"up", "closing", "left"},
         ctx' = [ctx EXCEPT ![p] = st], ctx[p] # "none",
         UNCHANGED <<cpc, start, runStatus, ssh, remoteVars, envVars>>,
         cancelReq' \in BOOLEAN, failing' \in BOOLEAN, failing => failing',
         cut' \subseteq Procs, cut \subseteq cut',
         st = "up" => p \in ready /\ ctx[p] = "starting",
         st = "closing" =>
           /\ ctx[p] = "up" /\ cpc = "unwind" /\ failing' = failing
           /\ \A q \in Procs : ctx[q] # "closing"
           /\ p \in Replicas => \A h \in Hosts : ctx[h] # "up",
         st = "left" =>
           /\ ctx[p] = "closing" /\ (p \in cut' \/ Exited(p))
           /\ failing' \/ (failing' = failing /\ ssh[p] = "ok")
  PROVE  IInv'
<1> USE Layout
<1>0. /\ TypeOK /\ CoordInv
      /\ \A q \in Procs : ProcInv(q)
      /\ \A r \in Replicas : GroupInv(r) /\ BenchInv(r)
  BY DEF IInv
<1>1. /\ UNCHANGED <<remote, sick, ready, groups, bench, benchReady, complete, lost,
                     signals, faults>>
      /\ ctx'[p] = st
      /\ \A q \in Procs : q # p => ctx'[q] = ctx[q]
  BY <1>0 DEF remoteVars, fileVars, benchVars, envVars, TypeOK
<1>2. TypeOK'
  BY <1>0, <1>1 DEF TypeOK, CtxStates
<1>3. ASSUME NEW q \in Procs PROVE ProcInv(q)'
  BY <1>0, <1>1 DEF ProcInv, Exited
<1>4. ASSUME NEW r \in Replicas PROVE GroupInv(r)' /\ BenchInv(r)'
  BY <1>0, <1>1 DEF GroupInv, BenchInv, Live, Lively
<1>5. CoordInv'
  <2>1. start => \A r \in Replicas : ctx'[r] # "up" => \A h \in Hosts : ctx'[h] = "left"
    BY <1>0, <1>1 DEF CoordInv
  <2>2. cpc = "ended" => FALSE
    BY <1>0 DEF CoordInv
  <2> QED BY <1>0, <1>1, <2>1, <2>2 DEF CoordInv
<1> QED BY <1>2, <1>3, <1>4, <1>5 DEF IInv

\* The run ends before anything was started.
LEMMA RefusedKeeps ==
  ASSUME IInv, Refused, cancelReq' \in BOOLEAN
  PROVE  IInv'
<1>0. TypeOK /\ CoordInv
  BY DEF IInv
<1>1. CoordInv'
  BY <1>0 DEF Refused, Phase, CoordInv, remoteVars, fileVars, benchVars
<1>2. UNCHANGED <<ctx, cut, ssh, remoteVars, lost, signals, faults, start>>
  BY DEF Refused, Phase, envVars
<1> QED BY <1>0, <1>1, <1>2, PhaseKeeps DEF Refused, Phase, CoordStates, TypeOK

\* The coordinator stops waiting for the exit of a process.
LEMMA AbandonKeeps ==
  ASSUME IInv, NEW p \in Procs, Abandon(p), cancelReq' \in BOOLEAN
  PROVE  IInv'
<1>1. /\ ctx[p] = "closing" /\ ctx' = [ctx EXCEPT ![p] = "left"]
      /\ cut' \subseteq Procs /\ cut \subseteq cut' /\ p \in cut'
      /\ failing' = TRUE
      /\ UNCHANGED <<cpc, start, runStatus, ssh, remoteVars, envVars>>
  BY DEF Abandon, Context, IInv, TypeOK
<1> QED BY <1>1, ContextKeeps

\* Every step of the coordinator, action by action.
LEMMA CoordKeeps ==
  ASSUME IInv, CoordStep \/ Timer \/ Signal \/ CoordKilled
  PROVE  IInv'
<1> USE Layout
<1>0. TypeOK /\ CoordInv
  BY DEF IInv
<1>1. CASE Begin
  <2>1. CASE cpc' = "backends" /\ Enter(Replicas)
             /\ UNCHANGED <<failing, cut, start, runStatus, envVars>>
    BY <1>0, <1>1, <2>1, EnterKeeps DEF Begin, CoordInv, Enter, fileVars, benchVars
  <2>2. CASE Refused
    BY <1>0, <1>1, <2>2, RefusedKeeps DEF Begin, TypeOK
  <2> QED BY <1>1, <2>1, <2>2 DEF Begin
<1>2. CASE GuardTrips /\ cpc # "killed"
  <2>1. cpc \in {"fronts", "drain", "settle"}
    BY <1>2 DEF GuardTrips, Watched
  <2> QED BY <1>0, <1>2, <2>1, FailKeeps DEF GuardTrips, TypeOK
<1>3. CASE CancelDelivered /\ cpc # "killed"
  <2>1. CASE Refused
    BY <1>3, <2>1, RefusedKeeps DEF CancelDelivered
  <2>2. CASE cpc \in {"backends", "fronts", "allocation", "drain", "settle"} /\ Fail
    BY <1>3, <2>2, FailKeeps DEF CancelDelivered
  <2>3. CASE \E p \in Procs : Abandon(p)
    BY <1>3, <2>3, AbandonKeeps DEF CancelDelivered
  <2> QED BY <1>3, <2>1, <2>2, <2>3 DEF CancelDelivered
<1>4. CASE Joined
  <2>1. CoordInv'
    BY <1>0, <1>4 DEF Joined, Phase, noError, CoordInv, remoteVars, fileVars, benchVars
  <2> QED BY <1>0, <1>4, <2>1, PhaseKeeps DEF Joined, Phase, noError, CoordStates,
       TypeOK, envVars
<1>5. CASE BackendsUp
  <2>1. /\ Enter(Hosts) /\ Hosts \in SUBSET Procs
        /\ \A h \in Hosts : ctx[h] = "none"
        /\ UNCHANGED <<failing, cancelReq, cut, start, runStatus, sick, ready, groups,
                       bench, benchReady, complete, envVars>>
        /\ cpc = "backends" /\ cpc' = "fronts"
        /\ \A r \in Replicas : ctx[r] = "up"
    BY <1>0, <1>5 DEF BackendsUp, noError, Enter, fileVars, benchVars, CoordInv
  <2> QED BY <2>1, EnterKeeps
<1>6. CASE FrontsUp
  <2>1. CoordInv'
    BY <1>0, <1>6 DEF FrontsUp, Phase, noError, CoordInv, remoteVars, fileVars,
         benchVars, Procs
  <2> QED BY <1>0, <1>6, <2>1, PhaseKeeps DEF FrontsUp, Phase, noError, CoordStates,
       TypeOK, envVars
<1>7. CASE Publish
  <2>1. CASE Fail
    BY <1>0, <1>7, <2>1, FailKeeps DEF Publish, Phase, TypeOK
  <2>2. CASE /\ Phase("allocation", "drain") /\ start' = TRUE
             /\ UNCHANGED <<failing, runStatus>>
    <3>1. Hosts \subseteq ready
      BY <1>0, <1>7 DEF Publish, Phase, CoordInv, IInv, ProcInv
    <3>2. CoordInv'
      BY <1>0, <1>7, <2>2, <3>1 DEF Publish, Phase, CoordInv, remoteVars, fileVars,
           benchVars
    <3> QED BY <1>0, <1>7, <2>2, <3>2, PhaseKeeps
          DEF Publish, Phase, CoordStates, TypeOK, envVars
  <2> QED BY <1>7, <2>1, <2>2 DEF Publish, Phase
<1>8. CASE DrainDone \/ Settled
  <2>1. CoordInv'
    BY <1>0, <1>8 DEF DrainDone, Phase, noError, Settled, CoordInv, remoteVars,
         fileVars, benchVars
  <2> QED BY <1>0, <1>8, <2>1, PhaseKeeps
        DEF DrainDone, Phase, noError, Settled, CoordStates, TypeOK, envVars
<1>9. CASE Report
  <2>1. CoordInv'
    BY <1>0, <1>9 DEF Report, Phase, Unwound, CoordInv, remoteVars, fileVars, benchVars
  <2> QED BY <1>0, <1>9, <2>1, PhaseKeeps DEF Report, Phase, CoordStates, TypeOK,
       envVars
<1>10. CASE \E p \in Procs : Started(p)
  <2>1. PICK p \in Procs : Started(p)
    BY <1>10
  <2>2. /\ ctx[p] = "starting" /\ p \in ready
        /\ ctx' = [ctx EXCEPT ![p] = "up"]
        /\ UNCHANGED <<cpc, failing, cancelReq, cut, start, runStatus, ssh,
                       remoteVars, envVars>>
        /\ failing \in BOOLEAN /\ cancelReq \in BOOLEAN /\ cut \subseteq Procs
    BY <1>0, <2>1 DEF Started, Context, TypeOK
  <2> QED BY <2>2, ContextKeeps
<1>11. CASE cpc # "killed" /\ \E p \in Procs : StartupFails(p)
  BY <1>0, <1>11, FailKeeps DEF StartupFails, TypeOK
<1>12. CASE \E p \in Procs : Left(p)
  <2>1. PICK p \in Procs : Left(p)
    BY <1>12
  <2>2. failing' \in BOOLEAN /\ (failing => failing')
        /\ (failing' \/ (failing' = failing /\ ssh[p] = "ok"))
    BY <1>0, <2>1 DEF Left, Context, Exited, TypeOK
  <2> QED BY <1>0, <2>1, <2>2, ContextKeeps DEF Left, Context, TypeOK
<1>13. CASE \E p \in Procs : CloseNext(p)
  <2>1. PICK p \in Procs : CloseNext(p)
    BY <1>13
  <2>2. /\ ctx[p] = "up" /\ cpc = "unwind"
        /\ \A q \in Procs : ctx[q] # "closing"
        /\ p \in Replicas => \A h \in Hosts : ctx[h] # "up"
        /\ ctx' = [ctx EXCEPT ![p] = "closing"]
        /\ UNCHANGED <<cpc, failing, cancelReq, cut, start, runStatus, ssh,
                       remoteVars, envVars>>
        /\ failing \in BOOLEAN /\ cancelReq \in BOOLEAN /\ cut \subseteq Procs
    BY <1>0, <2>1 DEF CloseNext, Context, TypeOK
  <2> QED BY <2>2, ContextKeeps
<1>14. CASE WorkTimesOut /\ cpc # "killed"
  BY <1>0, <1>14, FailKeeps DEF WorkTimesOut, TypeOK
<1>15. CASE \E p \in Procs : CloseTimesOut(p)
  BY <1>0, <1>15, AbandonKeeps DEF CloseTimesOut, TypeOK
<1>16. CASE Signal
  <2>1. signals' \in 0 .. MaxSignals
    BY <1>0, <1>16, MultiNodeAssumption DEF Signal, TypeOK
  <2>2. CoordInv'
    BY <1>0, <1>16 DEF Signal, CoordInv, remoteVars, fileVars, benchVars
  <2> QED BY <1>0, <1>16, <2>1, <2>2, PhaseKeeps DEF Signal, TypeOK
<1>17. CASE CoordKilled
  <2>1. faults' \in 0 .. MaxFaults
    BY <1>0, <1>17, MultiNodeAssumption DEF CoordKilled, noError, fileVars, benchVars,
         Fault, TypeOK
  <2>2. UNCHANGED <<remote, sick, ready, groups, bench, benchReady, complete>>
    BY <1>17 DEF CoordKilled, noError, fileVars, benchVars, remoteVars
  <2>3. TypeOK'
    BY <1>0, <1>17, <2>1, <2>2 DEF CoordKilled, noError, Fault, fileVars, benchVars,
         TypeOK, CoordStates
  <2>4. CoordInv'
    BY <1>0, <1>17, <2>2 DEF CoordKilled, noError, fileVars, benchVars, CoordInv, Over
  <2>5. /\ \A p \in Procs : ProcInv(p)'
        /\ \A r \in Replicas : GroupInv(r)' /\ BenchInv(r)'
    BY <1>17, <2>2 DEF CoordKilled, noError, fileVars, benchVars, IInv, ProcInv,
         Exited, GroupInv, BenchInv, Live, Lively
  <2> QED BY <2>3, <2>4, <2>5 DEF IInv
<1> QED BY <1>1, <1>2, <1>3, <1>4, <1>5, <1>6, <1>7, <1>8, <1>9, <1>10, <1>11,
           <1>12, <1>13, <1>14, <1>15, <1>16, <1>17 DEF CoordStep, Timer
-----------------------------------------------------------------------------
(* Steps of the remotes *)

\* Adding or removing one element says nothing of the others.
LEMMA OnlyOne ==
  ASSUME NEW S, NEW T, NEW p, T = S \/ T = S \cup {p} \/ T = S \ {p}
  PROVE  \A q : q # p => (q \in T <=> q \in S)
OBVIOUS

\* A remote moves on in its life, with the files and the group it owns.
LifeStep(p, st) ==
  /\ remote[p] \notin {"none", "gone"}
  /\ remote' = [remote EXCEPT ![p] = st]
  /\ UNCHANGED <<coordVars, ssh, bench, benchReady, signals>>
  /\ faults' \in 0 .. MaxFaults
  /\ sick' = sick \/ sick' = sick \cup {p}
  /\ lost' = lost \/ lost' = lost \cup {p}
  /\ ready' = ready \/ ready' = ready \cup {p}
  /\ complete' = complete \/ complete' = complete \cup {p}
  /\ complete' # complete => p \in Hosts
  /\ \/ groups' = groups \/ groups' = groups \ {p}
     \/ p \in Replicas /\ groups' = groups \cup {p}
  /\ p \in groups' => \/ st \in {"working", "ready", "stopping"}
                      \/ st = "gone" /\ p \in lost' /\ p \in sick'
  /\ \A r \in Replicas : FrontOf[r] = p =>
       /\ st = "gone" => ~Live(r)
       /\ ready' # ready => r \in benchReady
       /\ complete' # complete => bench[r] = "done"

LEMMA LifeKeeps ==
  ASSUME IInv, NEW p \in Procs, NEW st \in RemoteStates \ {"none", "boot"},
         LifeStep(p, st)
  PROVE  IInv'
<1> USE Layout DEF LifeStep
<1>0. /\ TypeOK /\ CoordInv
      /\ \A q \in Procs : ProcInv(q)
      /\ \A r \in Replicas : GroupInv(r) /\ BenchInv(r)
  BY DEF IInv
<1>1. /\ UNCHANGED <<cpc, failing, cancelReq, ctx, cut, start, runStatus>>
      /\ remote'[p] = st
      /\ \A q \in Procs : q # p =>
           /\ remote'[q] = remote[q]
           /\ q \in sick' <=> q \in sick
           /\ q \in lost' <=> q \in lost
           /\ q \in ready' <=> q \in ready
           /\ q \in complete' <=> q \in complete
           /\ q \in groups' <=> q \in groups
  <2>1. UNCHANGED <<cpc, failing, cancelReq, ctx, cut, start, runStatus>>
    BY DEF coordVars
  <2>2. /\ remote'[p] = st
        /\ \A q \in Procs : q # p => remote'[q] = remote[q]
    BY <1>0 DEF TypeOK
  <2>3. \A q : q # p => (q \in sick' <=> q \in sick)
    BY OnlyOne
  <2>4. \A q : q # p => (q \in lost' <=> q \in lost)
    BY OnlyOne
  <2>5. \A q : q # p => (q \in ready' <=> q \in ready)
    BY OnlyOne
  <2>6. \A q : q # p => (q \in complete' <=> q \in complete)
    BY OnlyOne
  <2>7. \A q : q # p => (q \in groups' <=> q \in groups)
    BY OnlyOne
  <2> QED BY <2>1, <2>2, <2>3, <2>4, <2>5, <2>6, <2>7
<1>2. TypeOK'
  BY <1>0, <1>1 DEF TypeOK
<1>3. ASSUME NEW q \in Procs PROVE ProcInv(q)'
  BY <1>0, <1>1 DEF ProcInv, Exited
<1>4. ASSUME NEW r \in Replicas PROVE GroupInv(r)' /\ BenchInv(r)'
  <2>1. GroupInv(r)'
    BY <1>0, <1>1 DEF GroupInv
  <2>2. BenchInv(r)'
    BY <1>0, <1>1 DEF BenchInv, Live, Lively
  <2> QED BY <2>1, <2>2
<1>5. CoordInv'
  <2>1. ready \subseteq ready' /\ complete \subseteq complete' /\ complete' \subseteq Hosts
    BY <1>0 DEF TypeOK
  <2>2. complete = Hosts => complete' = Hosts
    BY <2>1
  <2> QED BY <1>0, <1>1, <2>1, <2>2 DEF CoordInv
<1> QED BY <1>2, <1>3, <1>4, <1>5 DEF IInv

\* A benchmark moves on inside a frontend that has started it.
LEMMA BenchKeeps ==
  ASSUME IInv, NEW r \in Replicas,
         NEW st \in {"ready", "run", "done", "failed"},
         bench' = [bench EXCEPT ![r] = st], Live(r),
         st \in {"run", "done"} => start,
         UNCHANGED <<coordVars, ssh, remote, sick, ready, groups, complete, envVars>>,
         benchReady' = benchReady \/ benchReady' = benchReady \cup {r}
  PROVE  IInv'
<1> USE Layout
<1>0. /\ TypeOK /\ CoordInv
      /\ \A q \in Procs : ProcInv(q)
      /\ \A q \in Replicas : GroupInv(q) /\ BenchInv(q)
  BY DEF IInv
<1>1. /\ UNCHANGED <<cpc, failing, cancelReq, ctx, cut, start, runStatus, lost,
                     signals, faults>>
      /\ bench'[r] = st
      /\ \A q \in Replicas : q # r => bench'[q] = bench[q]
  BY <1>0 DEF coordVars, envVars, TypeOK
<1>2. TypeOK'
  BY <1>0, <1>1 DEF TypeOK, BenchStates
<1>3. ASSUME NEW q \in Procs PROVE ProcInv(q)'
  BY <1>0, <1>1 DEF ProcInv, Exited
<1>4. ASSUME NEW q \in Replicas PROVE GroupInv(q)' /\ BenchInv(q)'
  BY <1>0, <1>1 DEF GroupInv, BenchInv, Live, Lively
<1>5. CoordInv'
  BY <1>0, <1>1 DEF CoordInv
<1> QED BY <1>2, <1>3, <1>4, <1>5 DEF IInv

\* ssh ends, with the remote or without it.
LEMMA SshKeeps ==
  ASSUME IInv, NEW p \in Procs, SshExits(p) \/ ConnectionLost(p)
  PROVE  IInv'
<1> USE Layout
<1>0. /\ TypeOK /\ CoordInv
      /\ \A q \in Procs : ProcInv(q)
      /\ \A r \in Replicas : GroupInv(r) /\ BenchInv(r)
  BY DEF IInv
<1>1. /\ UNCHANGED <<coordVars, remoteVars, lost, signals>>
      /\ ssh[p] = "up" /\ ssh'[p] \in {"ok", "bad"}
      /\ ssh'[p] = "ok" => remote[p] = "gone" /\ p \notin sick
      /\ \A q \in Procs : q # p => ssh'[q] = ssh[q]
      /\ ssh' \in [Procs -> {"none", "up", "ok", "bad"}]
  BY <1>0 DEF SshExits, ConnectionLost, Fault, envVars, TypeOK
<1>2. faults' \in 0 .. MaxFaults
  BY <1>0, MultiNodeAssumption DEF SshExits, ConnectionLost, Fault, envVars, TypeOK
<1>3. UNCHANGED <<cpc, failing, cancelReq, ctx, cut, start, runStatus, remote, sick,
                  ready, groups, bench, benchReady, complete>>
  BY <1>1 DEF coordVars, remoteVars, fileVars, benchVars
<1>4. TypeOK'
  BY <1>0, <1>1, <1>2, <1>3 DEF TypeOK
<1>5. ASSUME NEW q \in Procs PROVE ProcInv(q)'
  BY <1>0, <1>1, <1>3 DEF ProcInv, Exited
<1>6. ASSUME NEW r \in Replicas PROVE GroupInv(r)' /\ BenchInv(r)'
  BY <1>0, <1>1, <1>3 DEF GroupInv, BenchInv, Live, Lively
<1>7. CoordInv'
  BY <1>0, <1>3 DEF CoordInv
<1> QED BY <1>4, <1>5, <1>6, <1>7 DEF IInv

\* A frontend starts its benchmarks, none of which existed before.
LEMMA FrontStartKeeps ==
  ASSUME IInv, NEW h \in Hosts, FrontStarts(h)
  PROVE  IInv'
<1> USE Layout
<1>0. /\ TypeOK /\ CoordInv
      /\ \A q \in Procs : ProcInv(q)
      /\ \A r \in Replicas : GroupInv(r) /\ BenchInv(r)
  BY DEF IInv
<1>1. /\ UNCHANGED <<cpc, failing, cancelReq, ctx, cut, start, runStatus, ssh, sick,
                     ready, groups, benchReady, complete, lost, signals, faults>>
      /\ remote[h] = "boot" /\ remote'[h] = "working"
      /\ \A q \in Procs : q # h => remote'[q] = remote[q]
      /\ \A r \in Replicas :
           bench'[r] = IF FrontOf[r] = h THEN "prepare" ELSE bench[r]
  BY <1>0 DEF FrontStarts, noFault, fileVars, BenchesOf, coordVars, envVars, TypeOK
<1>2. TypeOK'
  BY <1>0, <1>1 DEF FrontStarts, noFault, fileVars, TypeOK, RemoteStates, BenchStates
<1>3. ASSUME NEW q \in Procs PROVE ProcInv(q)'
  BY <1>0, <1>1 DEF ProcInv, Exited
<1>4. ASSUME NEW r \in Replicas PROVE GroupInv(r)' /\ BenchInv(r)'
  BY <1>0, <1>1 DEF GroupInv, BenchInv, Live, Lively
<1>5. CoordInv'
  BY <1>0, <1>1 DEF CoordInv
<1> QED BY <1>2, <1>3, <1>4, <1>5 DEF IInv

\* SIGKILL of a remote takes its benchmarks' parent away.
LEMMA KillKeeps ==
  ASSUME IInv, NEW p \in Procs, RemoteKilled(p)
  PROVE  IInv'
<1> USE Layout
<1>0. /\ TypeOK /\ CoordInv
      /\ \A q \in Procs : ProcInv(q)
      /\ \A r \in Replicas : GroupInv(r) /\ BenchInv(r)
  BY DEF IInv
<1>1. /\ UNCHANGED <<cpc, failing, cancelReq, ctx, cut, start, runStatus, ssh,
                     ready, groups, benchReady, complete, signals>>
      /\ remote[p] \notin {"none", "gone"} /\ remote'[p] = "gone"
      /\ sick' = sick \cup {p} /\ lost' = lost \cup {p}
      /\ \A q \in Procs : q # p => remote'[q] = remote[q]
      /\ \A r \in Replicas :
           bench'[r] = IF p = FrontOf[r] /\ Live(r)
                       THEN IF bench[r] = "run" THEN "orphan" ELSE "failed"
                       ELSE bench[r]
  BY <1>0 DEF RemoteKilled, Sick, fileVars, Fault, Lively, coordVars, TypeOK
<1>2. faults' \in 0 .. MaxFaults
  BY <1>0, MultiNodeAssumption DEF RemoteKilled, Sick, fileVars, Lively, Fault, TypeOK
<1>3. TypeOK'
  BY <1>0, <1>1, <1>2 DEF RemoteKilled, Sick, fileVars, Fault, Lively, TypeOK,
       RemoteStates, BenchStates
<1>4. ASSUME NEW q \in Procs PROVE ProcInv(q)'
  BY <1>0, <1>1 DEF ProcInv, Exited
<1>5. ASSUME NEW r \in Replicas PROVE GroupInv(r)' /\ BenchInv(r)'
  BY <1>0, <1>1 DEF GroupInv, BenchInv, Live, Lively
<1>6. CoordInv'
  BY <1>0, <1>1 DEF CoordInv
<1> QED BY <1>3, <1>4, <1>5, <1>6 DEF IInv

\* Every step of a remote or of a connection, action by action.
LEMMA RemoteKeeps ==
  ASSUME IInv, NEW p \in Procs, Reaction(p) \/ Cleanup(p) \/ Environment(p)
  PROVE  IInv'
<1> USE Layout
<1>0. /\ TypeOK
      /\ \A r \in Replicas : GroupInv(r) /\ BenchInv(r)
  BY DEF IInv
<1>1. CASE SshExits(p) \/ ConnectionLost(p)
  BY <1>1, SshKeeps
<1>2. CASE RemoteKilled(p)
  BY <1>2, KillKeeps
<1>3. CASE BootFails(p)
  <2>1. \A r \in Replicas : FrontOf[r] = p => ~Live(r)
    BY <1>0, <1>3 DEF BootFails, Life, Sick, noFault, fileVars, benchVars, BenchInv,
         Live, Lively
  <2>2. p \notin groups
    BY <1>0, <1>3 DEF BootFails, Life, Sick, noFault, fileVars, benchVars, GroupInv,
         TypeOK
  <2>3. /\ remote[p] = "boot" /\ remote' = [remote EXCEPT ![p] = "gone"]
        /\ UNCHANGED <<coordVars, ssh, ready, groups, bench, benchReady, complete,
                       lost, signals, faults>>
        /\ sick' = sick \cup {p} /\ faults \in 0 .. MaxFaults
    BY <1>0, <1>3 DEF BootFails, Life, Sick, noFault, fileVars, benchVars, envVars,
         TypeOK
  <2> QED BY <2>1, <2>2, <2>3, LifeKeeps DEF RemoteStates, LifeStep
<1>4. CASE p \in Replicas /\ Launch(p)
  <2>1. /\ remote[p] = "boot" /\ remote' = [remote EXCEPT ![p] = "working"]
        /\ UNCHANGED <<coordVars, ssh, sick, ready, bench, benchReady, complete,
                       lost, signals, faults>>
        /\ groups' = groups \cup {p} /\ faults \in 0 .. MaxFaults
    BY <1>0, <1>4 DEF Launch, Life, Sick, noFault, fileVars, benchVars, envVars, TypeOK
  <2> QED BY <1>4, <2>1, LifeKeeps DEF RemoteStates, LifeStep
<1>5. CASE p \in Replicas /\ ServiceReady(p)
  <2>1. /\ remote[p] = "working" /\ remote' = [remote EXCEPT ![p] = "ready"]
        /\ UNCHANGED <<coordVars, ssh, sick, groups, bench, benchReady, complete,
                       lost, signals, faults>>
        /\ ready' = ready \cup {p} /\ faults \in 0 .. MaxFaults
    BY <1>0, <1>5 DEF ServiceReady, Life, Sick, noFault, fileVars, benchVars, envVars,
         TypeOK
  <2>2. \A r \in Replicas : FrontOf[r] # p
    BY <1>5
  <2>3. "ready" \in RemoteStates \ {"none", "boot"}
    BY DEF RemoteStates
  <2> QED BY <1>5, <2>1, <2>2, <2>3, LifeKeeps DEF LifeStep
<1>6. CASE p \in Replicas /\ VllmExits(p)
  <2>1. /\ remote[p] \in {"working", "ready"} /\ remote' = [remote EXCEPT ![p] = remote[p]]
        /\ UNCHANGED <<coordVars, ssh, sick, ready, bench, benchReady, complete,
                       lost, signals, faults>>
        /\ groups' = groups \ {p} /\ faults \in 0 .. MaxFaults
    BY <1>0, <1>6 DEF VllmExits, noFault, fileVars, benchVars, envVars, TypeOK
  <2>2. remote[p] \in RemoteStates \ {"none", "boot"}
    BY <2>1 DEF RemoteStates
  <2> QED BY <1>6, <2>1, <2>2, LifeKeeps DEF LifeStep
<1>7. CASE p \in Replicas /\ (ServiceLeaves(p) \/ ServiceBreaks(p) \/ ServiceGivesUp(p))
  <2>1. /\ remote[p] \in {"working", "ready"}
        /\ remote' = [remote EXCEPT ![p] = "stopping"]
        /\ UNCHANGED <<coordVars, ssh, ready, groups, bench, benchReady, complete,
                       lost, signals, faults>>
        /\ sick' = sick \/ sick' = sick \cup {p}
        /\ faults \in 0 .. MaxFaults
    BY <1>0, <1>7 DEF ServiceLeaves, Life, Sick, noFault, fileVars, benchVars,
         ServiceBreaks, ServiceGivesUp, envVars, TypeOK
  <2> QED BY <1>7, <2>1, LifeKeeps DEF RemoteStates, LifeStep
<1>8. CASE p \in Replicas /\ ServiceGone(p)
  <2>1. /\ remote[p] = "stopping" /\ remote' = [remote EXCEPT ![p] = "gone"]
        /\ UNCHANGED <<coordVars, ssh, sick, ready, bench, benchReady, complete,
                       lost, signals, faults>>
        /\ groups' = groups \ {p} /\ faults \in 0 .. MaxFaults
    BY <1>0, <1>8 DEF ServiceGone, Life, Sick, noFault, fileVars, benchVars, envVars,
         TypeOK
  <2>2. \A r \in Replicas : FrontOf[r] # p
    BY <1>8
  <2>3. "gone" \in RemoteStates \ {"none", "boot"}
    BY DEF RemoteStates
  <2> QED BY <1>8, <2>1, <2>2, <2>3, LifeKeeps DEF LifeStep
<1>9. CASE p \in Replicas /\ GroupSurvives(p)
  <2>1. /\ remote[p] = "stopping" /\ remote' = [remote EXCEPT ![p] = "gone"]
        /\ UNCHANGED <<coordVars, ssh, ready, groups, bench, benchReady, complete,
                       signals>>
        /\ sick' = sick \cup {p} /\ lost' = lost \cup {p}
    BY <1>9 DEF GroupSurvives, Life, Sick, noFault, fileVars, benchVars, Fault
  <2>2. faults' \in 0 .. MaxFaults
    BY <1>0, <1>9, MultiNodeAssumption DEF GroupSurvives, Life, Sick, noFault,
         fileVars, benchVars, Fault, TypeOK
  <2>3. \A r \in Replicas : FrontOf[r] # p
    BY <1>9
  <2>4. "gone" \in RemoteStates \ {"none", "boot"}
    BY DEF RemoteStates
  <2> QED BY <1>9, <2>1, <2>2, <2>3, <2>4, LifeKeeps DEF LifeStep
<1>10. CASE p \in Hosts /\ FrontStarts(p)
  BY <1>10, FrontStartKeeps
<1>11. CASE p \in Hosts /\ FrontReady(p)
  <2>1. /\ remote[p] = "working" /\ remote' = [remote EXCEPT ![p] = "ready"]
        /\ UNCHANGED <<coordVars, ssh, sick, groups, bench, benchReady, complete,
                       lost, signals, faults>>
        /\ ready' = ready \cup {p} /\ faults \in 0 .. MaxFaults
        /\ \A r \in Replicas : FrontOf[r] = p => r \in benchReady
    BY <1>0, <1>11 DEF FrontReady, Life, Sick, noFault, fileVars, benchVars, BenchesOf,
         envVars, TypeOK
  <2>2. p \notin groups
    BY <1>0, <1>11 DEF TypeOK
  <2>3. \A r \in Replicas : FrontOf[r] = p =>
          /\ "ready" = "gone" => ~Live(r)
          /\ ready' # ready => r \in benchReady
          /\ complete' # complete => bench[r] = "done"
    BY <2>1
  <2>4. "ready" \in RemoteStates \ {"none", "boot"}
    BY DEF RemoteStates
  <2>5. /\ sick' = sick /\ lost' = lost /\ complete' = complete /\ groups' = groups
         /\ ready' = ready \cup {p} /\ faults' \in 0 .. MaxFaults
         /\ UNCHANGED <<coordVars, ssh, bench, benchReady, signals>>
    BY <2>1
  <2>6. remote[p] \notin {"none", "gone"} /\ remote' = [remote EXCEPT ![p] = "ready"]
    BY <2>1
  <2>7. p \notin groups'
    BY <2>2, <2>5
  <2> QED BY <2>3, <2>4, <2>5, <2>6, <2>7, LifeKeeps DEF LifeStep
<1>12. CASE p \in Hosts /\ (FrontBreaks(p) \/ FrontGivesUp(p) \/ FrontLeaves(p))
  <2>1. /\ remote[p] \in {"boot", "working", "ready", "complete"}
        /\ remote' = [remote EXCEPT ![p] = "stopping"]
        /\ UNCHANGED <<coordVars, ssh, ready, groups, bench, benchReady, complete,
                       lost, signals, faults>>
        /\ sick' = sick \/ sick' = sick \cup {p}
        /\ faults \in 0 .. MaxFaults
    BY <1>0, <1>12 DEF FrontBreaks, FrontGivesUp, Life, Sick, noFault, fileVars,
         benchVars, FrontLeaves, envVars, TypeOK
  <2> QED BY <2>1, LifeKeeps DEF RemoteStates, LifeStep
<1>13. CASE p \in Hosts /\ FrontComplete(p)
  <2>1. /\ remote[p] = "ready" /\ remote' = [remote EXCEPT ![p] = "complete"]
        /\ UNCHANGED <<coordVars, ssh, sick, ready, groups, bench, benchReady,
                       lost, signals, faults>>
        /\ complete' = complete \cup {p} /\ faults \in 0 .. MaxFaults
        /\ \A r \in Replicas : FrontOf[r] = p => bench[r] = "done"
    BY <1>0, <1>13 DEF FrontComplete, Life, noFault, fileVars, benchVars, BenchesOf,
       TypeOK
  <2>2. p \notin groups
    BY <1>0, <1>13 DEF TypeOK
  <2>3. \A r \in Replicas : FrontOf[r] = p =>
          /\ "complete" = "gone" => ~Live(r)
          /\ ready' # ready => r \in benchReady
          /\ complete' # complete => bench[r] = "done"
    BY <2>1
  <2>4. "complete" \in RemoteStates \ {"none", "boot"}
    BY DEF RemoteStates
  <2>5. /\ sick' = sick /\ lost' = lost /\ ready' = ready /\ groups' = groups
        /\ complete' = complete \cup {p} /\ (complete' # complete => p \in Hosts)
        /\ faults' \in 0 .. MaxFaults
        /\ UNCHANGED <<coordVars, ssh, bench, benchReady, signals>>
    BY <1>13, <2>1
  <2>6. remote[p] \notin {"none", "gone"} /\ remote' = [remote EXCEPT ![p] = "complete"]
    BY <2>1
  <2>7. p \notin groups'
    BY <2>2, <2>5
  <2>8. LifeStep(p, "complete")
    BY <2>3, <2>5, <2>6, <2>7 DEF LifeStep
  <2> QED BY <2>4, <2>8, LifeKeeps
<1>14. CASE p \in Hosts /\ FrontGone(p)
  <2>1. /\ remote[p] = "stopping" /\ remote' = [remote EXCEPT ![p] = "gone"]
        /\ UNCHANGED <<coordVars, ssh, sick, ready, groups, bench, benchReady,
                       complete, lost, signals, faults>>
        /\ faults \in 0 .. MaxFaults
        /\ \A r \in Replicas : FrontOf[r] = p => ~Live(r)
    BY <1>0, <1>14 DEF FrontGone, Life, Sick, noFault, fileVars, benchVars, BenchesOf,
         envVars, TypeOK
  <2>2. p \notin groups
    BY <1>0, <1>14 DEF TypeOK
  <2>3. "gone" \in RemoteStates \ {"none", "boot"}
    BY DEF RemoteStates
  <2>4. /\ remote[p] \notin {"none", "gone"} /\ p \notin groups'
        /\ faults' \in 0 .. MaxFaults
        /\ \A r \in Replicas : FrontOf[r] = p =>
             /\ "gone" = "gone" => ~Live(r)
             /\ ready' # ready => r \in benchReady
             /\ complete' # complete => bench[r] = "done"
    BY <2>1, <2>2
  <2> QED BY <2>1, <2>3, <2>4, LifeKeeps DEF LifeStep
<1>15. CASE p \in Replicas /\ (BenchReady(p) \/ BenchStarts(p) \/ BenchEnds(p)
                               \/ BenchFails(p) \/ BenchCancelled(p))
  <2>1. /\ Live(p)
        /\ UNCHANGED <<coordVars, ssh, remote, sick, ready, groups, complete, envVars>>
        /\ benchReady' = benchReady \/ benchReady' = benchReady \cup {p}
    BY <1>15 DEF BenchReady, Bench, noFault, fileVars, envVars, BenchStarts, BenchEnds,
         BenchFails, Lively, BenchCancelled, Live
  <2>2. \E st \in {"ready", "run", "done", "failed"} :
          bench' = [bench EXCEPT ![p] = st] /\ (st \in {"run", "done"} => start)
    <3>1. bench[p] = "run" => start
      BY <1>0, <1>15 DEF BenchInv
    <3> QED BY <1>15, <3>1 DEF BenchReady, Bench, noFault, fileVars, BenchStarts,
         BenchEnds, BenchFails, Lively, BenchCancelled
  <2> QED BY <1>15, <2>1, <2>2, BenchKeeps
<1> QED BY <1>1, <1>2, <1>3, <1>4, <1>5, <1>6, <1>7, <1>8, <1>9, <1>10, <1>11,
           <1>12, <1>13, <1>14, <1>15 DEF Reaction, Cleanup, Environment

-----------------------------------------------------------------------------
(* The theorems *)

\* A step that changes nothing keeps the invariant.
LEMMA StutterKeeps == IInv /\ UNCHANGED vars => IInv'
<1> SUFFICES ASSUME IInv, UNCHANGED vars PROVE IInv'
  OBVIOUS
<1>1. UNCHANGED <<cpc, failing, cancelReq, ctx, cut, start, runStatus, ssh, remote,
                  sick, ready, groups, bench, benchReady, complete, lost, signals,
                  faults>>
  BY DEF vars, coordVars, remoteVars, fileVars, benchVars, envVars
<1> QED BY <1>1 DEF IInv, TypeOK, ProcInv, GroupInv, BenchInv, CoordInv, Exited, Live,
     Lively

\* IInv is an invariant of the specification.
THEOREM Invariance == Spec => []IInv
<1>1. IInv /\ [Next]_vars => IInv'
  <2> SUFFICES ASSUME IInv, [Next]_vars PROVE IInv'
    OBVIOUS
  <2>1. CASE Next
    BY <2>1, CoordKeeps, RemoteKeeps DEF Next
  <2>2. CASE UNCHANGED vars
    BY <2>2, StutterKeeps
  <2> QED BY <2>1, <2>2
<1> QED BY InitInv, <1>1, PTL DEF Spec

\* Type correctness of the composition.
THEOREM TypeCorrect == Spec => []TypeOK
<1>1. IInv => TypeOK
  BY DEF IInv
<1> QED BY <1>1, Invariance, PTL

\* No replica enters the common window before every benchmark is ready.
THEOREM WindowIsCommon == Spec => []CommonWindow
<1>1. IInv => CommonWindow
  <2> SUFFICES ASSUME IInv, NEW r \in Replicas,
                      bench[r] \in {"run", "done", "orphan"}
               PROVE  benchReady = Replicas
    BY DEF CommonWindow
  <2>1. Hosts \subseteq ready
    BY DEF IInv, BenchInv, CoordInv
  <2>2. \A q \in Replicas : q \in benchReady
    BY <2>1, Layout DEF IInv, BenchInv
  <2> QED BY <2>2 DEF IInv, TypeOK
<1> QED BY <1>1, Invariance, PTL

\* No backend is let go while a watched frontend still replays.
THEOREM BackendsLast == Spec => []BackendsOutliveReplay
<1>1. IInv => BackendsOutliveReplay
  <2> SUFFICES ASSUME IInv, NEW r \in Replicas, NEW b \in Replicas,
                      bench[r] = "run", FrontOf[r] \notin cut,
                      ssh[FrontOf[r]] # "bad", ctx[b] # "up"
               PROVE  FALSE
    BY DEF BackendsOutliveReplay
  <2> DEFINE h == FrontOf[r]
  <2>1. h \in Hosts /\ h \in Procs
    BY Layout
  <2>2. ctx[h] = "left"
    BY <2>1 DEF IInv, BenchInv, CoordInv
  <2>3. ssh[h] = "ok"
    BY <2>1, <2>2 DEF IInv, ProcInv, Exited
  <2>4. remote[h] = "gone"
    BY <2>1, <2>3 DEF IInv, ProcInv
  <2> QED BY <2>4 DEF IInv, BenchInv, Live, Lively
<1> QED BY <1>1, Invariance, PTL

\* A run reported as completed is over on every node, without an error.
THEOREM CompletedMeansClean == Spec => []CompletedIsClean
<1>1. IInv => CompletedIsClean
  <2> SUFFICES ASSUME IInv, runStatus = "completed"
               PROVE  /\ \A r \in Replicas : bench[r] = "done"
                      /\ \A p \in Procs : ssh[p] = "ok" /\ remote[p] = "gone"
                      /\ groups = {}
    BY DEF CompletedIsClean
  <2>1. ~failing /\ complete = Hosts /\ \A p \in Procs : ctx[p] = "left"
    BY DEF IInv, CoordInv
  <2>2. \A p \in Procs : ssh[p] = "ok" /\ remote[p] = "gone" /\ p \notin sick
    BY <2>1 DEF IInv, ProcInv
  <2>3. \A r \in Replicas : bench[r] = "done"
    BY <2>1, Layout DEF IInv, BenchInv
  <2>4. \A r \in Replicas : r \notin groups
    BY <2>2, Layout DEF IInv, GroupInv
  <2> QED BY <2>2, <2>3, <2>4 DEF IInv, TypeOK
<1> QED BY <1>1, Invariance, PTL

\* A run that ends leaves behind only what it stopped waiting for, lost the
\* connection to, or could not kill.
THEOREM EndLeavesNothing == Spec => []NothingLeftBehind
<1>1. IInv => NothingLeftBehind
  <2> SUFFICES ASSUME IInv, cpc = "ended" PROVE NothingLeftBehind
    BY DEF NothingLeftBehind
  <2>1. \A p \in Procs : ctx[p] \in {"none", "left"}
    BY DEF IInv, CoordInv
  <2>2. ASSUME NEW p \in Procs, p \notin cut, ssh[p] # "bad"
        PROVE  remote[p] \in {"none", "gone"}
    BY <2>1, <2>2 DEF IInv, ProcInv, Exited
  <2>3. ASSUME NEW r \in Replicas, r \in groups, r \notin cut, ssh[r] # "bad"
        PROVE  r \in lost
    BY <2>2, <2>3, Layout DEF IInv, GroupInv
  <2>4. ASSUME NEW r \in Replicas, Live(r), FrontOf[r] \notin cut,
               ssh[FrontOf[r]] # "bad"
        PROVE  FALSE
    BY <2>2, <2>4, Layout DEF IInv, BenchInv, Live, Lively
  <2>5. groups \subseteq Replicas
    BY DEF IInv, TypeOK
  <2> QED BY <2>2, <2>3, <2>4, <2>5 DEF NothingLeftBehind
<1> QED BY <1>1, Invariance, PTL
=============================================================================
