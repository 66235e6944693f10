--------------------------- MODULE Benchmark_proof ---------------------------
(***************************************************************************)
(* Safety of Benchmark for any workers, any number of rows, traces and     *)
(* signals, finite and steady runs.                                        *)
(***************************************************************************)
EXTENDS Benchmark, FiniteSetTheorems, TLAPS

\* A worker waits for its child, or stops it.
Active   == {"spawn", "wait"}
Stopping == {"term", "reap", "spawnKill"}

\* An exception has reached gather(), or is on its way out of a worker's try.
Trouble == gatherErr # "none" \/ \E w \in Workers : pc[w] \in Stopping

\* A worker at work has a row of its own, whose status says how far it is; it
\* ends without an exception only when there is no row for it.
WorkerInv(w) ==
  /\ pc[w] = "new" => row[w] = 0
  /\ row[w] <= admitted
  /\ pc[w] \in Active \cup Stopping => row[w] \in Rows
  /\ pc[w] \in Active => status[row[w]] = "running"
  /\ pc[w] \in {"term", "reap"} => status[row[w]] \in {"failed", "cancelled"}
  /\ pc[w] = "spawnKill" => status[row[w]] = "cancelled"
  /\ pc[w] = "done" => NoRow
  /\ pc[w] \in {"failed", "cancelled"} => gatherErr # "none"
Distinct == \A v, w \in Workers : v # w /\ row[v] # 0 => row[v] # row[w]

\* Rows are admitted in order; the status says how the child ended, or that
\* there never was one, and every end that the run does not tolerate is an
\* exception of the row's worker.
RowInv(t) ==
  /\ t > admitted => status[t] = "pending"
  /\ status[t] = "pending" => leader[t] = "none" /\ (t <= admitted => gatherErr # "none")
  /\ status[t] = "running" =>
       \E w \in Workers :
         row[w] = t /\ (pc[w] \in Active \/ (pc[w] = "failed" /\ leader[t] = "none"))
  /\ status[t] = "completed" => leader[t] = "ok"
  /\ status[t] = "failed" => /\ leader[t] \in ExitCodes \ {"ok"}
                             /\ Trouble \/ (leader[t] = "http" /\ args.tolerate)
  /\ status[t] = "cancelled" => Trouble /\ (gatherErr # "none" \/ signals > 0)
  /\ leader[t] = "up" => status[t] = "running" \/ sig[t] # "none"

\* All traces of the current pass that are used have been used once more.
TraceInv ==
  \A x, y \in Traces :
    /\ (x \in cycle <=> y \in cycle) => used[x] = used[y]
    /\ x \notin cycle /\ y \in cycle => used[x] = used[y] + 1

\* Where the main coroutine is, and what of the workers is left then.
MainInv ==
  /\ mpc \in {"starting", "waiting", "gather"} => runStatus = "none"
  /\ mpc \in {"starting", "waiting"} => signals = 0
  /\ mpc \in {"starting", "waiting"} => cancelReq = {} /\ \A w \in Workers : pc[w] = "new"
  /\ mpc \notin {"gather", "drain"} =>
       \/ \A w \in Workers : WorkerEnded(w)
       \/ cancelReq = {} /\ \A w \in Workers : pc[w] = "new"
  /\ runStatus \in {"completed", "completed_with_errors"} =>
       mpc \notin {"starting", "waiting", "gather", "drain"}
  /\ summary => mpc = "ended"
  /\ expired => args.steady
  /\ runStatus = "cancelled" => signals > 0

\* Every exception has a cause, and nobody who could admit a row after a signal,
\* or while the workers are cancelled, is left without its cancellation.
StopInv ==
  /\ failed => Trouble
  /\ gatherErr = "cancelled" => signals > 0
  /\ cancelReq # {} => gatherErr # "none" \/ signals > 0
  /\ mpc = "drain" \/ (mpc = "gather" /\ signals > 0 /\ gatherErr = "none") =>
       \A w \in Workers : pc[w] \in Active \cup {"new"} => w \in cancelReq

IInv ==
  /\ TypeOK
  /\ \A w \in Workers : WorkerInv(w)
  /\ Distinct
  /\ \A t \in Rows : RowInv(t)
  /\ TraceInv /\ MainInv /\ StopInv
  /\ HonestCompletion /\ SummaryWritten

Statuses == {"pending", "running", "completed", "failed", "cancelled"}

\* st is what the rows' status is when x goes on to its next row: its own row,
\* if it has one, completed or failed with a failure the run tolerates.
Settled(x, st) ==
  /\ st \in [Rows -> Statuses]
  /\ \A t \in Rows : t # row[x] => st[t] = status[t]
  /\ row[x] \in Rows =>
       \/ st[row[x]] = "completed" /\ leader[row[x]] = "ok"
       \/ st[row[x]] = "failed" /\ leader[row[x]] = "http" /\ args.tolerate

-----------------------------------------------------------------------------
\* Nothing is admitted at first, and nobody is at work.
LEMMA InitInv == Init => IInv
<1> SUFFICES ASSUME Init PROVE IInv
  OBVIOUS
<1> USE BenchmarkAssumption DEF Init
<1>1. TypeOK
  <2>1. args \in Args /\ row \in [Workers -> 0 .. NRows]
    BY DEF Args
  <2>2. pc \in [Workers -> WorkerStates] /\ mpc \in MainStates
    BY DEF WorkerStates, MainStates
  <2>3. leader \in [Rows -> ExitCodes \cup {"none", "up"}] /\ used \in [Traces -> Nat]
    BY DEF ExitCodes
  <2>4. status \in [Rows -> Statuses] /\ sig \in [Rows -> {"none", "term", "kill"}]
    BY DEF Statuses
  <2>5. admitted \in 0 .. NRows /\ signals \in 0 .. MaxSignals /\ refused \subseteq Workers \cup {Main}
    OBVIOUS
  <2> QED BY <2>1, <2>2, <2>3, <2>4, <2>5 DEF TypeOK, Statuses
<1>2. (\A w \in Workers : WorkerInv(w))
  BY DEF WorkerInv, Active, Stopping, NoRow, Rows, Traces
<1>3. Distinct
  BY DEF Distinct, Rows, Traces
<1>4. (\A t \in Rows : RowInv(t))
  BY DEF RowInv, Trouble, Active, Stopping, ExitCodes, Rows, Traces
<1>5. TraceInv
  BY DEF TraceInv, Rows, Traces
<1>6. MainInv
  BY DEF MainInv, WorkerEnded, Live, Rows, Traces
<1>7. StopInv
  BY DEF StopInv, Trouble, Active, Stopping, Live, Rows, Traces
<1>8. HonestCompletion
  BY DEF HonestCompletion, Rows, Traces
<1>9. SummaryWritten
  BY DEF SummaryWritten, Rows, Traces
<1> QED BY <1>1, <1>2, <1>3, <1>4, <1>5, <1>6, <1>7, <1>8, <1>9 DEF IInv

\* A worker's task ends with an exception: the one it was in, or the refusal of
\* the row's status.json.
Quits(x, how) ==
  /\ \E h \in {how, "failed"} :
       /\ pc' = [pc EXCEPT ![x] = h]
       /\ gatherErr' = IF gatherErr = "none" THEN h ELSE gatherErr
  /\ refused' \in {refused, refused \cup {x}}

LEMMA LeaveTryQuits == ASSUME NEW x, NEW how, LeaveTry(x, how) PROVE Quits(x, how)
BY Zenon DEF LeaveTry, Raise, Refuse, Quits

\* Drawing a trace from the current pass, or from a new one, keeps the balance.
LEMMA TakeTraceKeeps == ASSUME TypeOK, TraceInv, TakeTrace
                        PROVE  TraceInv' /\ cycle' \subseteq Traces /\ used' \in [Traces -> Nat]
<1> DEFINE pool == IF cycle = {} THEN Traces ELSE cycle
<1>1. PICK y \in pool : cycle' = pool \ {y} /\ used' = [used EXCEPT ![y] = @ + 1]
  BY DEF TakeTrace
<1>2. y \in Traces /\ \A u \in Traces : used[u] \in Nat
  BY <1>1 DEF TypeOK
<1>3. \A u \in Traces : used'[u] = IF u = y THEN used[u] + 1 ELSE used[u]
  BY <1>1, <1>2 DEF TypeOK
<1>4. ASSUME cycle = {} PROVE TraceInv'
  <2>1. \A u, v \in Traces : used[u] = used[v]
    BY <1>4 DEF TraceInv
  <2>2. \A u \in Traces : u \in cycle' <=> u # y
    BY <1>1, <1>4
  <2> QED BY <1>2, <1>3, <2>1, <2>2 DEF TraceInv
<1>5. ASSUME cycle # {} PROVE TraceInv'
  <2>1. y \in cycle /\ \A u \in Traces : u \in cycle' <=> u \in cycle /\ u # y
    BY <1>1, <1>5
  <2> QED BY <1>2, <1>3, <2>1 DEF TraceInv
<1>6. cycle' \subseteq Traces /\ used' \in [Traces -> Nat]
  BY <1>1, <1>2 DEF TypeOK
<1> QED BY <1>4, <1>5, <1>6

\* A worker at a settled row ends: there is no row for it, or it was refused the
\* row's status.json.
LEMMA EndKeeps ==
  ASSUME IInv, NEW x \in Workers, NEW st, Settled(x, st), status' = st,
         pc[x] = "wait" \/ (pc[x] = "new" /\ mpc = "gather"), x \notin cancelReq,
         \/ pc' = [pc EXCEPT ![x] = "done"] /\ NoRow /\ gatherErr' = gatherErr
         \/ pc' = [pc EXCEPT ![x] = "failed"] /\ gatherErr' # "none",
         gatherErr' \in {gatherErr, "failed"}, gatherErr # "none" => gatherErr' = gatherErr,
         refused' \in {refused, refused \cup {x}},
         UNCHANGED <<row, admitted, cycle, used, leader, failed, sig, mainVars, cancelReq, strays>>
  PROVE  IInv'
<1> USE BenchmarkAssumption DEF IInv, Rows
<1> USE DEF mainVars
<1>a. TypeOK /\ WorkerInv(x) /\ st \in [Rows -> Statuses]
  BY DEF Settled
<1>b. mpc \in {"gather", "drain"}
  BY DEF MainInv, WorkerEnded
<1>c. \A v \in Workers : v # x => pc'[v] = pc[v] /\ (row[v] # 0 => row[v] # row[x])
  BY <1>a DEF Distinct, TypeOK
<1>d. row[x] \in Rows => st[row[x]] \in {"completed", "failed"}
  BY DEF Settled
<1>e. /\ pc'[x] \in {"done", "failed"} /\ (pc'[x] = "done" => NoRow')
      /\ pc'[x] = "failed" => gatherErr' # "none"
  BY <1>a DEF TypeOK, NoRow
<1>f. Trouble => Trouble'
  BY <1>c, <1>e DEF Trouble, Stopping
<1>1. TypeOK'
  <2>1. pc' \in [Workers -> WorkerStates]
    BY <1>a DEF TypeOK, WorkerStates
  <2> QED BY <1>a, <2>1 DEF TypeOK, Statuses
<1>2. (\A w \in Workers : WorkerInv(w))'
  <2> SUFFICES ASSUME NEW v \in Workers PROVE WorkerInv(v)'
    OBVIOUS
  <2>1. CASE v = x
    BY <2>1, <1>e, <1>a DEF WorkerInv, Active, Stopping
  <2>2. CASE v # x
    <3>1. row[v] \in Rows => status'[row[v]] = status[row[v]]
      BY <2>2, <1>c DEF Settled
    <3>2. WorkerInv(v) /\ pc'[v] = pc[v] /\ row'[v] = row[v]
      BY <2>2, <1>c
    <3>3. NoRow => NoRow'
      BY DEF NoRow
    <3> QED BY <3>1, <3>2, <3>3 DEF WorkerInv, Active, Stopping
  <2> QED BY <2>1, <2>2
<1>3. Distinct'
  BY DEF Distinct
<1>4. (\A t \in Rows : RowInv(t))'
  <2> SUFFICES ASSUME NEW t \in Rows PROVE RowInv(t)'
    OBVIOUS
  <2>1. CASE t = row[x]
    <3>1. ~(t > admitted)
      BY <2>1, <1>a DEF WorkerInv, TypeOK
    <3> QED BY <2>1, <3>1 DEF Settled, RowInv, ExitCodes
  <2>2. CASE t # row[x]
    <3>1. status'[t] = status[t] /\ RowInv(t)
      BY <2>2 DEF Settled
    <3>2. \A w \in Workers : row[w] = t => w # x /\ pc'[w] = pc[w] /\ row'[w] = t
      BY <2>2, <1>c
    <3> QED BY <3>1, <3>2, <1>f DEF RowInv
  <2> QED BY <2>1, <2>2
<1>5. TraceInv'
  BY DEF TraceInv
<1>6. MainInv'
  BY <1>b DEF MainInv
<1>7. StopInv'
  <2>1. \A w \in Workers : pc'[w] \in Active \cup {"new"} => pc'[w] = pc[w]
    BY <1>c, <1>e DEF Active
  <2> QED BY <1>f, <2>1 DEF StopInv
<1>8. HonestCompletion' /\ SummaryWritten'
  BY <1>b DEF MainInv, HonestCompletion, SummaryWritten
<1> QED BY <1>1, <1>2, <1>3, <1>4, <1>5, <1>6, <1>7, <1>8

\* What is known of the row that a worker takes: it gets its child, or the
\* worker ends with the refusal.
Taken(x, n) ==
  \/ /\ status'[n] = "running" /\ leader'[n] = "up" /\ pc'[x] = "spawn"
     /\ gatherErr' = gatherErr /\ refused' = refused
  \/ /\ status'[n] \in {"pending", "running", "cancelled"} /\ leader'[n] = "none"
     /\ pc'[x] = "failed" /\ gatherErr' # "none"
     /\ gatherErr' \in {gatherErr, "failed"} /\ (gatherErr # "none" => gatherErr' = gatherErr)
     /\ refused' = refused \cup {x}

LEMMA TakenRow ==
  ASSUME TypeOK, RowInv(admitted + 1), admitted + 1 \in Rows,
         NEW x \in Workers, NEW st \in [Rows -> Statuses],
         Launch(x, admitted + 1, st) \/ RefuseRow(x, admitted + 1, st)
  PROVE  /\ Taken(x, admitted + 1)
         /\ pc' \in [Workers -> WorkerStates]
         /\ status' \in [Rows -> Statuses]
         /\ leader' \in [Rows -> ExitCodes \cup {"none", "up"}]
         /\ \A v \in Workers : v # x => pc'[v] = pc[v]
         /\ \A t \in Rows : t # admitted + 1 => status'[t] = st[t] /\ leader'[t] = leader[t]
<1> DEFINE n == admitted + 1
<1>0. pc \in [Workers -> WorkerStates] /\ leader \in [Rows -> ExitCodes \cup {"none", "up"}]
  BY DEF TypeOK
<1>1. CASE Launch(x, n, st)
  BY <1>0, <1>1 DEF Launch, Taken, Statuses, WorkerStates
<1>2. CASE RefuseRow(x, n, st)
  <2>1. /\ pc' = [pc EXCEPT ![x] = "failed"]
        /\ gatherErr' = IF gatherErr = "none" THEN "failed" ELSE gatherErr
        /\ refused' = refused \cup {x} /\ leader' = leader
    BY <1>2 DEF RefuseRow, Raise, Refuse
  <2>2. PICK s \in {"pending", "running", "cancelled"} : status' = [st EXCEPT ![n] = s]
    BY <1>2 DEF RefuseRow
  <2>3. leader[n] = "none"
    BY BenchmarkAssumption DEF RowInv, TypeOK, Rows
  <2>4. status'[n] = s /\ status' \in [Rows -> Statuses] /\ \A t \in Rows : t # n => status'[t] = st[t]
    BY <2>2 DEF Statuses
  <2>5. pc'[x] = "failed" /\ pc' \in [Workers -> WorkerStates] /\ \A v \in Workers : v # x => pc'[v] = pc[v]
    BY <2>1, <1>0 DEF WorkerStates
  <2> QED BY <1>0, <2>1, <2>3, <2>4, <2>5 DEF Taken
<1> QED BY <1>1, <1>2

\* A worker that takes a row from a settled one keeps the invariant.
LEMMA TakeKeeps ==
  ASSUME IInv, NEW x \in Workers, NEW st, Settled(x, st),
         pc[x] = "wait" \/ (pc[x] = "new" /\ mpc = "gather"), x \notin cancelReq,
         HasRow, admitted' = admitted + 1, row' = [row EXCEPT ![x] = admitted + 1], TakeTrace,
         Launch(x, admitted + 1, st) \/ RefuseRow(x, admitted + 1, st),
         UNCHANGED <<failed, sig, mainVars, cancelReq, strays>>
  PROVE  IInv'
<1> DEFINE n == admitted + 1
<1> USE BenchmarkAssumption DEF IInv, Rows
<1> USE DEF mainVars
<1>a. TypeOK /\ WorkerInv(x) /\ st \in [Rows -> Statuses]
  BY DEF Settled
<1>b. mpc \in {"gather", "drain"}
  BY DEF MainInv, WorkerEnded
<1>c. n \in Rows /\ admitted \in Nat
  BY <1>a DEF HasRow, NoRow, TypeOK
<1>d. /\ Taken(x, n)
      /\ pc' \in [Workers -> WorkerStates] /\ status' \in [Rows -> Statuses]
      /\ leader' \in [Rows -> ExitCodes \cup {"none", "up"}]
      /\ \A v \in Workers : v # x => pc'[v] = pc[v]
      /\ \A t \in Rows : t # n => status'[t] = st[t] /\ leader'[t] = leader[t]
  <2>1. RowInv(n)
    BY <1>c
  <2> QED BY <1>a, <1>c, <2>1, TakenRow
<1> HIDE DEF n
<1>n. n = admitted + 1
  BY DEF n
<1>e. \A w \in Workers : row[w] # n
  BY <1>a, <1>c, <1>n DEF WorkerInv, TypeOK
<1>f. row'[x] = n /\ \A v \in Workers : v # x => /\ row'[v] = row[v]
                                                 /\ row[v] # 0 => row[v] # row[x]
  BY <1>a, <1>n DEF TypeOK, Distinct
<1>g. Trouble => Trouble'
  <2>1. pc[x] \notin Stopping
    BY DEF Stopping
  <2>2. gatherErr # "none" => gatherErr' # "none"
    BY <1>d DEF Taken
  <2> QED BY <1>d, <2>1, <2>2 DEF Trouble
<1>h. row[x] \in Rows => st[row[x]] \in {"completed", "failed"}
  BY DEF Settled
<1>1. TypeOK'
  <2>1. cycle' \subseteq Traces /\ used' \in [Traces -> Nat]
    BY <1>a, TakeTraceKeeps
  <2>2. gatherErr' \in {"none", "failed", "cancelled"} /\ refused' \subseteq Workers \cup {Main}
    BY <1>a, <1>d DEF Taken, TypeOK
  <2>3. row' \in [Workers -> 0 .. NRows] /\ admitted' \in 0 .. NRows
    BY <1>a, <1>c, <1>n DEF TypeOK
  <2> QED BY <1>a, <1>d, <2>1, <2>2, <2>3 DEF TypeOK, Statuses
<1>2. (\A w \in Workers : WorkerInv(w))'
  <2> SUFFICES ASSUME NEW v \in Workers PROVE WorkerInv(v)'
    OBVIOUS
  <2>1. CASE v = x
    BY <2>1, <1>c, <1>d, <1>f, <1>n DEF WorkerInv, Taken, Active, Stopping
  <2>2. CASE v # x
    <3>1. row[v] \in Rows => status'[row[v]] = status[row[v]]
      BY <2>2, <1>e, <1>d, <1>f DEF Settled
    <3>2. WorkerInv(v) /\ pc'[v] = pc[v] /\ row'[v] = row[v] /\ pc[v] # "done"
      BY <2>2, <1>d, <1>f DEF WorkerInv, HasRow
    <3>3. row[v] <= admitted => row[v] <= admitted'
      BY <1>c, <1>a DEF TypeOK
    <3>4. gatherErr # "none" => gatherErr' # "none"
      BY <1>d DEF Taken
    <3> QED BY <3>1, <3>2, <3>3, <3>4 DEF WorkerInv, Active, Stopping
  <2> QED BY <2>1, <2>2
<1>3. Distinct'
  BY <1>e, <1>f DEF Distinct
<1>4. (\A t \in Rows : RowInv(t))'
  <2> SUFFICES ASSUME NEW t \in Rows PROVE RowInv(t)'
    OBVIOUS
  <2>0. t \in Int /\ row[x] \in Int
    BY <1>a DEF TypeOK
  <2>1. CASE t = n
    <3>1. ~(t > admitted')
      BY <2>1, <2>0, <1>n
    <3>2. CASE status'[n] = "running" /\ leader'[n] = "up" /\ pc'[x] = "spawn"
      BY <2>1, <3>1, <3>2, <1>f DEF RowInv, Active
    <3>3. CASE /\ status'[n] \in {"pending", "running", "cancelled"} /\ leader'[n] = "none"
               /\ pc'[x] = "failed" /\ gatherErr' # "none"
      BY <2>1, <3>1, <3>3, <1>f DEF RowInv, Trouble
    <3> QED BY <1>d, <3>2, <3>3 DEF Taken
  <2>2. CASE t = row[x]
    <3>1. ~(t > admitted') /\ t # n
      BY <2>0, <2>2, <1>c, <1>e, <1>a DEF WorkerInv, TypeOK
    <3>2. status'[t] = st[t] /\ leader'[t] = leader[t]
      BY <3>1, <1>d
    <3> QED BY <2>2, <3>1, <3>2 DEF Settled, RowInv, ExitCodes
  <2>3. CASE t # row[x] /\ t # n
    <3>1. status'[t] = status[t] /\ leader'[t] = leader[t] /\ RowInv(t)
      BY <2>3, <1>d DEF Settled
    <3>2. \A w \in Workers : row[w] = t => w # x /\ pc'[w] = pc[w] /\ row'[w] = t
      BY <2>3, <1>d, <1>f
    <3>3. (t > admitted <=> t > admitted') /\ (t <= admitted <=> t <= admitted')
      BY <2>0, <2>3, <1>c, <1>n
    <3>4. gatherErr # "none" => gatherErr' # "none"
      BY <1>d DEF Taken
    <3> QED BY <3>1, <3>2, <3>3, <3>4, <1>g DEF RowInv
  <2> QED BY <2>1, <2>2, <2>3
<1>5. TraceInv'
  BY <1>a, TakeTraceKeeps
<1>6. MainInv'
  BY <1>b DEF MainInv
<1>7. StopInv'
  <2>1. mpc = "gather" /\ (signals = 0 \/ gatherErr # "none")
    BY <1>a, <1>b DEF StopInv, Active, TypeOK
  <2>2. /\ gatherErr # "none" => gatherErr' # "none"
        /\ gatherErr' = "cancelled" => gatherErr = "cancelled"
    BY <1>d DEF Taken
  <2>3. signals \in Nat
    BY <1>a DEF TypeOK
  <2> QED BY <2>1, <2>2, <2>3, <1>g DEF StopInv
<1>8. HonestCompletion' /\ SummaryWritten'
  BY <1>b DEF MainInv, HonestCompletion, SummaryWritten
<1> QED BY <1>1, <1>2, <1>3, <1>4, <1>5, <1>6, <1>7, <1>8

\* A worker that goes on from a settled row keeps the invariant.
LEMMA GoOnKeeps ==
  ASSUME IInv, NEW x \in Workers, NEW st, Settled(x, st), GoOn(x, st),
         pc[x] = "wait" \/ (pc[x] = "new" /\ mpc = "gather"), x \notin cancelReq,
         UNCHANGED <<failed, sig, mainVars, cancelReq, strays>>
  PROVE  IInv'
<1>1. CASE NoRow /\ status' = st /\ pc' = [pc EXCEPT ![x] = "done"]
           /\ UNCHANGED <<row, admitted, cycle, used, leader, gatherErr, refused>>
  BY <1>1, EndKeeps
<1>2. CASE /\ HasRow /\ admitted' = admitted + 1 /\ row' = [row EXCEPT ![x] = admitted + 1]
           /\ TakeTrace
           /\ Launch(x, admitted + 1, st) \/ RefuseRow(x, admitted + 1, st)
  BY <1>2, TakeKeeps
<1>3. CASE /\ status' = st /\ Raise(x, "failed") /\ Refuse(x)
           /\ UNCHANGED <<row, admitted, cycle, used, leader>>
  <2>1. /\ pc' = [pc EXCEPT ![x] = "failed"]
        /\ gatherErr' = IF gatherErr = "none" THEN "failed" ELSE gatherErr
        /\ refused' = refused \cup {x}
    BY <1>3 DEF Raise, Refuse
  <2> QED BY <1>3, <2>1, EndKeeps
<1> QED BY <1>1, <1>2, <1>3 DEF GoOn, Advance

\* A worker that begins has no row to settle.
LEMMA StartKeeps == ASSUME IInv, NEW x \in Workers, Start(x) PROVE IInv'
<1>1. Settled(x, status)
  BY BenchmarkAssumption DEF Start, Settled, IInv, WorkerInv, TypeOK, Statuses,
     Rows
<1> QED BY <1>1, GoOnKeeps DEF Start, GoOn

\* A failure the run does not tolerate: the row fails and its group is stopped.
LEMMA FailureKeeps ==
  ASSUME IInv, NEW x \in Workers, pc[x] = "wait", x \notin cancelReq,
         leader[row[x]] \in ExitCodes \ {"ok"},
         failed' \in {failed, TRUE}, status' = [status EXCEPT ![row[x]] = "failed"],
         StopProcess(x, "failed"),
         UNCHANGED <<row, admitted, cycle, used, leader, mainVars, cancelReq, strays>>
  PROVE  IInv'
<1> USE BenchmarkAssumption DEF IInv, Rows, mainVars
<1>a. TypeOK /\ WorkerInv(x) /\ row[x] \in Rows
  BY DEF WorkerInv, Active
<1>b. mpc \in {"gather", "drain"}
  BY DEF MainInv, WorkerEnded
<1>c. \/ /\ pc' = [pc EXCEPT ![x] = "term"] /\ sig' = [sig EXCEPT ![row[x]] = "term"]
         /\ gatherErr' = gatherErr /\ refused' = refused
      \/ /\ pc' = [pc EXCEPT ![x] = "failed"] /\ sig' = sig /\ leader[row[x]] # "up"
         /\ gatherErr' = IF gatherErr = "none" THEN "failed" ELSE gatherErr
         /\ refused' \in {refused, refused \cup {x}}
  <2>1. CASE GroupAlive(row[x])
    BY <2>1 DEF StopProcess
  <2>2. CASE ~GroupAlive(row[x])
    BY <2>2, LeaveTryQuits DEF StopProcess, GroupAlive, Quits
  <2> QED BY <2>1, <2>2
<1>d. /\ status'[row[x]] = "failed" /\ pc'[x] \in {"term", "failed"}
      /\ pc'[x] = "failed" => gatherErr' # "none"
      /\ gatherErr # "none" => gatherErr' = gatherErr
      /\ gatherErr' \in {gatherErr, "failed"}
      /\ refused' \in {refused, refused \cup {x}}
  BY <1>a, <1>c DEF TypeOK
<1>e. \A v \in Workers : v # x => /\ pc'[v] = pc[v]
                                  /\ row[v] # 0 => row[v] # row[x]
  BY <1>a, <1>c DEF Distinct, TypeOK
<1>f. \A t \in Rows : t # row[x] => status'[t] = status[t]
  BY <1>a DEF TypeOK
<1>g. Trouble'
  BY <1>d DEF Trouble, Stopping
<1>1. TypeOK'
  <2>1. pc' \in [Workers -> WorkerStates]
    BY <1>a, <1>c DEF TypeOK, WorkerStates
  <2>2. sig' = sig \/ sig' = [sig EXCEPT ![row[x]] = "term"]
    BY <1>c
  <2>3. sig' \in [Rows -> {"none", "term", "kill"}]
    BY <1>a, <2>2 DEF TypeOK
  <2> QED BY <1>a, <1>d, <2>1, <2>3 DEF TypeOK
<1>2. (\A w \in Workers : WorkerInv(w))'
  <2> SUFFICES ASSUME NEW v \in Workers PROVE WorkerInv(v)'
    OBVIOUS
  <2>1. CASE v = x
    BY <2>1, <1>a, <1>d DEF WorkerInv, Active, Stopping
  <2>2. CASE v # x
    <3>1. row[v] \in Rows => status'[row[v]] = status[row[v]]
      BY <2>2, <1>e, <1>f
    <3>2. WorkerInv(v) /\ pc'[v] = pc[v] /\ row'[v] = row[v]
      BY <2>2, <1>e
    <3>3. NoRow => NoRow'
      BY DEF NoRow
    <3> QED BY <3>1, <3>2, <3>3, <1>d DEF WorkerInv, Active, Stopping
  <2> QED BY <2>1, <2>2
<1>3. Distinct'
  BY DEF Distinct
<1>4. (\A t \in Rows : RowInv(t))'
  <2> SUFFICES ASSUME NEW t \in Rows PROVE RowInv(t)'
    OBVIOUS
  <2>1. CASE t = row[x]
    <3>1. status[t] = "running" /\ RowInv(t)
      BY <2>1, <1>a DEF WorkerInv, Active
    <3> QED BY <2>1, <3>1, <1>d, <1>g DEF RowInv, ExitCodes
  <2>2. CASE t # row[x]
    <3>1. status'[t] = status[t] /\ sig'[t] = sig[t] /\ RowInv(t)
      BY <2>2, <1>a, <1>c, <1>f DEF TypeOK
    <3>2. \A w \in Workers : row[w] = t => pc'[w] = pc[w] /\ row'[w] = t
      BY <2>2, <1>e
    <3> QED BY <3>1, <3>2, <1>d, <1>g DEF RowInv
  <2> QED BY <2>1, <2>2
<1>5. TraceInv'
  BY DEF TraceInv
<1>6. MainInv'
  BY <1>b DEF MainInv
<1>7. StopInv'
  BY <1>d, <1>e, <1>g DEF StopInv, Active
<1>8. HonestCompletion' /\ SummaryWritten'
  BY <1>b DEF MainInv, HonestCompletion, SummaryWritten
<1> QED BY <1>1, <1>2, <1>3, <1>4, <1>5, <1>6, <1>7, <1>8

\* The three ends of a child: success, a tolerated failure, any other failure.
LEMMA ReapedKeeps == ASSUME IInv, NEW x \in Workers, Reaped(x) PROVE IInv'
<1> DEFINE t == row[x]
<1>0. /\ t \in Rows /\ pc[x] = "wait" /\ x \notin cancelReq
      /\ leader[t] \in ExitCodes /\ status \in [Rows -> Statuses]
      /\ UNCHANGED <<mainVars, cancelReq, strays>>
  BY DEF Reaped, IInv, WorkerInv, Active, TypeOK, Statuses
<1>1. CASE leader[t] = "ok" /\ GoOn(x, [status EXCEPT ![t] = "completed"])
           /\ UNCHANGED <<failed, sig>>
  <2>1. Settled(x, [status EXCEPT ![t] = "completed"])
    BY <1>0, <1>1 DEF Settled, Statuses
  <2> QED BY <1>0, <1>1, <2>1, GoOnKeeps
<1>2. CASE leader[t] = "http" /\ args.tolerate /\ GoOn(x, [status EXCEPT ![t] = "failed"])
           /\ UNCHANGED <<failed, sig>>
  <2>1. Settled(x, [status EXCEPT ![t] = "failed"])
    BY <1>0, <1>2 DEF Settled, Statuses
  <2> QED BY <1>0, <1>2, <2>1, GoOnKeeps
<1>3. CASE /\ leader[t] # "ok"
           /\ failed' = TRUE \/ (leader[t] # "http" /\ UNCHANGED failed)
           /\ status' = [status EXCEPT ![t] = "failed"] /\ StopProcess(x, "failed")
           /\ UNCHANGED <<row, admitted, cycle, used, leader>>
  <2>1. failed' \in {failed, TRUE}
    BY <1>3
  <2> QED BY <1>0, <1>3, <2>1, FailureKeeps
<1> QED BY <1>1, <1>2, <1>3 DEF Reaped

\* The worker of a spawned child goes on to wait for it.
LEMMA SpawnedKeeps == ASSUME IInv, NEW x \in Workers, Spawned(x) PROVE IInv'
<1> USE BenchmarkAssumption DEF IInv, TypeOK, Rows, Traces, mainVars, Spawned,
      poolVars, childVars
<1>0. Trouble => Trouble'
  BY DEF Trouble, Stopping
<1>1. TypeOK'
  BY DEF TypeOK, MainStates, WorkerStates, ExitCodes, Args, Rows, Traces
<1>2. (\A w \in Workers : WorkerInv(w))'
  BY DEF WorkerInv, Active, Stopping, NoRow
<1>3. Distinct'
  BY DEF Distinct
<1>4. (\A t \in Rows : RowInv(t))'
  BY <1>0 DEF RowInv, Active, ExitCodes
<1>5. TraceInv'
  BY DEF TraceInv
<1>6. MainInv'
  BY DEF MainInv, WorkerEnded, Live
<1>7. StopInv'
  BY <1>0 DEF StopInv, Active
<1>8. HonestCompletion'
  BY DEF HonestCompletion
<1>9. SummaryWritten'
  BY DEF SummaryWritten
<1> QED BY <1>1, <1>2, <1>3, <1>4, <1>5, <1>6, <1>7, <1>8, <1>9

\* A worker whose stop_process is over passes its exception on, or the refusal
\* of status.json.
LEMMA QuitKeeps ==
  ASSUME IInv, NEW x \in Workers, pc[x] \in Stopping, NEW how \in {"failed", "cancelled"},
         Quits(x, how), how = "cancelled" => gatherErr # "none" \/ signals > 0,
         cancelReq' \in {cancelReq, cancelReq \ {x}},
         UNCHANGED <<row, mainVars, poolVars, childVars>>
  PROVE  IInv'
<1> USE BenchmarkAssumption DEF IInv, mainVars, poolVars, childVars
<1>a. TypeOK /\ WorkerInv(x)
  OBVIOUS
<1>b. PICK h \in {"failed", "cancelled"} :
        /\ pc' = [pc EXCEPT ![x] = h]
        /\ gatherErr' = IF gatherErr = "none" THEN h ELSE gatherErr
        /\ h = "cancelled" => gatherErr # "none" \/ signals > 0
  BY DEF Quits
<1>c. pc'[x] = h /\ \A v \in Workers : v # x => pc'[v] = pc[v]
  BY <1>a, <1>b DEF TypeOK
<1>d. gatherErr' # "none" /\ Trouble'
  BY <1>b DEF Trouble
<1>e. mpc \in {"gather", "drain"}
  BY DEF MainInv, WorkerEnded, Stopping
<1>1. TypeOK'
  <2>1. pc' \in [Workers -> WorkerStates]
    BY <1>a, <1>b DEF TypeOK, WorkerStates
  <2>2. gatherErr' \in {"none", "failed", "cancelled"}
    BY <1>a, <1>b DEF TypeOK
  <2>3. refused' \subseteq Workers \cup {Main} /\ cancelReq' \subseteq Workers
    BY <1>a DEF TypeOK, Quits
  <2> QED BY <1>a, <2>1, <2>2, <2>3 DEF TypeOK
<1>2. (\A w \in Workers : WorkerInv(w))'
  BY <1>b, <1>c, <1>d DEF WorkerInv, Active, Stopping, NoRow
<1>3. Distinct'
  BY DEF Distinct
<1>4. (\A t \in Rows : RowInv(t))'
  <2> SUFFICES ASSUME NEW t \in Rows PROVE RowInv(t)'
    OBVIOUS
  <2>1. RowInv(t)
    OBVIOUS
  <2>2. \A w \in Workers : pc[w] \in Active \cup {"failed"} => pc'[w] = pc[w] /\ row'[w] = row[w]
    BY <1>c DEF Active, Stopping
  <2> QED BY <1>d, <2>1, <2>2 DEF RowInv
<1>5. TraceInv'
  BY DEF TraceInv
<1>6. MainInv'
  BY <1>e DEF MainInv
<1>7. StopInv'
  <2>1. gatherErr' = "cancelled" => signals > 0
    BY <1>b DEF StopInv
  <2>2. \A w \in Workers : pc'[w] \in Active \cup {"new"} => pc'[w] = pc[w] /\ w # x
    BY <1>b, <1>c DEF Active
  <2> QED BY <1>d, <2>1, <2>2 DEF StopInv
<1>8. HonestCompletion' /\ SummaryWritten'
  BY <1>e DEF MainInv, HonestCompletion, SummaryWritten
<1> QED BY <1>1, <1>2, <1>3, <1>4, <1>5, <1>6, <1>7, <1>8

\* SIGKILL only makes the signal sent stronger.
LEMMA KillKeeps == ASSUME IInv, NEW x \in Workers, Kill(x) PROVE IInv'
<1>0. /\ row[x] \in Rows /\ status[row[x]] \in {"failed", "cancelled"}
      /\ status[row[x]] = "cancelled" => gatherErr # "none" \/ signals > 0
  BY DEF Kill, IInv, WorkerInv, RowInv, Stopping
<1>1. CASE LeaveTry(x, status[row[x]]) /\ UNCHANGED sig
  BY <1>0, <1>1, LeaveTryQuits, QuitKeeps DEF Kill, Stopping, poolVars, childVars
<1>2. CASE /\ sig' = [sig EXCEPT ![row[x]] = "kill"] /\ pc' = [pc EXCEPT ![x] = "reap"]
           /\ UNCHANGED <<gatherErr, refused>>
  <2> USE BenchmarkAssumption, <1>0, <1>2
      DEF IInv, TypeOK, Rows, Traces, mainVars, Kill, poolVars
  <2>0. Trouble'
    BY DEF Trouble, Stopping
  <2>1. TypeOK'
    <3>1. pc' \in [Workers -> WorkerStates]
      BY DEF WorkerStates
    <3>2. sig' \in [Rows -> {"none", "term", "kill"}]
      BY DEF Rows
    <3> QED BY <3>1, <3>2 DEF TypeOK, Rows, Traces
  <2>2. (\A w \in Workers : WorkerInv(w))'
    BY DEF WorkerInv, Active, Stopping, NoRow
  <2>3. Distinct'
    BY DEF Distinct
  <2>4. (\A t \in Rows : RowInv(t))'
    <3> SUFFICES ASSUME NEW t \in Rows PROVE RowInv(t)'
      OBVIOUS
    <3>1. RowInv(t) /\ leader' = leader /\ status' = status
      OBVIOUS
    <3>2. \A w \in Workers : pc[w] \in Active \cup {"failed"} => pc'[w] = pc[w] /\ row'[w] = row[w]
      BY DEF Active
    <3>3. sig[t] # "none" => sig'[t] # "none"
      OBVIOUS
    <3> QED BY <2>0, <3>1, <3>2, <3>3 DEF RowInv, ExitCodes
  <2>5. TraceInv'
    BY DEF TraceInv
  <2>6. MainInv'
    BY DEF MainInv, WorkerEnded, Live
  <2>7. StopInv'
    BY <2>0 DEF StopInv, Active
  <2>8. HonestCompletion' /\ SummaryWritten'
    BY DEF HonestCompletion, SummaryWritten
  <2> QED BY <2>1, <2>2, <2>3, <2>4, <2>5, <2>6, <2>7, <2>8
<1> QED BY <1>1, <1>2 DEF Kill

\* The awaited child is dead.
LEMMA ReapKeeps == ASSUME IInv, NEW x \in Workers, Reap(x) PROVE IInv'
<1>1. /\ row[x] \in Rows /\ status[row[x]] \in {"failed", "cancelled"}
      /\ status[row[x]] = "cancelled" => gatherErr # "none" \/ signals > 0
  BY DEF Reap, IInv, WorkerInv, RowInv, Stopping
<1> QED BY <1>1, LeaveTryQuits, QuitKeeps DEF Reap, Stopping

\* A worker whose spawn was cancelled ends with that cancellation.
LEMMA SpawnKilledKeeps == ASSUME IInv, NEW x \in Workers, SpawnKilled(x) PROVE IInv'
<1>1. gatherErr # "none" \/ signals > 0
  BY DEF SpawnKilled, IInv, WorkerInv, RowInv, Stopping
<1> QED BY <1>1, LeaveTryQuits, QuitKeeps DEF SpawnKilled, Stopping

\* A cancelled worker leaves its row cancelled and its group signalled, was
\* stopping it already, or never ran.
LEMMA CancelledKeeps == ASSUME IInv, NEW x \in Workers, Cancelled(x) PROVE IInv'
<1> USE BenchmarkAssumption
<1>a. /\ TypeOK /\ WorkerInv(x) /\ StopInv /\ x \in cancelReq /\ cancelReq' = cancelReq \ {x}
      /\ gatherErr # "none" \/ signals > 0
      /\ UNCHANGED <<mainVars, row, admitted, cycle, used, failed, leader, strays>>
  BY DEF Cancelled, IInv, StopInv
<1>1. CASE /\ pc[x] \in Stopping /\ LeaveTry(x, "cancelled")
           /\ UNCHANGED <<status, sig>>
  BY <1>a, <1>1, LeaveTryQuits, QuitKeeps DEF poolVars, childVars
<1>2. CASE /\ pc[x] = "new" /\ Raise(x, "cancelled")
           /\ UNCHANGED <<status, sig, refused>>
  <2> USE <1>a, <1>2 DEF IInv, TypeOK, mainVars, Raise
  <2>0. /\ gatherErr' # "none" /\ Trouble' /\ (gatherErr' = "cancelled" => signals > 0)
        /\ \A w \in Workers : w # x => pc'[w] = pc[w]
    BY DEF Trouble, StopInv
  <2>1. TypeOK'
    <3>1. pc' \in [Workers -> WorkerStates]
      BY DEF WorkerStates
    <3> QED BY <3>1, <2>0 DEF TypeOK
  <2>2. (\A w \in Workers : WorkerInv(w))'
    BY <2>0 DEF WorkerInv, Active, Stopping, NoRow
  <2>3. Distinct'
    BY DEF Distinct
  <2>4. (\A t \in Rows : RowInv(t))'
    BY <2>0 DEF RowInv, Active
  <2>5. TraceInv'
    BY DEF TraceInv
  <2>e. mpc \in {"gather", "drain"}
    BY DEF MainInv, WorkerEnded
  <2>6. MainInv'
    BY <2>e DEF MainInv
  <2>7. StopInv'
    BY <2>0 DEF StopInv, Active
  <2>8. HonestCompletion' /\ SummaryWritten'
    BY <2>e DEF MainInv, HonestCompletion, SummaryWritten
  <2> QED BY <2>1, <2>2, <2>3, <2>4, <2>5, <2>6, <2>7, <2>8
<1>3. CASE /\ pc[x] \in Active /\ status' = [status EXCEPT ![row[x]] = "cancelled"]
           /\ \/ /\ pc' = [pc EXCEPT ![x] = "spawnKill"]
                 /\ sig' = [sig EXCEPT ![row[x]] = "kill"]
                 /\ UNCHANGED <<gatherErr, refused>>
              \/ pc[x] = "wait" /\ StopProcess(x, "cancelled")
  <2> USE <1>a, <1>3 DEF IInv, Rows, mainVars
  <2>a. row[x] \in Rows /\ status[row[x]] = "running"
    BY DEF WorkerInv
  <2>b. mpc \in {"gather", "drain"}
    BY DEF MainInv, WorkerEnded, Active
  <2>c. \/ /\ \E s \in {"term", "kill"} : sig' = [sig EXCEPT ![row[x]] = s]
           /\ \E s \in {"term", "spawnKill"} : pc' = [pc EXCEPT ![x] = s]
           /\ gatherErr' = gatherErr /\ refused' = refused
        \/ /\ sig' = sig /\ leader[row[x]] # "up"
           /\ \E h \in {"failed", "cancelled"} :
                /\ pc' = [pc EXCEPT ![x] = h]
                /\ gatherErr' = IF gatherErr = "none" THEN h ELSE gatherErr
           /\ refused' \in {refused, refused \cup {x}}
    <3>1. CASE pc' = [pc EXCEPT ![x] = "spawnKill"] /\ sig' = [sig EXCEPT ![row[x]] = "kill"]
               /\ UNCHANGED <<gatherErr, refused>>
      BY <3>1
    <3>2. CASE StopProcess(x, "cancelled") /\ GroupAlive(row[x])
      BY <3>2 DEF StopProcess
    <3>3. CASE StopProcess(x, "cancelled") /\ ~GroupAlive(row[x])
      BY <3>3, LeaveTryQuits DEF StopProcess, GroupAlive, Quits
    <3> QED BY <3>1, <3>2, <3>3
  <2>d. /\ pc'[x] \in Stopping \cup {"failed", "cancelled"}
        /\ pc'[x] \in Stopping => pc'[x] # "reap" /\ gatherErr' = gatherErr
        /\ pc'[x] \in {"failed", "cancelled"} => gatherErr' # "none"
        /\ gatherErr # "none" => gatherErr' # "none"
        /\ gatherErr' = "cancelled" => signals > 0
        /\ refused' \in {refused, refused \cup {x}}
    <3>1. \/ /\ pc'[x] \in {"term", "spawnKill"} /\ gatherErr' = gatherErr
             /\ refused' = refused
          \/ /\ pc'[x] \in {"failed", "cancelled"}
             /\ gatherErr' = IF gatherErr = "none" THEN pc'[x] ELSE gatherErr
             /\ refused' \in {refused, refused \cup {x}}
      BY <2>c DEF TypeOK
    <3> QED BY <3>1 DEF StopInv, Stopping
  <2>e. \A v \in Workers : v # x => pc'[v] = pc[v] /\ (row[v] # 0 => row[v] # row[x])
    BY <2>a, <2>c DEF TypeOK, Distinct
  <2>f. status'[row[x]] = "cancelled" /\ \A t \in Rows : t # row[x] => status'[t] = status[t]
    BY <2>a DEF TypeOK
  <2>g. Trouble'
    BY <2>d DEF Trouble
  <2>1. TypeOK'
    <3>1. pc' \in [Workers -> WorkerStates]
      BY <2>c DEF TypeOK, WorkerStates
    <3>2. sig' \in [Rows -> {"none", "term", "kill"}]
      BY <2>c DEF TypeOK
    <3>3. status' \in [Rows -> Statuses]
      BY DEF Statuses, TypeOK
    <3>4. gatherErr' \in {"none", "failed", "cancelled"}
      BY <2>c DEF TypeOK
    <3> QED BY <2>d, <3>1, <3>2, <3>3, <3>4 DEF TypeOK, Statuses
  <2>2. (\A w \in Workers : WorkerInv(w))'
    <3> SUFFICES ASSUME NEW v \in Workers PROVE WorkerInv(v)'
      OBVIOUS
    <3>1. CASE v = x
      BY <3>1, <2>a, <2>d, <2>f DEF WorkerInv, Active, Stopping
    <3>2. CASE v # x
      <4>1. WorkerInv(v) /\ pc'[v] = pc[v] /\ row'[v] = row[v]
        BY <3>2, <2>e
      <4>2. row[v] \in Rows => status'[row[v]] = status[row[v]]
        BY <3>2, <2>e, <2>f
      <4> QED BY <2>d, <4>1, <4>2 DEF WorkerInv, Active, Stopping, NoRow
    <3> QED BY <3>1, <3>2
  <2>3. Distinct'
    BY DEF Distinct
  <2>4. (\A t \in Rows : RowInv(t))'
    <3> SUFFICES ASSUME NEW t \in Rows PROVE RowInv(t)'
      OBVIOUS
    <3>0. RowInv(t) /\ leader' = leader /\ admitted' = admitted /\ signals' = signals
      OBVIOUS
    <3>1. CASE t = row[x]
      <4>1. t <= admitted
        BY <3>1 DEF WorkerInv
      <4>2. leader[t] = "up" => sig'[t] # "none"
        BY <3>1, <2>a, <2>c DEF TypeOK
      <4>3. ~(t > admitted)
        BY <4>1, <3>1 DEF TypeOK
      <4>4. gatherErr' # "none" \/ signals > 0
        BY <2>d
      <4> QED BY <3>0, <3>1, <4>2, <4>3, <4>4, <2>f, <2>g DEF RowInv
    <3>2. CASE t # row[x]
      <4>1. status'[t] = status[t] /\ sig'[t] = sig[t]
        BY <3>2, <2>a, <2>c, <2>f DEF TypeOK
      <4>2. \A w \in Workers : row[w] = t => pc'[w] = pc[w] /\ row'[w] = t
        BY <3>2, <2>e
      <4> QED BY <3>0, <4>1, <4>2, <2>d, <2>g DEF RowInv
    <3> QED BY <3>1, <3>2
  <2>5. TraceInv'
    BY DEF TraceInv
  <2>6. MainInv'
    BY <2>b DEF MainInv
  <2>7. StopInv'
    <3>1. \A w \in Workers : pc'[w] \in Active \cup {"new"} => pc'[w] = pc[w] /\ w # x
      BY <2>d, <2>e DEF Active, Stopping
    <3> QED BY <3>1, <2>d, <2>g DEF StopInv
  <2>8. HonestCompletion' /\ SummaryWritten'
    BY <2>b DEF MainInv, HonestCompletion, SummaryWritten
  <2> QED BY <2>1, <2>2, <2>3, <2>4, <2>5, <2>6, <2>7, <2>8
<1> QED BY <1>1, <1>2, <1>3 DEF Cancelled, Active, Stopping

\* A child that exits was up, so its row is running or was signalled.
LEMMA ChildExitsKeeps == ASSUME IInv, NEW r \in Rows, ChildExits(r) PROVE IInv'
<1> USE BenchmarkAssumption DEF IInv, TypeOK, Rows, Traces, mainVars,
      ChildExits, childOnly, poolVars
<1>1. TypeOK'
  <2>1. leader' \in [Rows -> ExitCodes \cup {"none", "up"}]
    BY DEF ExitCodes
  <2>2. strays' = strays \/ strays' = strays \cup {r}
    BY Zenon
  <2> QED BY <2>1, <2>2 DEF TypeOK, Rows
<1>2. (\A w \in Workers : WorkerInv(w))'
  BY DEF WorkerInv, Active, Stopping, NoRow
<1>3. Distinct'
  BY DEF Distinct
<1>4. (\A t \in Rows : RowInv(t))'
  BY DEF RowInv, Trouble, Active, Stopping, ExitCodes
<1>5. TraceInv'
  BY DEF TraceInv
<1>6. MainInv'
  BY DEF MainInv, WorkerEnded, Live
<1>7. StopInv'
  BY DEF StopInv, Trouble, Active, Stopping, Live
<1>8. HonestCompletion'
  BY DEF HonestCompletion
<1>9. SummaryWritten'
  BY DEF SummaryWritten
<1> QED BY <1>1, <1>2, <1>3, <1>4, <1>5, <1>6, <1>7, <1>8, <1>9

\* A child that a signal ends was signalled.
LEMMA SignalKillsKeeps == ASSUME IInv, NEW r \in Rows, SignalKills(r) PROVE IInv'
<1> USE BenchmarkAssumption DEF IInv, TypeOK, Rows, Traces, mainVars,
      SignalKills, childOnly, poolVars
<1>1. TypeOK'
  <2>1. leader' \in [Rows -> ExitCodes \cup {"none", "up"}]
    BY DEF ExitCodes
  <2>2. strays' \subseteq Rows
    BY DEF Rows
  <2> QED BY <2>1, <2>2 DEF TypeOK, Rows, Traces
<1>2. (\A w \in Workers : WorkerInv(w))'
  BY DEF WorkerInv, Active, Stopping, NoRow
<1>3. Distinct'
  BY DEF Distinct
<1>4. (\A t \in Rows : RowInv(t))'
  BY DEF RowInv, Trouble, Active, Stopping, ExitCodes
<1>5. TraceInv'
  BY DEF TraceInv
<1>6. MainInv'
  BY DEF MainInv, WorkerEnded, Live
<1>7. StopInv'
  BY DEF StopInv, Trouble, Active, Stopping, Live
<1>8. HonestCompletion'
  BY DEF HonestCompletion
<1>9. SummaryWritten'
  BY DEF SummaryWritten
<1> QED BY <1>1, <1>2, <1>3, <1>4, <1>5, <1>6, <1>7, <1>8, <1>9

\* The deadline concerns nobody but the admission.
LEMMA ExpireKeeps == ASSUME IInv, Expire PROVE IInv'
<1> USE BenchmarkAssumption DEF IInv, TypeOK, Rows, Traces, mainVars, Expire,
      poolVars, childVars
<1>1. TypeOK'
  BY DEF TypeOK, MainStates, WorkerStates, ExitCodes, Args, Rows, Traces
<1>2. (\A w \in Workers : WorkerInv(w))'
  BY DEF WorkerInv, Active, Stopping, NoRow
<1>3. Distinct'
  BY DEF Distinct
<1>4. (\A t \in Rows : RowInv(t))'
  BY DEF RowInv, Trouble, Active, Stopping, ExitCodes
<1>5. TraceInv'
  BY DEF TraceInv
<1>6. MainInv'
  BY DEF MainInv, WorkerEnded, Live
<1>7. StopInv'
  BY DEF StopInv, Trouble, Active, Stopping, Live
<1>8. HonestCompletion'
  BY DEF HonestCompletion
<1>9. SummaryWritten'
  BY DEF SummaryWritten
<1> QED BY <1>1, <1>2, <1>3, <1>4, <1>5, <1>6, <1>7, <1>8, <1>9

\* No worker has begun when the sampler is ready, or when it fails.
LEMMA SamplerReadyKeeps == ASSUME IInv, SamplerReady PROVE IInv'
<1> USE BenchmarkAssumption DEF IInv, TypeOK, Rows, Traces, mainVars,
      SamplerReady, GoTo, quiet, poolVars, childVars, Live, WorkerEnded
<1>1. TypeOK'
  BY DEF TypeOK, MainStates, WorkerStates, ExitCodes, Args, Rows, Traces
<1>2. (\A w \in Workers : WorkerInv(w))'
  BY DEF WorkerInv, Active, Stopping, NoRow
<1>3. Distinct'
  BY DEF Distinct
<1>4. (\A t \in Rows : RowInv(t))'
  BY DEF RowInv, Trouble, Active, Stopping, ExitCodes
<1>5. TraceInv'
  BY DEF TraceInv
<1>6. MainInv'
  BY DEF MainInv, WorkerEnded, Live
<1>7. StopInv'
  BY DEF StopInv, Trouble, MainInv, Active, Stopping
<1>8. HonestCompletion'
  BY DEF HonestCompletion
<1>9. SummaryWritten'
  BY DEF SummaryWritten, MainInv
<1> QED BY <1>1, <1>2, <1>3, <1>4, <1>5, <1>6, <1>7, <1>8, <1>9

\* No worker has begun when the common start is read.
LEMMA StartPublishedKeeps == ASSUME IInv, StartPublished PROVE IInv'
<1> USE BenchmarkAssumption DEF IInv, TypeOK, Rows, Traces, mainVars,
      StartPublished, GoTo, quiet, poolVars, childVars, Live, WorkerEnded
<1>1. TypeOK'
  BY DEF TypeOK, MainStates, WorkerStates, ExitCodes, Args, Rows, Traces
<1>2. (\A w \in Workers : WorkerInv(w))'
  BY DEF WorkerInv, Active, Stopping, NoRow
<1>3. Distinct'
  BY DEF Distinct
<1>4. (\A t \in Rows : RowInv(t))'
  BY DEF RowInv, Trouble, Active, Stopping, ExitCodes
<1>5. TraceInv'
  BY DEF TraceInv
<1>6. MainInv'
  BY DEF MainInv, WorkerEnded, Live
<1>7. StopInv'
  BY DEF StopInv, Trouble, MainInv, Active, Stopping
<1>8. HonestCompletion'
  BY DEF HonestCompletion
<1>9. SummaryWritten'
  BY DEF SummaryWritten, MainInv
<1> QED BY <1>1, <1>2, <1>3, <1>4, <1>5, <1>6, <1>7, <1>8, <1>9

\* Every worker that can still admit a row gets a cancellation.
LEMMA RunFailsKeeps == ASSUME IInv, RunFails PROVE IInv'
<1> USE BenchmarkAssumption DEF IInv, TypeOK, Rows, Traces, mainVars, RunFails,
      GoTo, quiet, poolVars, childVars, Live, WorkerEnded
<1>1. TypeOK'
  BY DEF TypeOK, MainStates, WorkerStates, ExitCodes, Args, Rows, Traces
<1>2. (\A w \in Workers : WorkerInv(w))'
  BY DEF WorkerInv, Active, Stopping, NoRow
<1>3. Distinct'
  BY DEF Distinct
<1>4. (\A t \in Rows : RowInv(t))'
  BY DEF RowInv, Trouble, Active, Stopping, ExitCodes
<1>5. TraceInv'
  BY DEF TraceInv
<1>6. MainInv'
  BY DEF MainInv, StopInv, WorkerEnded, Live
<1>7. StopInv'
  BY DEF StopInv, Trouble, Active, Stopping, Live
<1>8. HonestCompletion'
  BY DEF HonestCompletion
<1>9. SummaryWritten'
  BY DEF SummaryWritten
<1> QED BY <1>1, <1>2, <1>3, <1>4, <1>5, <1>6, <1>7, <1>8, <1>9

\* Nobody is at work when the drained run goes on.
LEMMA DrainedKeeps == ASSUME IInv, Drained PROVE IInv'
<1> USE BenchmarkAssumption DEF IInv, TypeOK, Rows, Traces, mainVars, Drained,
      GoTo, quiet, poolVars, childVars, Live, WorkerEnded
<1>1. TypeOK'
  BY DEF TypeOK, MainStates, WorkerStates, ExitCodes, Args, Rows, Traces
<1>2. (\A w \in Workers : WorkerInv(w))'
  BY DEF WorkerInv, Active, Stopping, NoRow
<1>3. Distinct'
  BY DEF Distinct
<1>4. (\A t \in Rows : RowInv(t))'
  BY DEF RowInv, Trouble, Active, Stopping, ExitCodes
<1>5. TraceInv'
  BY DEF TraceInv
<1>6. MainInv'
  BY DEF MainInv, WorkerEnded, Live
<1>7. StopInv'
  BY DEF StopInv, Trouble, Active, Stopping, Live
<1>8. HonestCompletion'
  BY DEF HonestCompletion, MainInv
<1>9. SummaryWritten'
  BY DEF SummaryWritten
<1> QED BY <1>1, <1>2, <1>3, <1>4, <1>5, <1>6, <1>7, <1>8, <1>9

\* gather() without an exception: every worker found no row, and nothing failed.
LEMMA RunCompletesKeeps == ASSUME IInv, RunCompletes PROVE IInv'
<1> USE BenchmarkAssumption DEF IInv, TypeOK, Rows, Traces, mainVars,
      RunCompletes, GoTo, quiet, poolVars, childVars, Live, WorkerEnded
<1>1. TypeOK'
  BY DEF TypeOK, MainStates, WorkerStates, ExitCodes, Args, Rows, Traces
<1>2. (\A w \in Workers : WorkerInv(w))'
  BY DEF WorkerInv, Active, Stopping, NoRow
<1>3. Distinct'
  BY DEF Distinct
<1>4. (\A t \in Rows : RowInv(t))'
  BY DEF RowInv, Trouble, Active, Stopping, ExitCodes
<1>5. TraceInv'
  BY DEF TraceInv
<1>6. MainInv'
  BY DEF MainInv, WorkerEnded, Live
<1>7. StopInv'
  BY DEF StopInv, Trouble, Active, Stopping, Live
<1>8. HonestCompletion'
  <2>1. PICK w \in Workers : pc[w] = "done"
    BY DEF WorkerInv
  <2>2. NoRow /\ \A v \in Workers : pc[v] = "done"
    BY <2>1 DEF WorkerInv
  <2>3. ~Trouble
    BY <2>2 DEF Trouble, Stopping
  <2>4. \A t \in 1 .. admitted : status[t] \in {"completed", "failed"}
    <3> SUFFICES ASSUME NEW t \in 1 .. admitted PROVE status[t] \in {"completed", "failed"}
      OBVIOUS
    <3>1. t \in Rows /\ t <= admitted
      BY DEF Rows
    <3>2. RowInv(t) /\ status[t] \in {"pending", "running", "completed", "failed", "cancelled"}
      BY <3>1
    <3> QED BY <2>2, <2>3, <3>1, <3>2 DEF RowInv, Active
  <2>5. IF args.steady THEN expired ELSE admitted = NRows
    BY <2>2, <2>3 DEF NoRow, StopInv
  <2>6. \A t \in Rows : status[t] = "failed" => leader[t] = "http" /\ args.tolerate
    BY <2>3 DEF RowInv
  <2> QED BY <2>4, <2>5, <2>6 DEF HonestCompletion
<1>9. SummaryWritten'
  BY DEF SummaryWritten
<1> QED BY <1>1, <1>2, <1>3, <1>4, <1>5, <1>6, <1>7, <1>8, <1>9

\* Nobody is at work once the phase task is joined.
LEMMA PhaseJoinedKeeps == ASSUME IInv, PhaseJoined PROVE IInv'
<1> USE BenchmarkAssumption DEF IInv, TypeOK, Rows, Traces, mainVars,
      PhaseJoined, GoTo, quiet, poolVars, childVars, Live, WorkerEnded, Refuse, Summarize
<1>0. refused' \subseteq Workers \cup {Main} /\ (Main \in refused => Main \in refused')
  OBVIOUS
<1>1. TypeOK'
  BY <1>0 DEF MainStates
<1>2. (\A w \in Workers : WorkerInv(w))'
  BY DEF WorkerInv, Active, Stopping, NoRow
<1>3. Distinct'
  BY DEF Distinct
<1>4. (\A t \in Rows : RowInv(t))'
  BY DEF RowInv, Trouble, Active, Stopping, ExitCodes
<1>5. TraceInv'
  BY DEF TraceInv
<1>6. MainInv'
  BY DEF MainInv, WorkerEnded, Live
<1>7. StopInv'
  BY DEF StopInv, Trouble, Active, Stopping, Live
<1>8. HonestCompletion'
  BY DEF HonestCompletion
<1>9. SummaryWritten'
  BY <1>0 DEF SummaryWritten
<1> QED BY <1>1, <1>2, <1>3, <1>4, <1>5, <1>6, <1>7, <1>8, <1>9

\* The summary is written last.
LEMMA WriteSummaryKeeps == ASSUME IInv, WriteSummary PROVE IInv'
<1> USE BenchmarkAssumption DEF IInv, TypeOK, Rows, Traces, mainVars,
      WriteSummary, GoTo, quiet, poolVars, childVars, Live, WorkerEnded, Refuse, Summarize
<1>0. refused' \subseteq Workers \cup {Main} /\ (Main \in refused => Main \in refused')
  OBVIOUS
<1>1. TypeOK'
  BY <1>0 DEF MainStates
<1>2. (\A w \in Workers : WorkerInv(w))'
  BY DEF WorkerInv, Active, Stopping, NoRow
<1>3. Distinct'
  BY DEF Distinct
<1>4. (\A t \in Rows : RowInv(t))'
  BY DEF RowInv, Trouble, Active, Stopping, ExitCodes
<1>5. TraceInv'
  BY DEF TraceInv
<1>6. MainInv'
  BY DEF MainInv, WorkerEnded, Live
<1>7. StopInv'
  BY DEF StopInv, Trouble, Active, Stopping, Live
<1>8. HonestCompletion'
  BY DEF HonestCompletion
<1>9. SummaryWritten'
  BY <1>0 DEF SummaryWritten
<1> QED BY <1>1, <1>2, <1>3, <1>4, <1>5, <1>6, <1>7, <1>8, <1>9

\* A signal leaves a cancellation with every live worker, and takes the summary
\* away only from a run that was never started or already cancelled.
LEMMA SignalKeeps == ASSUME IInv, Signal PROVE IInv'
<1> USE BenchmarkAssumption DEF IInv, TypeOK, Rows, Traces, mainVars, Signal,
      GoTo, quiet, poolVars, childVars, Live, WorkerEnded, Refuse, Summarize
<1>1. TypeOK'
  <2>1. mpc' \in MainStates
    BY DEF MainStates
  <2>2. cancelReq' \subseteq Workers
    BY DEF Rows
  <2>3. gatherErr' \in {"none", "failed", "cancelled"}
    BY DEF Rows
  <2>4. summary' \in BOOLEAN
    BY DEF Rows
  <2>5. signals' \in 0 .. MaxSignals
    BY DEF Rows
  <2>6. refused' \subseteq Workers \cup {Main}
    OBVIOUS
  <2> QED BY <2>1, <2>2, <2>3, <2>4, <2>5, <2>6 DEF TypeOK, Rows, Traces
<1>2. (\A w \in Workers : WorkerInv(w))'
  BY DEF WorkerInv, Active, Stopping, NoRow
<1>3. Distinct'
  BY DEF Distinct
<1>4. (\A t \in Rows : RowInv(t))'
  BY DEF RowInv, Trouble, Active, Stopping, ExitCodes
<1>5. TraceInv'
  BY DEF TraceInv
<1>6. MainInv'
  BY DEF MainInv, WorkerEnded, Live
<1>7. StopInv'
  <2>1. signals' > 0
    OBVIOUS
  <2>2. failed' = failed /\ pc' = pc /\ (gatherErr # "none" => gatherErr' # "none")
    OBVIOUS
  <2>3. failed => Trouble'
    BY <2>2 DEF StopInv, Trouble
  <2>4. ASSUME mpc' = "drain" \/ (mpc' = "gather" /\ gatherErr' = "none"),
               NEW w \in Workers, pc[w] \in Active \cup {"new"}
        PROVE  w \in cancelReq'
    <3>1. w \in Live /\ mpc \in {"gather", "drain"}
      BY <2>4 DEF Active
    <3> QED BY <2>2, <2>4, <3>1
  <2> QED BY <2>1, <2>2, <2>3, <2>4 DEF StopInv
<1>8. HonestCompletion'
  BY DEF HonestCompletion
<1>9. SummaryWritten'
  BY DEF SummaryWritten, MainInv
<1> QED BY <1>1, <1>2, <1>3, <1>4, <1>5, <1>6, <1>7, <1>8, <1>9

\* Every step keeps the invariant.
LEMMA StepInv == IInv /\ [Next]_vars => IInv'
<1> SUFFICES ASSUME IInv, [Next]_vars PROVE IInv'
  OBVIOUS
<1>1. ASSUME NEW w \in Workers, WorkerStep(w) PROVE IInv'
  BY <1>1, StartKeeps, SpawnedKeeps, ReapedKeeps, KillKeeps, ReapKeeps,
     CancelledKeeps, SpawnKilledKeeps DEF WorkerStep
<1>2. ASSUME NEW t \in Rows, ChildExits(t) \/ SignalKills(t) PROVE IInv'
  BY <1>2, ChildExitsKeeps, SignalKillsKeeps
<1>3. CASE Expire
  BY <1>3, ExpireKeeps
<1>4. CASE MainStep
  BY <1>4, SamplerReadyKeeps, StartPublishedKeeps, RunFailsKeeps, DrainedKeeps,
     RunCompletesKeeps, PhaseJoinedKeeps, WriteSummaryKeeps DEF MainStep
<1>5. CASE Signal
  BY <1>5, SignalKeeps
<1>6. CASE UNCHANGED vars
  BY <1>6 DEF vars, poolVars, childVars, mainVars, IInv, TypeOK, WorkerInv, NoRow,
              Distinct, RowInv, Trouble, TraceInv, MainInv, WorkerEnded, StopInv,
              HonestCompletion, SummaryWritten
<1> QED BY <1>1, <1>2, <1>3, <1>4, <1>5, <1>6 DEF Next

\* The inductive invariant holds in every reachable state.
THEOREM Invariance == Spec => []IInv
BY InitInv, StepInv, PTL DEF Spec

-----------------------------------------------------------------------------
\* No two workers have the same row.
LEMMA Owned == IInv => RowOwnership
<1> SUFFICES ASSUME IInv, NEW t \in Rows
             PROVE  Cardinality({w \in Workers : row[w] = t}) <= 1
  BY DEF RowOwnership, IInv, RowInv, WorkerInv, Active
<1> DEFINE owners == {w \in Workers : row[w] = t}
<1>1. CASE owners = {}
  BY <1>1, FS_EmptySet
<1>2. CASE owners # {}
  <2>1. PICK w \in Workers : row[w] = t
    BY <1>2
  <2>2. t # 0
    BY DEF Rows
  <2>3. owners = {w}
    BY <2>1, <2>2 DEF IInv, Distinct
  <2>4. Cardinality(owners) = 1
    BY <2>3, FS_Singleton
  <2> QED BY <2>4
<1> QED BY <1>1, <1>2

\* When the summary is there nobody is at work on a row.
LEMMA Truthful == IInv => RowsTellTheTruth
<1> SUFFICES ASSUME IInv PROVE RowsTellTheTruth
  OBVIOUS
<1>1. ASSUME NEW t \in Rows
      PROVE  /\ status[t] = "completed" => leader[t] = "ok"
             /\ status[t] = "failed" => leader[t] \in ExitCodes \ {"ok"}
             /\ status[t] = "pending" => leader[t] = "none"
  BY DEF IInv, RowInv
<1>2. ASSUME summary, NEW t \in Rows, status[t] = "running" PROVE leader[t] = "none"
  <2>1. \A w \in Workers : pc[w] \notin Active
    BY <1>2 DEF IInv, MainInv, WorkerEnded, Active
  <2> QED BY <1>2, <2>1 DEF IInv, RowInv
<1> QED BY <1>1, <1>2 DEF RowsTellTheTruth

\* A pass over the traces is at most one row ahead on a trace.
LEMMA Balanced == IInv => BalancedLoad
BY DEF IInv, TraceInv, BalancedLoad, TypeOK

\* Types, one owner for every running row, statuses that tell how the children
\* ended, and an even use of the traces.
THEOREM RowsAreSound == Spec => []RowsSound
<1>1. IInv => RowsSound
  BY Owned, Truthful, Balanced DEF RowsSound, IInv
<1> QED BY Invariance, <1>1, PTL

\* A run that says it completed has replayed its list, or lasted its window,
\* with no failure but the tolerated ones.
THEOREM CompletionIsHonest == Spec => []HonestCompletion
<1>1. IInv => HonestCompletion
  BY DEF IInv
<1> QED BY Invariance, <1>1, PTL

\* Every child still up has been signalled once the workers are no longer
\* awaited, however many signals the run received.
THEOREM AllSignalled == Spec => []ChildrenSignalled
<1>1. ASSUME IInv PROVE ChildrenSignalled
  <2> SUFFICES ASSUME mpc \in {"final", "sampler", "ended"}, NEW t \in Rows, leader[t] = "up"
               PROVE  sig[t] # "none"
    BY DEF ChildrenSignalled
  <2>1. \A w \in Workers : pc[w] \notin Active
    BY <1>1 DEF IInv, MainInv, WorkerEnded, Active
  <2> QED BY <1>1, <2>1 DEF IInv, RowInv
<1> QED BY Invariance, <1>1, PTL

\* Only a second signal can take away the summary of a run that failed or was
\* cancelled.
THEOREM SummaryIsWritten == Spec => []SummaryWritten
<1>1. IInv => SummaryWritten
  BY DEF IInv
<1> QED BY Invariance, <1>1, PTL

\* No row is admitted after a failure, the deadline, the cancellation of the
\* workers or a signal that found none of them ended with an error: next_row
\* tests the first two with no await before the admission, and the cancellation
\* is pending at every worker that could take a row.
THEOREM AdmissionStops == Spec => NoAdmissionAfterStop
<1> DEFINE Stop == failed \/ expired \/ mpc = "drain" \/ (signals > 0 /\ gatherErr = "none")
<1>1. ASSUME IInv, Next, Stop PROVE admitted' = admitted
  <2>1. ASSUME NEW x \in Workers, HasRow, x \notin cancelReq,
               pc[x] = "wait" \/ (pc[x] = "new" /\ mpc = "gather")
        PROVE  FALSE
    <3>1. ~failed /\ ~expired
      BY <1>1, <2>1 DEF IInv, HasRow, NoRow, MainInv
    <3>2. mpc \in {"gather", "drain"}
      BY <1>1, <2>1 DEF IInv, MainInv, WorkerEnded
    <3> QED BY <1>1, <2>1, <3>1, <3>2 DEF IInv, StopInv, Active
  <2>2. ASSUME NEW x \in Workers, NEW st, GoOn(x, st), x \notin cancelReq,
               pc[x] = "wait" \/ (pc[x] = "new" /\ mpc = "gather")
        PROVE  admitted' = admitted
    BY <2>1, <2>2 DEF GoOn, Advance
  <2>3. ASSUME NEW w \in Workers, WorkerStep(w) PROVE admitted' = admitted
    <3>1. CASE Start(w)
      BY <2>2, <3>1 DEF Start, GoOn
    <3>2. CASE Reaped(w)
      <4>1. pc[w] = "wait" /\ w \notin cancelReq
        BY <3>2 DEF Reaped
      <4>2. ASSUME NEW st, GoOn(w, st) PROVE admitted' = admitted
        BY <2>2, <4>1, <4>2
      <4> QED BY <3>2, <4>2 DEF Reaped
    <3> QED BY <2>3, <3>1, <3>2 DEF WorkerStep, Spawned, Kill, Reap, Cancelled,
                                    SpawnKilled, poolVars
  <2>4. ASSUME NEW t \in Rows, ChildExits(t) \/ SignalKills(t) PROVE admitted' = admitted
    BY <2>4 DEF ChildExits, SignalKills, childOnly, poolVars
  <2>5. CASE Expire \/ MainStep \/ Signal
    BY <2>5 DEF Expire, MainStep, SamplerReady, StartPublished, RunFails, Drained,
                RunCompletes, PhaseJoined, WriteSummary, Signal, GoTo, poolVars
  <2> QED BY <1>1, <2>3, <2>4, <2>5 DEF Next
<1>2. IInv /\ [Next]_vars => [Stop => admitted' = admitted]_vars
  BY <1>1
<1> QED BY Invariance, <1>2, PTL DEF Spec, NoAdmissionAfterStop

=============================================================================
