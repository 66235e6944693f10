-------------------------- MODULE Components_proof --------------------------
(***************************************************************************)
(* Safety of the components that run beside each other, for every value of *)
(* the constants: the routing of calls, the sweep over points, the packed  *)
(* experiments, the trace collectors, the tool executors on a node and the *)
(* scheduler's diagnostics.                                                *)
(***************************************************************************)
EXTENDS Components, FiniteSetTheorems, Foundations, TLAPS

-----------------------------------------------------------------------------
(* Routing *)

\* The router's handler of a call: it has sent the call on or it has not, and
\* the client's connection is open as long as the handler works.
HopInv(c) ==
  /\ setup = "direct" => hop[c] = "none"
  /\ setup # "direct" /\ hop[c] \in {"none", "posting"} => backend[c] = "none"
  /\ setup # "direct" /\ hop[c] # "ended" => seen[c] = "open"
  /\ hop[c] = "upstream" => backend[c] # "none"
  /\ client[c] = "new" => hop[c] = "none" /\ backend[c] = "none"
  /\ served[c] = dest[c]

\* What a replica has answered, by the life of the request in it.
DataInv(c) ==
  /\ backend[c] \in {"none", "reading"} => data[c] = "none"
  /\ backend[c] = "running" => data[c] \in {"none", "some"}
  /\ backend[c] = "sent" => data[c] \in {"all", "error"}
  /\ data[c] = "all" => backend[c] \in {"sent", "ended"}

\* The handler that writes the row of a call has ended, and has written one.
Logged(c) ==
  \/ setup = "official" /\ MiddlewareDone(c)
  \/ Proxied /\ hop[c] = "ended" /\ backend[c] # "none"
NoRow(c)  == rows[c] = <<>>
OneRow(c) == \E s \in {"completed", "http_error", "failed"} :
               rows[c] = <<s>> /\ (s = "completed" => data[c] = "all")
RowInv(c) == IF Logged(c) THEN OneRow(c) ELSE NoRow(c)

\* A result stays a result.
ResultInv(c) == client[c] = "ok" => data[c] = "all" /\ log[c] = "target" /\ seen[c] = "eof"

CallInv(c) == HopInv(c) /\ DataInv(c) /\ RowInv(c) /\ ResultInv(c)

\* The report is made when nothing moves any more.
ReportInv ==
  /\ report # "none" => Quiet
  /\ report = "valid" => TasksCompleted

RoutingInv == TypeOK /\ (\A c \in Calls : CallInv(c)) /\ ReportInv

\* A step that is about the call x.
RoutingMoves(x) ==
  \/ Post(x) \/ DirectEnds(x) \/ ClientEnds(x) \/ ClientCancelled(x)
  \/ Refuse(x) \/ Route(x) \/ HopCompletes(x) \/ HopFails(x)
  \/ Read(x) \/ Stream(x) \/ Generate(x) \/ BackendReturns(x) \/ BackendFails(x)

LEMMA RoutingStarts == ComponentsInit => RoutingInv
<1> SUFFICES ASSUME Init PROVE RoutingInv
  BY DEF ComponentsInit
<1> USE RoutedCallsConstants DEF Init
<1>1. TypeOK
  BY DEF TypeOK, Setups
<1>2. ASSUME NEW c \in Calls PROVE CallInv(c)
  <2>1. HopInv(c) /\ DataInv(c) /\ ResultInv(c)
    BY <1>2 DEF HopInv, DataInv, ResultInv
  <2>2. rows[c] = <<>> /\ hop[c] = "none" /\ backend[c] = "none" /\ setup \in Setups
    BY <1>2
  <2>3. RowInv(c)
    BY <2>2 DEF RowInv, Logged, NoRow, MiddlewareDone, Proxied
  <2> QED BY <2>1, <2>3 DEF CallInv
<1>3. ReportInv
  BY DEF ReportInv
<1> QED BY <1>1, <1>2, <1>3 DEF RoutingInv

\* The first row of a call.
LEMMA FirstRow ==
  ASSUME NEW x \in Calls, TypeOK, NoRow(x), NEW s \in {"completed", "http_error", "failed"},
         AddRow(x, s)
  PROVE  rows' = [rows EXCEPT ![x] = <<s>>] /\ rows' \in [Calls -> Seq({"completed", "http_error", "failed"})]
<1>1. Append(rows[x], s) = <<s>>
  BY DEF NoRow
<1>2. <<s>> \in Seq({"completed", "http_error", "failed"})
  OBVIOUS
<1> QED BY <1>1, <1>2 DEF AddRow, TypeOK

\* What a step does to the rows of its own call: nothing, or the first row.
RowStep(x) ==
  \/ UNCHANGED rows
  \/ /\ NoRow(x)
     /\ \E s \in {"completed", "http_error", "failed"} :
          /\ rows' = [rows EXCEPT ![x] = <<s>>]
          /\ rows' \in [Calls -> Seq({"completed", "http_error", "failed"})]
          /\ s = "completed" => data[x] = "all"

LEMMA RowsStep == ASSUME RoutingInv, NEW x \in Calls, RoutingMoves(x) PROVE RowStep(x)
<1> USE DEF RoutingInv, CallInv, RowStep
<1>1. CASE HopCompletes(x) \/ HopFails(x)
  <2>1. CASE Proxied
    <3>1. NoRow(x)
      BY <1>1, <2>1 DEF HopCompletes, HopFails, RowInv, Logged, Proxied
    <3>2. PICK s \in {"completed", "http_error", "failed"} :
            AddRow(x, s) /\ (s = "completed" => data[x] = "all")
      BY <1>1, <2>1 DEF HopCompletes, HopFails
    <3> QED BY <3>1, <3>2, FirstRow
  <2>2. CASE ~Proxied
    BY <1>1, <2>2 DEF HopCompletes, HopFails
  <2> QED BY <2>1, <2>2
<1>2. CASE BackendReturns(x) \/ BackendFails(x)
  <2>1. CASE setup = "official"
    <3>1. NoRow(x)
      BY <1>2, <2>1 DEF BackendReturns, BackendFails, RowInv, Logged, MiddlewareDone, Proxied
    <3>2. PICK s \in {"completed", "http_error", "failed"} :
            AddRow(x, s) /\ (s = "completed" => data[x] = "all")
      BY <1>2, <2>1 DEF BackendReturns, BackendFails, MiddlewareRow
    <3> QED BY <3>1, <3>2, FirstRow
  <2>2. CASE setup # "official"
    BY <1>2, <2>2 DEF BackendReturns, BackendFails, MiddlewareRow
  <2> QED BY <2>1, <2>2
<1>3. CASE UNCHANGED rows
  BY <1>3
<1> QED
  BY <1>1, <1>2, <1>3 DEF RoutingMoves, Post, DirectEnds, ClientEnds, ClientCancelled, Refuse, Route,
     Read, Stream, Generate

\* Every step keeps the types.
LEMMA RoutingTypeStep == ASSUME RoutingInv, [Next]_vars PROVE TypeOK'
<1> USE RoutedCallsConstants DEF RoutingInv, TypeOK, Set
<1>1. ASSUME NEW x \in Calls, RoutingMoves(x) PROVE TypeOK'
  <2>1. rows' \in [Calls -> Seq({"completed", "http_error", "failed"})]
    BY <1>1, RowsStep DEF RowStep
  <2>2. CASE Post(x)
    BY <2>1, <2>2 DEF Post
  <2>3. CASE DirectEnds(x) \/ ClientEnds(x) \/ ClientCancelled(x) \/ Refuse(x)
    BY <2>1, <2>3 DEF DirectEnds, ClientEnds, ClientCancelled, Refuse
  <2>4. CASE Route(x)
    <3>1. PICK r \in 0 .. Replicas - 1 : dest' = [dest EXCEPT ![x] = r] /\ served' = [served EXCEPT ![x] = r]
      <4>1. sequence % Replicas \in 0 .. Replicas - 1 /\ Home[x] \in 0 .. Replicas - 1
        OBVIOUS
      <4>2. setup \in {"sticky", "round_robin", "official"}
        BY <1>1, <2>4 DEF Route, CallInv, HopInv, Setups
      <4> QED BY <2>4, <4>1, <4>2 DEF Route
    <3> QED BY <2>1, <2>4, <3>1 DEF Route
  <2>5. CASE HopCompletes(x) \/ HopFails(x)
    BY <2>1, <2>5 DEF HopCompletes, HopFails
  <2>6. CASE Read(x)
    BY <2>1, <2>6 DEF Read
  <2>7. CASE Stream(x)
    BY <2>1, <2>7 DEF Stream
  <2>8. CASE Generate(x)
    <3>1. data' \in [Calls -> {"none", "some", "all", "error"}]
      <4>1. data' \in {[data EXCEPT ![x] = "all"], [data EXCEPT ![x] = "error"]}
        BY <2>8 DEF Generate
      <4> QED BY <4>1
    <3>2. log' \in [Calls -> {"none", "target", "other", "abort"}]
      BY <2>8 DEF Generate
    <3> QED BY <2>1, <2>8, <3>1, <3>2 DEF Generate
  <2>9. CASE BackendReturns(x) \/ BackendFails(x)
    BY <2>1, <2>9 DEF BackendReturns, BackendFails
  <2> QED BY <1>1, <2>2, <2>3, <2>4, <2>5, <2>6, <2>7, <2>8, <2>9 DEF RoutingMoves
<1>2. CASE SummarizeRun
  BY <1>2 DEF SummarizeRun
<1>3. CASE UNCHANGED vars
  BY <1>3 DEF vars
<1> QED BY <1>1, <1>2, <1>3 DEF Next, RoutingMoves

\* A step of x keeps where its call is, what was answered and what it returned.
LEMMA RoutingOwnStep ==
  ASSUME RoutingInv, NEW x \in Calls, RoutingMoves(x) PROVE (HopInv(x) /\ DataInv(x) /\ ResultInv(x))'
<1> USE DEF RoutingInv, TypeOK, CallInv, HopInv, DataInv, ResultInv, Set
<1>1. CASE Post(x)
  BY <1>1 DEF Post
<1>2. CASE DirectEnds(x) \/ ClientEnds(x) \/ ClientCancelled(x) \/ Refuse(x)
  BY <1>2 DEF DirectEnds, ClientEnds, ClientCancelled, Refuse
<1>3. CASE Route(x)
  BY <1>3 DEF Route
<1>4. CASE HopCompletes(x) \/ HopFails(x)
  BY <1>4 DEF HopCompletes, HopFails
<1>5. CASE Read(x)
  BY <1>5 DEF Read
<1>6. CASE Stream(x) \/ Generate(x)
  BY <1>6 DEF Stream, Generate
<1>7. CASE BackendReturns(x) \/ BackendFails(x)
  BY <1>7 DEF BackendReturns, BackendFails
<1> QED BY <1>1, <1>2, <1>3, <1>4, <1>5, <1>6, <1>7 DEF RoutingMoves

\* A step that writes no row of x ends no handler that writes one.
LEMMA SilentStep ==
  ASSUME RoutingInv, NEW x \in Calls, RoutingMoves(x), UNCHANGED rows PROVE Logged(x)' <=> Logged(x)
<1> USE DEF RoutingInv, TypeOK, CallInv, HopInv, DataInv, Logged, MiddlewareDone, Proxied, Set
<1>1. CASE Post(x)
  BY <1>1 DEF Post
<1>2. CASE DirectEnds(x) \/ ClientEnds(x) \/ ClientCancelled(x)
  BY <1>2 DEF DirectEnds, ClientEnds, ClientCancelled
<1>3. CASE Refuse(x)
  BY <1>3 DEF Refuse
<1>4. CASE Route(x)
  BY <1>4 DEF Route
<1>5. CASE HopCompletes(x) \/ HopFails(x)
  <2>1. CASE ~Proxied
    BY <1>5, <2>1 DEF HopCompletes, HopFails
  <2>2. CASE Proxied
    <3>1. Len(rows[x]) # Len(rows'[x])
      <4>1. PICK s \in {"completed", "http_error", "failed"} : AddRow(x, s)
        BY <1>5, <2>2 DEF HopCompletes, HopFails
      <4>2. rows[x] \in Seq({"completed", "http_error", "failed"}) /\ rows'[x] = Append(rows[x], s)
        BY <4>1 DEF AddRow
      <4> QED BY <4>2
    <3> QED BY <3>1
  <2> QED BY <2>1, <2>2
<1>6. CASE Read(x) \/ Stream(x)
  BY <1>6 DEF Read, Stream
<1>7. CASE Generate(x)
  BY <1>7 DEF Generate
<1>8. CASE BackendReturns(x) \/ BackendFails(x)
  <2>1. CASE setup # "official"
    BY <1>8, <2>1 DEF BackendReturns, BackendFails
  <2>2. CASE setup = "official"
    <3>1. Len(rows[x]) # Len(rows'[x])
      <4>1. PICK s \in {"completed", "http_error", "failed"} : AddRow(x, s)
        BY <1>8, <2>2 DEF BackendReturns, BackendFails, MiddlewareRow
      <4>2. rows[x] \in Seq({"completed", "http_error", "failed"}) /\ rows'[x] = Append(rows[x], s)
        BY <4>1 DEF AddRow
      <4> QED BY <4>2
    <3> QED BY <3>1
  <2> QED BY <2>1, <2>2
<1> QED BY <1>1, <1>2, <1>3, <1>4, <1>5, <1>6, <1>7, <1>8 DEF RoutingMoves

\* A step that writes a row of x ends the handler that writes it.
LEMMA WritingStep ==
  ASSUME RoutingInv, NEW x \in Calls, RoutingMoves(x), rows' # rows PROVE Logged(x)'
<1> USE DEF RoutingInv, TypeOK, CallInv, HopInv, DataInv, Logged, MiddlewareDone, Proxied, Set
<1>1. CASE HopCompletes(x) \/ HopFails(x)
  BY <1>1 DEF HopCompletes, HopFails
<1>2. CASE BackendReturns(x) \/ BackendFails(x)
  BY <1>2 DEF BackendReturns, BackendFails, MiddlewareRow
<1>3. CASE UNCHANGED rows
  BY <1>3
<1> QED
  BY <1>1, <1>2, <1>3 DEF RoutingMoves, Post, DirectEnds, ClientEnds, ClientCancelled, Refuse, Route,
     Read, Stream, Generate

\* A step of x keeps its rows what its handlers make of them.
LEMMA OwnRows == ASSUME RoutingInv, NEW x \in Calls, RoutingMoves(x) PROVE RowInv(x)'
<1>1. data[x] = "all" => data'[x] = "all"
  BY DEF RoutingInv, TypeOK, CallInv, DataInv, Set, RoutingMoves, Post, DirectEnds, ClientEnds, ClientCancelled,
     Refuse, Route, HopCompletes, HopFails, Read, Stream, Generate, BackendReturns, BackendFails
<1>2. CASE UNCHANGED rows
  BY <1>1, <1>2, SilentStep DEF RoutingInv, CallInv, RowInv, NoRow, OneRow
<1>3. CASE rows' # rows
  <2>1. PICK s \in {"completed", "http_error", "failed"} :
          /\ rows' = [rows EXCEPT ![x] = <<s>>]
          /\ s = "completed" => data[x] = "all"
    BY <1>3, RowsStep DEF RowStep
  <2>2. rows'[x] = <<s>>
    BY <2>1 DEF RoutingInv, TypeOK
  <2> QED BY <1>1, <1>3, <2>1, <2>2, WritingStep DEF RowInv, OneRow
<1> QED BY <1>2, <1>3

\* A step of x leaves every other call alone.
LEMMA RoutingOthersStep ==
  ASSUME RoutingInv, NEW x \in Calls, NEW c \in Calls, c # x, RoutingMoves(x) PROVE CallInv(c)'
<1>1. /\ setup' = setup /\ client'[c] = client[c] /\ seen'[c] = seen[c] /\ hop'[c] = hop[c]
      /\ dest'[c] = dest[c] /\ served'[c] = served[c] /\ backend'[c] = backend[c]
      /\ data'[c] = data[c] /\ log'[c] = log[c]
  BY DEF RoutingInv, TypeOK, Set, RoutingMoves, Post, DirectEnds, ClientEnds, ClientCancelled, Refuse, Route,
     HopCompletes, HopFails, Read, Stream, Generate, BackendReturns, BackendFails
<1>2. rows'[c] = rows[c]
  <2>1. CASE UNCHANGED rows
    BY <2>1
  <2>2. CASE rows' # rows
    <3>1. PICK s \in {"completed", "http_error", "failed"} : rows' = [rows EXCEPT ![x] = <<s>>]
      BY <2>2, RowsStep DEF RowStep
    <3> QED BY <3>1 DEF RoutingInv, TypeOK
  <2> QED BY <2>1, <2>2
<1>3. HopInv(c)' /\ DataInv(c)' /\ ResultInv(c)'
  BY <1>1 DEF RoutingInv, CallInv, HopInv, DataInv, ResultInv
<1>4. Logged(c)' <=> Logged(c)
  BY <1>1 DEF Logged, MiddlewareDone, Proxied
<1>5. RowInv(c)'
  BY <1>1, <1>2, <1>4 DEF RoutingInv, CallInv, RowInv, NoRow, OneRow
<1> QED BY <1>3, <1>5 DEF CallInv

\* Once nothing moves, nothing begins to move; a report changes nothing.
LEMMA ReportStep == ASSUME RoutingInv, [Next]_vars PROVE ReportInv'
<1>1. ASSUME NEW x \in Calls, RoutingMoves(x) PROVE ReportInv'
  <2>1. report = "none"
    BY <1>1 DEF RoutingInv, ReportInv, Quiet, RoutingMoves, Post, DirectEnds, ClientEnds, ClientCancelled,
       Refuse, Route, HopCompletes, HopFails, Read, Stream, Generate, BackendReturns, BackendFails
  <2>2. report' = report
    BY <1>1 DEF RoutingMoves, Post, DirectEnds, ClientEnds, ClientCancelled,
       Refuse, Route, HopCompletes, HopFails, Read, Stream, Generate, BackendReturns, BackendFails
  <2> QED BY <2>1, <2>2 DEF ReportInv
<1>2. CASE SummarizeRun
  BY <1>2 DEF SummarizeRun, ReportInv, Quiet, TasksCompleted
<1>3. CASE UNCHANGED vars
  BY <1>3 DEF vars, RoutingInv, ReportInv, Quiet, TasksCompleted
<1> QED BY <1>1, <1>2, <1>3 DEF Next, RoutingMoves

LEMMA RoutingStepInv == ASSUME RoutingInv, [Next]_vars PROVE RoutingInv'
<1>1. ASSUME NEW c \in Calls PROVE CallInv(c)'
  <2>1. ASSUME NEW x \in Calls, RoutingMoves(x) PROVE CallInv(c)'
    BY <1>1, <2>1, RoutingOwnStep, OwnRows, RoutingOthersStep DEF CallInv
  <2>2. CASE SummarizeRun \/ UNCHANGED vars
    BY <1>1, <2>2 DEF SummarizeRun, vars, RoutingInv, CallInv, HopInv, DataInv, RowInv, ResultInv, NoRow,
       OneRow, Logged, MiddlewareDone, Proxied
  <2> QED BY <2>1, <2>2 DEF Next, RoutingMoves
<1> QED BY <1>1, RoutingTypeStep, ReportStep DEF RoutingInv

\* The invariant holds in every reachable state (proxy.py, routing_envelope.py).
THEOREM RoutingInvariance == ComponentsSpec => []RoutingInv
<1>1. [ComponentsNext]_allVars => [Next]_vars
  BY DEF ComponentsNext, allVars, GatewayStep, SandboxStep, PackStep, GaiaStep, SweStep,
     RoutingStep, SweepStep, ImagesStep, DiagnosticsStep, rVars, vars
<1>2. RoutingInv /\ [ComponentsNext]_allVars => RoutingInv'
  BY <1>1, RoutingStepInv
<1> QED BY RoutingStarts, <1>2, PTL DEF ComponentsSpec

\* Type correctness of the calls and of the records they leave.
THEOREM RoutingTyped == ComponentsSpec => []TypeOK
<1>1. RoutingInv => TypeOK
  BY DEF RoutingInv
<1> QED BY RoutingInvariance, <1>1, PTL

\* Exactly one ledger row for every call that was counted, for any calls.
THEOREM OneRowEach == ComponentsSpec => []OneRowPerCall
<1>1. RoutingInv => OneRowPerCall
  <2> SUFFICES ASSUME RoutingInv, NEW c \in Calls
               PROVE Len(rows[c]) =
                       CASE setup = "direct"   -> 0
                         [] setup = "official" -> IF MiddlewareDone(c) THEN 1 ELSE 0
                         [] Proxied -> IF hop[c] = "ended" /\ backend[c] # "none" THEN 1 ELSE 0
    BY DEF OneRowPerCall
  <2>1. NoRow(c) => Len(rows[c]) = 0
    BY DEF NoRow
  <2>2. OneRow(c) => Len(rows[c]) = 1
    BY DEF OneRow
  <2> QED BY <2>1, <2>2 DEF RoutingInv, TypeOK, CallInv, RowInv, Logged, Setups, Proxied
<1> QED BY RoutingInvariance, <1>1, PTL

\* Results and completed rows are of whole answers, for any calls and replicas.
THEOREM ResultsAreWhole == ComponentsSpec => []CompletedIsWhole
<1>1. RoutingInv => CompletedIsWhole
  <2> SUFFICES ASSUME RoutingInv, NEW c \in Calls
               PROVE /\ client[c] = "ok" => data[c] = "all" /\ log[c] = "target" /\ seen[c] = "eof"
                     /\ rows[c] = <<"completed">> => data[c] = "all"
    BY DEF CompletedIsWhole
  <2>1. rows[c] = <<"completed">> /\ OneRow(c) => data[c] = "all"
    BY DEF OneRow
  <2>2. rows[c] = <<"completed">> => ~NoRow(c)
    BY DEF NoRow
  <2>3. NoRow(c) \/ OneRow(c)
    BY DEF RoutingInv, CallInv, RowInv
  <2> QED BY <2>1, <2>2, <2>3 DEF RoutingInv, CallInv, ResultInv
<1> QED BY RoutingInvariance, <1>1, PTL

\* A valid report is right about every call, for any calls and replicas.
THEOREM ValidMeansTrue == ComponentsSpec => []ValidReportIsTrue
<1>1. RoutingInv => ValidReportIsTrue
  <2> SUFFICES ASSUME RoutingInv, report = "valid", NEW c \in Calls, client[c] # "new"
               PROVE client[c] = "ok" /\ log[c] = "target" /\ served[c] = dest[c]
    BY DEF ValidReportIsTrue
  <2>1. client[c] = "ok"
    BY DEF RoutingInv, ReportInv, TasksCompleted
  <2> QED BY <2>1 DEF RoutingInv, CallInv, HopInv, ResultInv
<1> QED BY RoutingInvariance, <1>1, PTL

-----------------------------------------------------------------------------
(* Sweep *)

\* Points before the current one are validated, later ones were not touched; a
\* benchmark runs only while run() waits for it or cancels it; and run() gets to
\* a point's validation only without an error, after its service ended well.
Validated == W!Row(TRUE, TRUE)
Behind(p) == w_summary[p] = Validated /\ w_service[p] = "zero"
PointsBehind == \A p \in 1 .. Points : p < w_point => Behind(p)
PointsAhead ==
  \A p \in 1 .. Points :
    p > w_point \/ (w_at = "point" /\ p = w_point) => w_service[p] = "none"
SweepPlaces ==
  /\ w_at \in {"starting", "replay", "cancel", "leave", "closing", "validate"} => w_point <= Points
  /\ w_at \in {"leave", "closing", "validate"} /\ ~w_failed => w_replay # "running"
  /\ w_at = "validate" => ~w_failed /\ w_service[w_point] = "zero"
  /\ w_replay = "running" => w_at \in {"replay", "cancel", "killed"}
  /\ w_at \in {"returned", "raised"} => w_csv = w_summary
SweepInv == W!TypeOK /\ PointsBehind /\ PointsAhead /\ SweepPlaces

\* What is written into a summary is one, and a verdict without a fault is the
\* row that says so.
LEMMA RowsAreSummaries ==
  /\ \A v, c \in BOOLEAN : W!Row(v, c) \in W!Summaries
  /\ \A p, ok : W!Row(w_summary[p].valid /\ ok, TRUE) \in W!Summaries
  /\ \A p, ok : w_summary[p].valid /\ ok => W!Row(w_summary[p].valid /\ ok, TRUE) = Validated
<1>1. \A v, c \in BOOLEAN : W!Row(v, c) \in W!Summaries
  BY Zenon DEF W!Row, W!Summaries
<1>2. ASSUME NEW p, NEW ok PROVE (w_summary[p].valid /\ ok) \in BOOLEAN
  OBVIOUS
<1>3. ASSUME NEW p, NEW ok PROVE W!Row(w_summary[p].valid /\ ok, TRUE) \in W!Summaries
  BY <1>1, <1>2, Zenon
<1>4. ASSUME NEW p, NEW ok, w_summary[p].valid /\ ok
      PROVE  W!Row(w_summary[p].valid /\ ok, TRUE) = Validated
  <2>1. (w_summary[p].valid /\ ok) = TRUE
    BY <1>4
  <2> QED BY <2>1, Zenon DEF Validated
<1> QED BY <1>1, <1>3, <1>4, Zenon

LEMMA MissingIsASummary == W!Missing \in W!Summaries
BY Zenon DEF W!Missing, W!Summaries

\* What the steps that write a summary do, whatever they write.
Written == \E row \in W!Summaries : w_summary' = [w_summary EXCEPT ![w_point] = row]

LEMMA CancelWrites == W!CancelReplay =>
  /\ w_at = "cancel" /\ w_at' = "leave"
  /\ \/ w_replay # "running" /\ UNCHANGED <<w_replay, w_summary>>
     \/ w_replay' = "cancelled" /\ (UNCHANGED w_summary \/ Written)
  /\ UNCHANGED <<w_point, w_signals, w_failed, w_service, w_stdin, w_csv>>
BY RowsAreSummaries, Zenon DEF W!CancelReplay, Written

LEMMA ReplayWrites == W!ReplayEnds =>
  /\ w_replay = "running" /\ ~W!Over
  /\ w_replay' \in {"completed", "failed"} /\ Written
  /\ UNCHANGED <<w_at, w_point, w_signals, w_failed, w_service, w_stdin, w_csv>>
BY RowsAreSummaries, Zenon DEF W!ReplayEnds, W!Write, Written

LEMMA ValidateWrites == W!Validate =>
  /\ w_at = "validate"
  /\ \/ /\ w_at' = "point" /\ w_point' = w_point + 1 /\ UNCHANGED w_failed
        /\ w_summary' = [w_summary EXCEPT ![w_point] = Validated] /\ w_csv' = w_summary' /\ Written
     \/ w_at' = "final" /\ w_failed' = TRUE /\ UNCHANGED w_point /\ Written /\ w_csv' = w_summary'
     \/ w_at' = "final" /\ w_failed' = TRUE /\ UNCHANGED <<w_point, w_summary, w_csv>>
  /\ UNCHANGED <<w_signals, w_service, w_stdin, w_replay>>
BY RowsAreSummaries, Zenon DEF W!Validate, W!Write, W!Raise, Written

\* Nothing is done in the initial state.
LEMMA SweepStarts == ComponentsInit => SweepInv
<1> SUFFICES ASSUME W!Init PROVE SweepInv
  BY DEF ComponentsInit
<1>1. W!TypeOK
  <2>1. 1 \in 1 .. Points + 1 /\ 0 \in 0 .. 2
    BY SweepPointsConstants
  <2>2. /\ w_summary \in [1 .. Points -> W!Summaries]
        /\ w_csv \in [1 .. Points -> W!Summaries]
    BY MissingIsASummary, Zenon DEF W!Init
  <2>3. w_service \in [1 .. Points -> {"none", "starting", "ready", "zero", "nonzero"}]
    BY DEF W!Init
  <2> QED BY <2>1, <2>2, <2>3, Zenon DEF W!Init, W!TypeOK
<1>2. PointsBehind /\ PointsAhead /\ SweepPlaces
  BY SweepPointsConstants DEF W!Init, PointsBehind, PointsAhead, SweepPlaces
<1> QED BY <1>1, <1>2 DEF SweepInv

\* Every step of run(), the benchmark and the service keeps the types.
LEMMA SweepTypeStep == ASSUME SweepInv, [W!Next]_wVars PROVE W!TypeOK'
<1> USE SweepPointsConstants DEF SweepInv, W!TypeOK, W!Raise, SweepPlaces
<1>1. CASE W!StartPoint
  BY <1>1 DEF W!StartPoint
<1>2. CASE W!ServiceStarts
  BY <1>2 DEF W!ServiceStarts
<1>3. CASE W!Guard
  BY <1>3 DEF W!Guard, W!Exited
<1>4. CASE W!CancelReplay
  BY <1>4, CancelWrites DEF Written
<1>5. CASE W!Leave
  BY <1>5 DEF W!Leave
<1>6. CASE W!Closing
  BY <1>6 DEF W!Closing
<1>7. CASE W!Validate
  <2>1. w_summary' \in [1 .. Points -> W!Summaries] /\ w_csv' \in [1 .. Points -> W!Summaries]
    BY <1>7, ValidateWrites DEF Written
  <2>2. w_point' \in 1 .. Points + 1
    BY <1>7, ValidateWrites
  <2>3. /\ w_at' \in {"point", "final"} /\ w_failed' \in BOOLEAN
        /\ UNCHANGED <<w_signals, w_service, w_stdin, w_replay>>
    BY <1>7, ValidateWrites
  <2> QED BY <2>1, <2>2, <2>3
<1>8. CASE W!Final
  BY <1>8 DEF W!Final
<1>9. CASE W!Signal
  BY <1>9 DEF W!Signal
<1>10. CASE W!Kill
  BY <1>10 DEF W!Kill
<1>11. CASE W!ReplayEnds
  BY <1>11, ReplayWrites DEF Written, W!Over
<1>12. CASE W!ServiceReady
  BY <1>12 DEF W!ServiceReady
<1>13. CASE W!ServiceEnds
  BY <1>13 DEF W!ServiceEnds, W!Alive
<1>14. CASE UNCHANGED wVars
  BY <1>14 DEF wVars
<1> QED
  BY <1>1, <1>2, <1>3, <1>4, <1>5, <1>6, <1>7, <1>8, <1>9, <1>10, <1>11, <1>12, <1>13, <1>14
     DEF W!Next, W!Run

\* Every step leaves validated points alone.
LEMMA SweepBehindStep == ASSUME SweepInv, [W!Next]_wVars PROVE PointsBehind'
<1> USE SweepPointsConstants DEF SweepInv, W!TypeOK, W!Raise, PointsBehind, Behind, SweepPlaces
<1>1. CASE W!StartPoint
  BY <1>1 DEF W!StartPoint
<1>2. CASE W!ServiceStarts
  BY <1>2 DEF W!ServiceStarts
<1>3. CASE W!Guard
  BY <1>3 DEF W!Guard, W!Exited
<1>4. CASE W!CancelReplay
  BY <1>4, CancelWrites DEF Written
<1>5. CASE W!Leave
  BY <1>5 DEF W!Leave
<1>6. CASE W!Closing
  BY <1>6 DEF W!Closing
<1>7. CASE W!Validate
  BY <1>7, ValidateWrites DEF Written
<1>8. CASE W!Final
  BY <1>8 DEF W!Final
<1>9. CASE W!Signal
  BY <1>9 DEF W!Signal
<1>10. CASE W!Kill
  BY <1>10 DEF W!Kill
<1>11. CASE W!ReplayEnds
  BY <1>11, ReplayWrites DEF Written, W!Over
<1>12. CASE W!ServiceReady
  BY <1>12 DEF W!ServiceReady
<1>13. CASE W!ServiceEnds
  BY <1>13 DEF W!ServiceEnds, W!Alive
<1>14. CASE UNCHANGED wVars
  BY <1>14 DEF wVars
<1> QED
  BY <1>1, <1>2, <1>3, <1>4, <1>5, <1>6, <1>7, <1>8, <1>9, <1>10, <1>11, <1>12, <1>13, <1>14
     DEF W!Next, W!Run

\* Every step leaves later points alone.
LEMMA SweepAheadStep == ASSUME SweepInv, [W!Next]_wVars PROVE PointsAhead'
<1> USE SweepPointsConstants DEF SweepInv, W!TypeOK, W!Raise, PointsAhead, SweepPlaces
<1>1. CASE W!StartPoint
  BY <1>1 DEF W!StartPoint
<1>2. CASE W!ServiceStarts
  BY <1>2 DEF W!ServiceStarts
<1>3. CASE W!Guard
  BY <1>3 DEF W!Guard, W!Exited
<1>4. CASE W!CancelReplay
  BY <1>4, CancelWrites DEF Written
<1>5. CASE W!Leave
  BY <1>5 DEF W!Leave
<1>6. CASE W!Closing
  BY <1>6 DEF W!Closing
<1>7. CASE W!Validate
  BY <1>7, ValidateWrites DEF Written
<1>8. CASE W!Final
  BY <1>8 DEF W!Final
<1>9. CASE W!Signal
  BY <1>9 DEF W!Signal
<1>10. CASE W!Kill
  BY <1>10 DEF W!Kill
<1>11. CASE W!ReplayEnds
  BY <1>11, ReplayWrites DEF Written, W!Over
<1>12. CASE W!ServiceReady
  BY <1>12 DEF W!ServiceReady
<1>13. CASE W!ServiceEnds
  BY <1>13 DEF W!ServiceEnds, W!Alive
<1>14. CASE UNCHANGED wVars
  BY <1>14 DEF wVars
<1> QED
  BY <1>1, <1>2, <1>3, <1>4, <1>5, <1>6, <1>7, <1>8, <1>9, <1>10, <1>11, <1>12, <1>13, <1>14
     DEF W!Next, W!Run

\* Every step of run() goes where the point's service and benchmark allow.
LEMMA SweepPlacesStep == ASSUME SweepInv, [W!Next]_wVars PROVE SweepPlaces'
<1> USE SweepPointsConstants DEF SweepInv, W!TypeOK, W!Raise, SweepPlaces
<1>1. CASE W!StartPoint
  BY <1>1 DEF W!StartPoint
<1>2. CASE W!ServiceStarts
  BY <1>2 DEF W!ServiceStarts
<1>3. CASE W!Guard
  BY <1>3 DEF W!Guard, W!Exited
<1>4. CASE W!CancelReplay
  BY <1>4, CancelWrites DEF Written
<1>5. CASE W!Leave
  BY <1>5 DEF W!Leave
<1>6. CASE W!Closing
  BY <1>6 DEF W!Closing
<1>7. CASE W!Validate
  BY <1>7, ValidateWrites DEF Written
<1>8. CASE W!Final
  BY <1>8 DEF W!Final
<1>9. CASE W!Signal
  BY <1>9 DEF W!Signal
<1>10. CASE W!Kill
  BY <1>10 DEF W!Kill
<1>11. CASE W!ReplayEnds
  BY <1>11, ReplayWrites DEF Written, W!Over
<1>12. CASE W!ServiceReady
  BY <1>12 DEF W!ServiceReady
<1>13. CASE W!ServiceEnds
  BY <1>13 DEF W!ServiceEnds, W!Alive
<1>14. CASE UNCHANGED wVars
  BY <1>14 DEF wVars
<1> QED
  BY <1>1, <1>2, <1>3, <1>4, <1>5, <1>6, <1>7, <1>8, <1>9, <1>10, <1>11, <1>12, <1>13, <1>14
     DEF W!Next, W!Run

\* A sweep never runs two services at once, goes on only past validated points,
\* and has an exact table when it ends (run() of scale.py).
THEOREM SweepIsSound == ComponentsSpec => []SweepSound
<1>1. [ComponentsNext]_allVars => [W!Next]_wVars
  BY DEF ComponentsNext, allVars, GatewayStep, SandboxStep, PackStep, GaiaStep, SweStep,
     RoutingStep, SweepStep, ImagesStep, DiagnosticsStep, wVars
<1>2. SweepInv /\ [ComponentsNext]_allVars => SweepInv'
  BY <1>1, SweepTypeStep, SweepBehindStep, SweepAheadStep, SweepPlacesStep DEF SweepInv
<1>3. SweepInv => SweepSound
  <2> SUFFICES ASSUME SweepInv PROVE SweepSound
    OBVIOUS
  <2> USE SweepPointsConstants DEF SweepInv, W!TypeOK
  <2>1. \A p, q \in 1 .. Points : p # q => ~(W!Alive(p) /\ W!Alive(q))
    BY DEF PointsBehind, PointsAhead, Behind, W!Alive
  <2>2. \A p \in 1 .. w_point - 1 : w_summary[p] = Validated /\ w_service[p] = "zero"
    BY DEF PointsBehind, Behind
  <2>3. w_at \in {"returned", "raised"} => w_csv = w_summary
    BY DEF SweepPlaces
  <2> QED BY <2>1, <2>2, <2>3, Zenon DEF SweepSound, W!SweepSound, Validated
<1> QED
  BY SweepStarts, <1>2, <1>3, PTL DEF ComponentsSpec

-----------------------------------------------------------------------------
(* Packed *)

\* A member's stdin is open only while its ssh client is awaited, its status is
\* written once and says "completed" only of a client that ended well, and a
\* member that has ended leaves a client behind only after two cancellations.
MemberInv(m) ==
  /\ p_pc[m] = "new" => p_ssh[m] = "none"
  /\ p_stdin[m] => p_pc[m] \in {"spawn", "wait"}
  /\ p_pc[m] \in {"done", "raised", "reap"} => p_ssh[m] # "running"
  /\ p_pc[m] = "drain" => p_cancels # 0
  /\ p_pc[m] = "cancelled" /\ p_ssh[m] = "running" => p_cancels = 2
  /\ p_pc[m] = "done" <=> p_file[m] # "none"
  /\ p_file[m] = "completed" => p_ssh[m] = "zero"
  /\ p_ssh[m] = "zero" => p_remote[m] = "ok"

\* run_pack joins members that are done, and waits for the cancelled ones.
PackPlaces ==
  /\ p_pack \in {"waiting", "joined"} => p_cancels = 0
  /\ p_pack = "cleanup" => p_cancels # 0
  /\ p_pack \in {"joined", "returned"} => \A m \in Members : p_pc[m] = "done"
  /\ p_pack = "raised" => \A m \in Members : P!Ended(m)
  /\ p_pack = "killed" => \A m \in Members : ~p_stdin[m]

StatusInv ==
  /\ p_status \in {"completed", "failed"} => p_pack = "returned"
  /\ p_status = "completed" => \A m \in Members : p_file[m] = "completed"
  /\ p_status = "failed" => \E m \in Members : p_file[m] = "failed"
  /\ p_status = "interrupted" => p_cancels # 0

PackInv == P!TypeOK /\ PackPlaces /\ StatusInv /\ \A m \in Members : MemberInv(m)

\* No member has begun in the initial state.
LEMMA PackStarts == ComponentsInit => PackInv
<1> SUFFICES ASSUME P!Init PROVE PackInv
  BY DEF ComponentsInit
<1> QED
  BY DEF P!Init, PackInv, P!TypeOK, PackPlaces, StatusInv, MemberInv

\* What a cancellation does to one member.
LEMMA CancelOne ==
  ASSUME NEW m
  PROVE  P!CancelledPc(m) = IF P!Ended(m) THEN p_pc[m]
                            ELSE IF p_pc[m] = "wait" /\ ~P!Exited(m) THEN "drain" ELSE "cancelled"
<1>1. CASE P!Ended(m)
  <2>1. p_pc[m] # "wait"
    BY <1>1 DEF P!Ended
  <2> QED BY <1>1, <2>1, Zenon DEF P!CancelledPc
<1>2. CASE ~P!Ended(m) /\ p_pc[m] = "wait" /\ ~P!Exited(m)
  BY <1>2, Zenon DEF P!CancelledPc
<1>3. CASE ~P!Ended(m) /\ ~(p_pc[m] = "wait" /\ ~P!Exited(m))
  BY <1>3, Zenon DEF P!CancelledPc
<1> QED BY <1>1, <1>2, <1>3, Zenon

\* Interrupt and SignalAgain in one: run_pack goes to its finally clause.
Cancels ==
  /\ P!CancelMembers /\ p_cancels < 2 /\ p_pack' = "cleanup"
  /\ \/ p_pack = "waiting" /\ p_status' \in {"interrupted", p_status}
     \/ p_pack \in {"cleanup", "joined"} /\ UNCHANGED p_status
  /\ UNCHANGED <<p_file, p_remote>>

LEMMA CancelSteps ==
  ASSUME PackInv, P!Signal \/ P!MemberRaised \/ P!SignalAgain PROVE Cancels
BY DEF P!Signal, P!MemberRaised, P!SignalAgain, P!Interrupt, Cancels, PackInv, PackPlaces

\* What it does to all of them.
LEMMA CancelAll ==
  ASSUME PackInv, Cancels
  PROVE  /\ p_cancels' = p_cancels + 1 /\ p_cancels' \in 0 .. 2
         /\ p_pc' \in [Members -> {"new", "spawn", "wait", "drain", "reap", "done", "raised",
                                   "cancelled"}]
         /\ p_ssh' \in [Members -> {"none", "running", "zero", "nonzero"}]
         /\ p_stdin' \in [Members -> BOOLEAN]
         /\ \A m \in Members :
              /\ P!Ended(m) => p_pc'[m] = p_pc[m]
              /\ ~P!Ended(m) /\ p_pc[m] = "wait" /\ ~P!Exited(m) => p_pc'[m] = "drain"
              /\ ~P!Ended(m) /\ ~(p_pc[m] = "wait" /\ ~P!Exited(m)) => p_pc'[m] = "cancelled"
              /\ p_ssh'[m] = IF p_pc[m] = "spawn" /\ ~P!Exited(m) THEN "nonzero" ELSE p_ssh[m]
              /\ p_stdin'[m] => p_stdin[m] /\ P!Ended(m)
<1> USE DEF Cancels, P!CancelMembers, PackInv, P!TypeOK
<1>1. p_cancels' = p_cancels + 1 /\ p_cancels' \in 0 .. 2
  OBVIOUS
<1>2. /\ p_pc' \in [Members -> {"new", "spawn", "wait", "drain", "reap", "done", "raised",
                                "cancelled"}]
      /\ \A m \in Members :
           /\ P!Ended(m) => p_pc'[m] = p_pc[m]
           /\ ~P!Ended(m) /\ p_pc[m] = "wait" /\ ~P!Exited(m) => p_pc'[m] = "drain"
           /\ ~P!Ended(m) /\ ~(p_pc[m] = "wait" /\ ~P!Exited(m)) => p_pc'[m] = "cancelled"
  BY CancelOne
<1>3. /\ p_ssh' \in [Members -> {"none", "running", "zero", "nonzero"}]
      /\ \A m \in Members :
           p_ssh'[m] = IF p_pc[m] = "spawn" /\ ~P!Exited(m) THEN "nonzero" ELSE p_ssh[m]
  OBVIOUS
<1>4. /\ p_stdin' \in [Members -> BOOLEAN]
      /\ \A m \in Members : p_stdin'[m] => p_stdin[m] /\ P!Ended(m)
  BY Zenon
<1> QED BY <1>1, <1>2, <1>3, <1>4

\* Every step keeps the types.
LEMMA PackTypeStep == ASSUME PackInv, [P!Next]_pVars PROVE P!TypeOK'
<1> USE DEF PackInv, P!TypeOK, PackPlaces
<1>1. CASE P!Signal \/ P!MemberRaised \/ P!SignalAgain
  BY <1>1, CancelSteps, CancelAll DEF Cancels
<1>2. ASSUME NEW x \in Members, P!Begin(x) PROVE P!TypeOK'
  BY <1>2 DEF P!Begin, P!Goto, P!Finish
<1>3. ASSUME NEW x \in Members, P!Spawned(x) PROVE P!TypeOK'
  BY <1>3 DEF P!Spawned, P!Goto
<1>4. ASSUME NEW x \in Members, P!WaitEnds(x) PROVE P!TypeOK'
  BY <1>4 DEF P!WaitEnds, P!Goto, P!Finish, P!Exited
<1>5. ASSUME NEW x \in Members, P!DrainEnds(x) PROVE P!TypeOK'
  BY <1>5 DEF P!DrainEnds, P!Goto, P!Exited
<1>6. ASSUME NEW x \in Members, P!Reap(x) PROVE P!TypeOK'
  BY <1>6 DEF P!Reap, P!Goto
<1>7. ASSUME NEW x \in Members, P!RemoteStarts(x) PROVE P!TypeOK'
  BY <1>7 DEF P!RemoteStarts
<1>8. ASSUME NEW x \in Members, P!RemoteEnds(x) PROVE P!TypeOK'
  BY <1>8 DEF P!RemoteEnds
<1>9. ASSUME NEW x \in Members, P!RemoteStops(x) PROVE P!TypeOK'
  BY <1>9 DEF P!RemoteStops
<1>10. ASSUME NEW x \in Members, P!SshEnds(x) PROVE P!TypeOK'
  BY <1>10 DEF P!SshEnds
<1>11. ASSUME NEW x \in Members, P!ConnectionFails(x) PROVE P!TypeOK'
  BY <1>11 DEF P!ConnectionFails
<1>12. CASE P!MembersEnd
  BY <1>12 DEF P!MembersEnd, P!AllEnded
<1>13. CASE P!Join
  BY <1>13 DEF P!Join
<1>14. CASE P!WriteStatus
  BY <1>14 DEF P!WriteStatus
<1>15. CASE P!Kill
  BY <1>15 DEF P!Kill
<1>16. CASE UNCHANGED pVars
  BY <1>16 DEF pVars, P!Ended
<1> QED
  BY <1>1, <1>2, <1>3, <1>4, <1>5, <1>6, <1>7, <1>8, <1>9, <1>10, <1>11, <1>12, <1>13, <1>14, <1>15, <1>16
     DEF P!Next, P!Coordinator, P!Member

\* Every step leaves run_pack where its members are.
LEMMA PackPlacesStep == ASSUME PackInv, [P!Next]_pVars PROVE PackPlaces'
<1> USE DEF PackInv, P!TypeOK, PackPlaces, MemberInv, P!Over, P!Ended
<1>1. CASE P!Signal \/ P!MemberRaised \/ P!SignalAgain
  BY <1>1, CancelSteps, CancelAll DEF Cancels
<1>2. ASSUME NEW x \in Members, P!Begin(x) PROVE PackPlaces'
  BY <1>2 DEF P!Begin, P!Goto, P!Finish
<1>3. ASSUME NEW x \in Members, P!Spawned(x) PROVE PackPlaces'
  BY <1>3 DEF P!Spawned, P!Goto
<1>4. ASSUME NEW x \in Members, P!WaitEnds(x) PROVE PackPlaces'
  BY <1>4 DEF P!WaitEnds, P!Goto, P!Finish, P!Exited
<1>5. ASSUME NEW x \in Members, P!DrainEnds(x) PROVE PackPlaces'
  BY <1>5 DEF P!DrainEnds, P!Goto, P!Exited
<1>6. ASSUME NEW x \in Members, P!Reap(x) PROVE PackPlaces'
  BY <1>6 DEF P!Reap, P!Goto
<1>7. ASSUME NEW x \in Members, P!RemoteStarts(x) PROVE PackPlaces'
  BY <1>7 DEF P!RemoteStarts
<1>8. ASSUME NEW x \in Members, P!RemoteEnds(x) PROVE PackPlaces'
  BY <1>8 DEF P!RemoteEnds
<1>9. ASSUME NEW x \in Members, P!RemoteStops(x) PROVE PackPlaces'
  BY <1>9 DEF P!RemoteStops
<1>10. ASSUME NEW x \in Members, P!SshEnds(x) PROVE PackPlaces'
  BY <1>10 DEF P!SshEnds
<1>11. ASSUME NEW x \in Members, P!ConnectionFails(x) PROVE PackPlaces'
  BY <1>11 DEF P!ConnectionFails
<1>12. CASE P!MembersEnd
  BY <1>12 DEF P!MembersEnd, P!AllEnded
<1>13. CASE P!Join
  BY <1>13 DEF P!Join
<1>14. CASE P!WriteStatus
  BY <1>14 DEF P!WriteStatus
<1>15. CASE P!Kill
  BY <1>15 DEF P!Kill
<1>16. CASE UNCHANGED pVars
  BY <1>16 DEF pVars, P!Ended
<1> QED
  BY <1>1, <1>2, <1>3, <1>4, <1>5, <1>6, <1>7, <1>8, <1>9, <1>10, <1>11, <1>12, <1>13, <1>14, <1>15, <1>16
     DEF P!Next, P!Coordinator, P!Member

\* Every step leaves a status that is so.
LEMMA StatusStep == ASSUME PackInv, [P!Next]_pVars PROVE StatusInv'
<1> USE DEF PackInv, P!TypeOK, StatusInv, PackPlaces, MemberInv, P!Over
<1>1. CASE P!Signal \/ P!MemberRaised \/ P!SignalAgain
  BY <1>1, CancelSteps, CancelAll DEF Cancels
<1>2. ASSUME NEW x \in Members, P!Begin(x) PROVE StatusInv'
  BY <1>2 DEF P!Begin, P!Goto, P!Finish
<1>3. ASSUME NEW x \in Members, P!Spawned(x) PROVE StatusInv'
  BY <1>3 DEF P!Spawned, P!Goto
<1>4. ASSUME NEW x \in Members, P!WaitEnds(x) PROVE StatusInv'
  BY <1>4 DEF P!WaitEnds, P!Goto, P!Finish, P!Exited
<1>5. ASSUME NEW x \in Members, P!DrainEnds(x) PROVE StatusInv'
  BY <1>5 DEF P!DrainEnds, P!Goto, P!Exited
<1>6. ASSUME NEW x \in Members, P!Reap(x) PROVE StatusInv'
  BY <1>6 DEF P!Reap, P!Goto
<1>7. ASSUME NEW x \in Members, P!RemoteStarts(x) PROVE StatusInv'
  BY <1>7 DEF P!RemoteStarts
<1>8. ASSUME NEW x \in Members, P!RemoteEnds(x) PROVE StatusInv'
  BY <1>8 DEF P!RemoteEnds
<1>9. ASSUME NEW x \in Members, P!RemoteStops(x) PROVE StatusInv'
  BY <1>9 DEF P!RemoteStops
<1>10. ASSUME NEW x \in Members, P!SshEnds(x) PROVE StatusInv'
  BY <1>10 DEF P!SshEnds
<1>11. ASSUME NEW x \in Members, P!ConnectionFails(x) PROVE StatusInv'
  BY <1>11 DEF P!ConnectionFails
<1>12. CASE P!MembersEnd
  BY <1>12 DEF P!MembersEnd, P!AllEnded
<1>13. CASE P!Join
  BY <1>13 DEF P!Join
<1>14. CASE P!WriteStatus
  BY <1>14 DEF P!WriteStatus
<1>15. CASE P!Kill
  BY <1>15 DEF P!Kill
<1>16. CASE UNCHANGED pVars
  BY <1>16 DEF pVars, P!Ended
<1> QED
  BY <1>1, <1>2, <1>3, <1>4, <1>5, <1>6, <1>7, <1>8, <1>9, <1>10, <1>11, <1>12, <1>13, <1>14, <1>15, <1>16
     DEF P!Next, P!Coordinator, P!Member

\* Every step keeps what holds of each member.
LEMMA MemberStep == ASSUME PackInv, [P!Next]_pVars PROVE (\A m \in Members : MemberInv(m))'
<1> USE DEF PackInv, P!TypeOK, MemberInv, PackPlaces, P!Over
<1>1. CASE P!Signal \/ P!MemberRaised \/ P!SignalAgain
  BY <1>1, CancelSteps, CancelAll DEF Cancels, P!Ended, P!Exited
<1>2. ASSUME NEW x \in Members, P!Begin(x) PROVE (\A m \in Members : MemberInv(m))'
  BY <1>2 DEF P!Begin, P!Goto, P!Finish
<1>3. ASSUME NEW x \in Members, P!Spawned(x) PROVE (\A m \in Members : MemberInv(m))'
  BY <1>3 DEF P!Spawned, P!Goto
<1>4. ASSUME NEW x \in Members, P!WaitEnds(x) PROVE (\A m \in Members : MemberInv(m))'
  BY <1>4 DEF P!WaitEnds, P!Goto, P!Finish, P!Exited
<1>5. ASSUME NEW x \in Members, P!DrainEnds(x) PROVE (\A m \in Members : MemberInv(m))'
  BY <1>5 DEF P!DrainEnds, P!Goto, P!Exited
<1>6. ASSUME NEW x \in Members, P!Reap(x) PROVE (\A m \in Members : MemberInv(m))'
  BY <1>6 DEF P!Reap, P!Goto
<1>7. ASSUME NEW x \in Members, P!RemoteStarts(x) PROVE (\A m \in Members : MemberInv(m))'
  BY <1>7 DEF P!RemoteStarts
<1>8. ASSUME NEW x \in Members, P!RemoteEnds(x) PROVE (\A m \in Members : MemberInv(m))'
  BY <1>8 DEF P!RemoteEnds
<1>9. ASSUME NEW x \in Members, P!RemoteStops(x) PROVE (\A m \in Members : MemberInv(m))'
  BY <1>9 DEF P!RemoteStops
<1>10. ASSUME NEW x \in Members, P!SshEnds(x) PROVE (\A m \in Members : MemberInv(m))'
  BY <1>10 DEF P!SshEnds
<1>11. ASSUME NEW x \in Members, P!ConnectionFails(x) PROVE (\A m \in Members : MemberInv(m))'
  BY <1>11 DEF P!ConnectionFails
<1>12. CASE P!MembersEnd
  BY <1>12 DEF P!MembersEnd, P!AllEnded
<1>13. CASE P!Join
  BY <1>13 DEF P!Join
<1>14. CASE P!WriteStatus
  BY <1>14 DEF P!WriteStatus
<1>15. CASE P!Kill
  BY <1>15 DEF P!Kill
<1>16. CASE UNCHANGED pVars
  BY <1>16 DEF pVars, P!Ended
<1> QED
  BY <1>1, <1>2, <1>3, <1>4, <1>5, <1>6, <1>7, <1>8, <1>9, <1>10, <1>11, <1>12, <1>13, <1>14, <1>15, <1>16
     DEF P!Next, P!Coordinator, P!Member

\* The status files of a pack are true, and a pack leaves an ssh client running
\* only if it was killed or cancelled twice (run_pack of packed.py).
THEOREM PacksTell == ComponentsSpec => []PackTells
<1>1. [ComponentsNext]_allVars => [P!Next]_pVars
  BY DEF ComponentsNext, allVars, GatewayStep, SandboxStep, PackStep, GaiaStep, SweStep,
     RoutingStep, SweepStep, ImagesStep, DiagnosticsStep, pVars
<1>2. PackInv /\ [ComponentsNext]_allVars => PackInv'
  BY <1>1, PackTypeStep, PackPlacesStep, StatusStep, MemberStep DEF PackInv
<1>3. PackInv => PackTells
  <2> SUFFICES ASSUME PackInv PROVE PackTells
    OBVIOUS
  <2> USE DEF PackInv, P!TypeOK, PackPlaces, StatusInv, MemberInv
  <2>1. P!StatusTells
    BY DEF P!StatusTells
  <2>2. P!LeftOnlyWhenCut
    BY DEF P!LeftOnlyWhenCut, P!Over, P!Ended
  <2> QED BY <2>1, <2>2 DEF PackTells, P!PackTells
<1> QED
  BY PackStarts, <1>2, <1>3, PTL DEF ComponentsSpec
-----------------------------------------------------------------------------
(* SweCollect *)

\* A deadline is armed inside its task only, and a task's state does not speak of
\* a trace before there is one.
SweTasks ==
  /\ b_armed => B!InTask
  /\ B!InTask \/ b_at \in {"trace", "tracing", "record"} => B!Current <= Planned
  /\ B!InTask \/ b_at \in {"trace", "tracing"} => b_state # "trace_complete"

\* Only the recorded tasks and the current one have a trace.json, and the state of
\* the current one says whether it is whole.
SweTraces ==
  /\ B!InTask \/ b_at \in {"loop", "trace", "rewrite", "lines"} =>
       \A i \in 1 .. Planned : b_trace[i] # "none" => i <= Len(b_statuses)
  /\ b_at = "tracing" => b_trace[B!Current] # "whole"
  /\ b_at = "record" => (b_state = "trace_complete" <=> b_trace[B!Current] = "whole")
  /\ \A i \in 1 .. Planned : b_trace[i] # "none" => i <= B!Current

\* The rows tell of whole traces, and are short of a task only where the rewriting
\* of their file was cut.
SweRows ==
  /\ \A i \in DOMAIN b_statuses : b_statuses[i] = "trace_complete" <=> b_trace[i] = "whole"
  /\ b_listed # Len(b_statuses) =>
       b_interrupts > 0 \/ (b_at \in {"rewrite", "lines", "stopping", "raised"} /\ b_result = "none")

\* summary.json is written last, of what was recorded.
SweResult ==
  /\ b_at \notin {"summing", "returned", "raised"} => b_result = "none"
  /\ b_result \in {"complete", "incomplete"} =>
       b_at \in {"returned", "raised"} /\ b_listed = Len(b_statuses)
  /\ b_result = "complete" => b_listed = Planned /\ \A i \in 1 .. Planned : b_trace[i] = "whole"

SweInv == B!TypeOK /\ SweTasks /\ SweTraces /\ SweRows /\ SweResult

\* No task was begun in the initial state.
LEMMA SweStarts == ComponentsInit => SweInv
<1> SUFFICES ASSUME B!Init PROVE SweInv
  BY DEF ComponentsInit
<1> USE CollectedTasksConstants DEF B!Init
<1>1. B!TypeOK
  <2>1. <<>> \in Seq(B!States) /\ Len(<<>>) = 0
    OBVIOUS
  <2>2. "running" \in B!States
    BY DEF B!States
  <2>3. 0 \in 0 .. 2 /\ 0 <= Planned /\ 0 \in 0 .. Planned
    OBVIOUS
  <2>4. [i \in 1 .. Planned |-> "none"] \in [1 .. Planned -> {"none", "torn", "whole"}]
    OBVIOUS
  <2> QED BY <2>1, <2>2, <2>3, <2>4, Zenon DEF B!TypeOK
<1>2. SweTasks
  BY DEF SweTasks, B!InTask
<1>3. SweTraces /\ SweRows /\ SweResult
  BY DEF SweTraces, SweRows, SweResult
<1> QED BY <1>1, <1>2, <1>3 DEF SweInv

\* The current task is one of the selection while anything is done for it.
LEMMA CurrentIsATask ==
  ASSUME SweInv
  PROVE  /\ B!Current \in Nat \ {0} /\ B!Current = Len(b_statuses) + 1 /\ Len(b_statuses) \in Nat
         /\ B!InTask \/ b_at \in {"trace", "tracing", "record"} => B!Current \in 1 .. Planned
BY CollectedTasksConstants DEF SweInv, SweTasks, B!TypeOK, B!Current

\* Where a deadline leaves run_agent or the loop, and what Ctrl-C leaves.
LEMMA AlarmStrikes ==
  ASSUME SweInv, B!Alarm
  PROVE  /\ B!InTask /\ b_armed' = FALSE /\ b_at' \in {"cleanup", "except", "stopping"}
         /\ b_state' \in {"running", b_state} /\ b_trajectory' \in BOOLEAN
         /\ b_sandboxes' \subseteq 1 .. Planned
         /\ UNCHANGED <<b_interrupts, b_trace, b_statuses, b_listed, b_result>>
<1> USE DEF B!Alarm
<1>1. b_at' \in {"cleanup", "except", "stopping"}
  OBVIOUS
<1>2. b_trajectory' \in BOOLEAN
  BY DEF SweInv, B!TypeOK
<1>3. b_sandboxes' \subseteq 1 .. Planned
  BY CollectedTasksConstants DEF SweInv, SweTasks, B!TypeOK, B!InTask, B!Current
<1> QED BY <1>1, <1>2, <1>3

LEMMA InterruptStrikes ==
  ASSUME SweInv, B!Interrupt
  PROVE  /\ b_interrupts' \in 1 .. 2 /\ b_armed' = FALSE
         /\ b_at \notin {"returned", "raised"} /\ b_at' \in {"raised", "interrupted"}
         /\ b_at = "summing" => b_at' = "raised"
         /\ b_sandboxes' \subseteq 1 .. Planned
         /\ \/ UNCHANGED b_trace
            \/ b_at = "tracing" /\ b_trace' = [b_trace EXCEPT ![B!Current] = "whole"]
         /\ \/ UNCHANGED b_statuses
            \/ b_at = "record" /\ b_statuses' = Append(b_statuses, b_state)
         /\ b_listed' \in 0 .. Planned /\ (b_at # "lines" => UNCHANGED b_listed)
         /\ \/ UNCHANGED b_result
            \/ b_at = "summing" /\ b_result' = B!Outcome
         /\ UNCHANGED <<b_trajectory, b_state>>
<1> USE DEF B!Interrupt
<1>1. /\ b_at \notin {"returned", "raised"} /\ b_at' \in {"raised", "interrupted"}
      /\ b_at = "summing" => b_at' = "raised"
  BY DEF B!Over
<1>2. b_sandboxes' \subseteq 1 .. Planned
  BY CollectedTasksConstants DEF SweInv, SweTasks, B!TypeOK, B!InTask, B!Current
<1>3. /\ \/ UNCHANGED b_trace
         \/ b_at = "tracing" /\ b_trace' = [b_trace EXCEPT ![B!Current] = "whole"]
      /\ \/ UNCHANGED b_statuses
         \/ b_at = "record" /\ b_statuses' = Append(b_statuses, b_state)
      /\ \/ UNCHANGED b_result
         \/ b_at = "summing" /\ b_result' = B!Outcome
  OBVIOUS
<1>4. b_interrupts' \in 1 .. 2
  BY DEF SweInv, B!TypeOK
<1>5. b_listed' \in 0 .. Planned /\ (b_at # "lines" => UNCHANGED b_listed)
  BY CollectedTasksConstants DEF SweInv, B!TypeOK
<1> QED BY <1>1, <1>2, <1>3, <1>4, <1>5

\* What the summary says is true when it is written.
LEMMA OutcomeTells ==
  ASSUME SweInv, b_at = "summing"
  PROVE  /\ B!Outcome \in {"complete", "incomplete", "interrupted"}
         /\ B!Outcome \in {"complete", "incomplete"} => b_listed = Len(b_statuses) /\ b_interrupts = 0
         /\ B!Outcome = "complete" =>
              b_listed = Planned /\ \A i \in 1 .. Planned : b_trace[i] = "whole"
<1> USE CollectedTasksConstants DEF SweInv, B!TypeOK
<1>1. B!Outcome \in {"complete", "incomplete"} => b_interrupts = 0
  BY DEF B!Outcome
<1>2. b_interrupts = 0 => b_listed = Len(b_statuses)
  BY DEF SweRows
<1>3. B!Outcome = "complete" => B!Complete
  BY DEF B!Outcome
<1>4. B!Complete => \A i \in 1 .. Planned : b_trace[i] = "whole"
  BY DEF B!Complete, SweRows
<1>5. B!Complete => Len(b_statuses) = Planned
  <2> SUFFICES ASSUME B!Complete, Len(b_statuses) < Planned PROVE FALSE
    OBVIOUS
  <2>1. Planned \in 1 .. Planned
    OBVIOUS
  <2> QED BY <2>1 DEF B!Complete
<1>6. B!Outcome \in {"complete", "incomplete", "interrupted"}
  BY DEF B!Outcome
<1> QED BY <1>1, <1>2, <1>3, <1>4, <1>5, <1>6

\* What a new row does to the rows before it.
LEMMA RowRecorded ==
  ASSUME SweInv, b_at = "record", b_statuses' = Append(b_statuses, b_state)
  PROVE  /\ b_statuses' \in Seq(B!States) /\ Len(b_statuses') = Len(b_statuses) + 1
         /\ Len(b_statuses') <= Planned
         /\ \A i \in DOMAIN b_statuses' :
              b_statuses'[i] = IF i = B!Current THEN b_state ELSE b_statuses[i]
         /\ \A i \in DOMAIN b_statuses' : i = B!Current \/ i \in DOMAIN b_statuses
BY CollectedTasksConstants DEF SweInv, SweTasks, B!TypeOK, B!Current

\* What Ctrl-C finds recorded stays true.
LEMMA InterruptKeeps ==
  ASSUME SweInv, B!Interrupt PROVE B!TypeOK' /\ SweTasks' /\ SweTraces' /\ SweRows' /\ SweResult'
<1> USE CollectedTasksConstants
<1>0. B!TypeOK /\ SweTraces /\ SweRows /\ SweResult
  BY DEF SweInv
<1>1. /\ b_interrupts' \in 1 .. 2 /\ b_armed' = FALSE
      /\ b_at \notin {"returned", "raised"} /\ b_at' \in {"raised", "interrupted"}
      /\ b_at = "summing" => b_at' = "raised"
      /\ b_sandboxes' \subseteq 1 .. Planned
      /\ b_listed' \in 0 .. Planned /\ (b_at # "lines" => UNCHANGED b_listed)
      /\ UNCHANGED <<b_trajectory, b_state>>
  BY InterruptStrikes
<1>2. \/ UNCHANGED b_trace
      \/ /\ b_at = "tracing" /\ b_trace' = [b_trace EXCEPT ![B!Current] = "whole"]
         /\ B!Current \in 1 .. Planned
  BY InterruptStrikes, CurrentIsATask
<1>3. \/ UNCHANGED b_statuses
      \/ /\ b_at = "record"
         /\ b_statuses' \in Seq(B!States) /\ Len(b_statuses') = Len(b_statuses) + 1
         /\ Len(b_statuses') <= Planned
         /\ \A i \in DOMAIN b_statuses' :
              b_statuses'[i] = IF i = B!Current THEN b_state ELSE b_statuses[i]
         /\ \A i \in DOMAIN b_statuses' : i = B!Current \/ i \in DOMAIN b_statuses
  BY InterruptStrikes, RowRecorded
<1>4. \/ UNCHANGED b_result
      \/ b_at = "summing" /\ b_result' = B!Outcome
  BY InterruptStrikes
<1>5. B!Current = Len(b_statuses) + 1 /\ Len(b_statuses) \in Nat
  BY CurrentIsATask
<1>6. B!TypeOK'
  <2>1. b_trace' \in [1 .. Planned -> {"none", "torn", "whole"}]
    BY <1>0, <1>2 DEF B!TypeOK
  <2>2. b_statuses' \in Seq(B!States) /\ Len(b_statuses') <= Planned
    BY <1>0, <1>3 DEF B!TypeOK
  <2>3. b_result' \in {"none", "torn", "complete", "incomplete", "interrupted"}
    BY <1>0, <1>4, OutcomeTells DEF B!TypeOK
  <2>4. b_interrupts' \in 0 .. 2 /\ b_listed' \in 0 .. Planned
    BY <1>1
  <2>5. b_armed' \in BOOLEAN /\ b_trajectory' \in BOOLEAN /\ b_state' \in B!States
    BY <1>0, <1>1, Zenon DEF B!TypeOK
  <2>6. b_at' \in {"interrupted", "raised"} /\ b_sandboxes' \subseteq 1 .. Planned
    BY <1>1
  <2> QED BY <2>1, <2>2, <2>3, <2>4, <2>5, <2>6 DEF B!TypeOK
<1>7. SweTasks'
  BY <1>1 DEF SweTasks, B!InTask
<1>8. SweTraces'
  <2>1. Len(b_statuses') \in Nat /\ Len(b_statuses') >= Len(b_statuses)
    BY <1>3, <1>5
  <2>2. ASSUME NEW i \in 1 .. Planned, b_trace'[i] # "none" PROVE i <= Len(b_statuses) + 1
    BY <1>0, <1>2, <1>5, <2>2 DEF SweTraces, B!TypeOK
  <2>3. \A i \in 1 .. Planned : b_trace'[i] # "none" => i <= Len(b_statuses') + 1
    BY <2>1, <2>2, <1>5
  <2> QED BY <1>1, <2>3 DEF SweTraces, B!InTask, B!Current
<1>9. SweRows'
  <2>1. b_interrupts' > 0
    BY <1>1
  <2>2. CASE UNCHANGED b_statuses
    <3>1. ASSUME NEW i \in DOMAIN b_statuses PROVE b_trace'[i] = "whole" <=> b_trace[i] = "whole"
      BY <1>0, <1>2, <1>5, <3>1 DEF B!TypeOK
    <3> QED BY <1>0, <2>1, <2>2, <3>1 DEF SweRows
  <2>3. CASE ~UNCHANGED b_statuses
    <3>1. b_at = "record" /\ b_trace' = b_trace
      BY <1>2, <1>3, <2>3
    <3>2. b_state = "trace_complete" <=> b_trace[B!Current] = "whole"
      BY <1>0, <3>1 DEF SweTraces
    <3>3. ASSUME NEW i \in DOMAIN b_statuses'
          PROVE  b_statuses'[i] = "trace_complete" <=> b_trace'[i] = "whole"
      BY <1>0, <1>3, <2>3, <3>1, <3>2, <3>3 DEF SweRows
    <3> QED BY <2>1, <3>3 DEF SweRows
  <2> QED BY <2>2, <2>3
<1>10. SweResult'
  <2>1. CASE b_at = "summing"
    <3>1. b_at' = "raised" /\ UNCHANGED <<b_trace, b_statuses, b_listed>>
      BY <1>1, <1>2, <1>3, <2>1
    <3>2. b_result' = B!Outcome \/ b_result' = b_result
      BY <1>4
    <3>3. b_result \notin {"complete", "incomplete"}
      BY <1>0, <2>1 DEF SweResult
    <3>4. CASE b_result' = b_result
      BY <3>1, <3>3, <3>4 DEF SweResult
    <3>5. CASE b_result' = B!Outcome
      <4>1. /\ B!Outcome \in {"complete", "incomplete"} => b_listed = Len(b_statuses)
            /\ B!Outcome = "complete" =>
                 b_listed = Planned /\ \A i \in 1 .. Planned : b_trace[i] = "whole"
        BY <2>1, OutcomeTells
      <4> QED BY <3>1, <3>5, <4>1 DEF SweResult
    <3> QED BY <3>2, <3>4, <3>5
  <2>2. CASE b_at # "summing"
    <3>1. b_result' = "none"
      BY <1>0, <1>1, <1>4, <2>2 DEF SweResult
    <3> QED BY <3>1 DEF SweResult
  <2> QED BY <2>1, <2>2
<1> QED BY <1>6, <1>7, <1>8, <1>9, <1>10

\* Every step keeps the types.
LEMMA SweTypeStep == ASSUME SweInv, [B!Next]_bVars PROVE B!TypeOK'
<1> USE CollectedTasksConstants
    DEF SweInv, SweTasks, SweTraces, SweRows, SweResult, B!TypeOK, B!InTask, B!States
<1>1. CASE B!Loop
  BY <1>1 DEF B!Loop
<1>2. CASE B!RunAgent
  BY <1>2, CurrentIsATask DEF B!RunAgent
<1>3. CASE B!Cleanup
  BY <1>3 DEF B!Cleanup
<1>4. CASE B!Ran
  BY <1>4 DEF B!Ran
<1>5. CASE B!Except
  BY <1>5 DEF B!Except
<1>6. CASE B!Disarm
  BY <1>6 DEF B!Disarm
<1>7. CASE B!Trace
  BY <1>7, CurrentIsATask DEF B!Trace
<1>8. CASE B!WriteTrace
  BY <1>8, CurrentIsATask DEF B!WriteTrace
<1>9. CASE B!Record
  BY <1>9, RowRecorded DEF B!Record
<1>10. CASE B!Rewrite
  BY <1>10 DEF B!Rewrite
<1>11. CASE B!Lines
  BY <1>11 DEF B!Lines
<1>12. CASE B!Finally
  BY <1>12 DEF B!Finally
<1>13. CASE B!Summary
  BY <1>13, OutcomeTells DEF B!Summary
<1>14. CASE B!Alarm
  BY <1>14, AlarmStrikes
<1>15. CASE B!Interrupt
  BY <1>15, InterruptKeeps
<1>16. CASE UNCHANGED bVars
  BY <1>16 DEF bVars
<1> QED
  BY <1>1, <1>2, <1>3, <1>4, <1>5, <1>6, <1>7, <1>8,
     <1>9, <1>10, <1>11, <1>12, <1>13, <1>14, <1>15, <1>16
     DEF B!Next, B!Main

\* Every step leaves the deadline inside its task.
LEMMA SweTasksStep == ASSUME SweInv, [B!Next]_bVars PROVE SweTasks'
<1> USE CollectedTasksConstants
    DEF SweInv, SweTasks, SweTraces, SweRows, SweResult, B!TypeOK, B!InTask, B!Current
<1>1. CASE B!Loop
  BY <1>1 DEF B!Loop
<1>2. CASE B!RunAgent
  BY <1>2, CurrentIsATask DEF B!RunAgent
<1>3. CASE B!Cleanup
  BY <1>3 DEF B!Cleanup
<1>4. CASE B!Ran
  BY <1>4 DEF B!Ran
<1>5. CASE B!Except
  BY <1>5 DEF B!Except
<1>6. CASE B!Disarm
  BY <1>6 DEF B!Disarm
<1>7. CASE B!Trace
  BY <1>7, CurrentIsATask DEF B!Trace
<1>8. CASE B!WriteTrace
  BY <1>8, CurrentIsATask DEF B!WriteTrace
<1>9. CASE B!Record
  BY <1>9, RowRecorded DEF B!Record
<1>10. CASE B!Rewrite
  BY <1>10 DEF B!Rewrite
<1>11. CASE B!Lines
  BY <1>11 DEF B!Lines
<1>12. CASE B!Finally
  BY <1>12 DEF B!Finally
<1>13. CASE B!Summary
  BY <1>13, OutcomeTells DEF B!Summary
<1>14. CASE B!Alarm
  BY <1>14, AlarmStrikes
<1>15. CASE B!Interrupt
  BY <1>15, InterruptKeeps
<1>16. CASE UNCHANGED bVars
  BY <1>16 DEF bVars
<1> QED
  BY <1>1, <1>2, <1>3, <1>4, <1>5, <1>6, <1>7, <1>8,
     <1>9, <1>10, <1>11, <1>12, <1>13, <1>14, <1>15, <1>16
     DEF B!Next, B!Main

\* Every step leaves the traces of recorded tasks, and the current one.
LEMMA SweTracesStep == ASSUME SweInv, [B!Next]_bVars PROVE SweTraces'
<1> USE CollectedTasksConstants
    DEF SweInv, SweTasks, SweTraces, SweRows, SweResult, B!TypeOK, B!InTask, B!Current
<1>1. CASE B!Loop
  BY <1>1 DEF B!Loop
<1>2. CASE B!RunAgent
  BY <1>2, CurrentIsATask DEF B!RunAgent
<1>3. CASE B!Cleanup
  BY <1>3 DEF B!Cleanup
<1>4. CASE B!Ran
  BY <1>4 DEF B!Ran
<1>5. CASE B!Except
  BY <1>5 DEF B!Except
<1>6. CASE B!Disarm
  BY <1>6 DEF B!Disarm
<1>7. CASE B!Trace
  BY <1>7, CurrentIsATask DEF B!Trace
<1>8. CASE B!WriteTrace
  BY <1>8, CurrentIsATask DEF B!WriteTrace
<1>9. CASE B!Record
  BY <1>9, RowRecorded DEF B!Record
<1>10. CASE B!Rewrite
  BY <1>10 DEF B!Rewrite
<1>11. CASE B!Lines
  BY <1>11 DEF B!Lines
<1>12. CASE B!Finally
  BY <1>12 DEF B!Finally
<1>13. CASE B!Summary
  BY <1>13, OutcomeTells DEF B!Summary
<1>14. CASE B!Alarm
  BY <1>14, AlarmStrikes
<1>15. CASE B!Interrupt
  BY <1>15, InterruptKeeps
<1>16. CASE UNCHANGED bVars
  BY <1>16 DEF bVars
<1> QED
  BY <1>1, <1>2, <1>3, <1>4, <1>5, <1>6, <1>7, <1>8,
     <1>9, <1>10, <1>11, <1>12, <1>13, <1>14, <1>15, <1>16
     DEF B!Next, B!Main

\* Every step leaves rows that tell of traces.
LEMMA SweRowsStep == ASSUME SweInv, [B!Next]_bVars PROVE SweRows'
<1> USE CollectedTasksConstants
    DEF SweInv, SweTasks, SweTraces, SweRows, SweResult, B!TypeOK, B!InTask, B!Current
<1>1. CASE B!Loop
  BY <1>1 DEF B!Loop
<1>2. CASE B!RunAgent
  BY <1>2, CurrentIsATask DEF B!RunAgent
<1>3. CASE B!Cleanup
  BY <1>3 DEF B!Cleanup
<1>4. CASE B!Ran
  BY <1>4 DEF B!Ran
<1>5. CASE B!Except
  BY <1>5 DEF B!Except
<1>6. CASE B!Disarm
  BY <1>6 DEF B!Disarm
<1>7. CASE B!Trace
  BY <1>7, CurrentIsATask DEF B!Trace
<1>8. CASE B!WriteTrace
  BY <1>8, CurrentIsATask DEF B!WriteTrace
<1>9. CASE B!Record
  BY <1>9, RowRecorded DEF B!Record
<1>10. CASE B!Rewrite
  BY <1>10 DEF B!Rewrite
<1>11. CASE B!Lines
  BY <1>11 DEF B!Lines
<1>12. CASE B!Finally
  BY <1>12 DEF B!Finally
<1>13. CASE B!Summary
  BY <1>13, OutcomeTells DEF B!Summary
<1>14. CASE B!Alarm
  BY <1>14, AlarmStrikes
<1>15. CASE B!Interrupt
  BY <1>15, InterruptKeeps
<1>16. CASE UNCHANGED bVars
  BY <1>16 DEF bVars
<1> QED
  BY <1>1, <1>2, <1>3, <1>4, <1>5, <1>6, <1>7, <1>8,
     <1>9, <1>10, <1>11, <1>12, <1>13, <1>14, <1>15, <1>16
     DEF B!Next, B!Main

\* Every step leaves a summary that tells of rows and traces.
LEMMA SweResultStep == ASSUME SweInv, [B!Next]_bVars PROVE SweResult'
<1> USE CollectedTasksConstants
    DEF SweInv, SweTasks, SweTraces, SweRows, SweResult, B!TypeOK, B!InTask, B!Current
<1>1. CASE B!Loop
  BY <1>1 DEF B!Loop
<1>2. CASE B!RunAgent
  BY <1>2, CurrentIsATask DEF B!RunAgent
<1>3. CASE B!Cleanup
  BY <1>3 DEF B!Cleanup
<1>4. CASE B!Ran
  BY <1>4 DEF B!Ran
<1>5. CASE B!Except
  BY <1>5 DEF B!Except
<1>6. CASE B!Disarm
  BY <1>6 DEF B!Disarm
<1>7. CASE B!Trace
  BY <1>7, CurrentIsATask DEF B!Trace
<1>8. CASE B!WriteTrace
  BY <1>8, CurrentIsATask DEF B!WriteTrace
<1>9. CASE B!Record
  BY <1>9, RowRecorded DEF B!Record
<1>10. CASE B!Rewrite
  BY <1>10 DEF B!Rewrite
<1>11. CASE B!Lines
  BY <1>11 DEF B!Lines
<1>12. CASE B!Finally
  BY <1>12 DEF B!Finally
<1>13. CASE B!Summary
  BY <1>13, OutcomeTells DEF B!Summary
<1>14. CASE B!Alarm
  BY <1>14, AlarmStrikes
<1>15. CASE B!Interrupt
  BY <1>15, InterruptKeeps
<1>16. CASE UNCHANGED bVars
  BY <1>16 DEF bVars
<1> QED
  BY <1>1, <1>2, <1>3, <1>4, <1>5, <1>6, <1>7, <1>8,
     <1>9, <1>10, <1>11, <1>12, <1>13, <1>14, <1>15, <1>16
     DEF B!Next, B!Main

-----------------------------------------------------------------------------
(* GaiaCollect *)

Working == {"task", "agent", "trace", "predictions", "summary", "skip"}

\* Who works on the named state directory holds its lock, and an agent outlives
\* only a killed collector.
Held(c) ==
  /\ a_lock = c <=> a_pc[c] \in Working /\ a_named[c]
  /\ a_agent[c] => a_pc[c] \in {"agent", "killed"}

\* How many tasks are behind a collector, in the two reports.
Told(c) ==
  /\ a_pc[c] \in {"agent", "trace", "predictions", "summary", "skip"} => a_index[c] < Planned
  /\ a_pc[c] \in (Working \ {"summary"}) \cup {"lock"} => Len(a_predictions[c]) = a_index[c]
  /\ a_pc[c] = "summary" => Len(a_predictions[c]) = a_index[c] + 1
  /\ a_pc[c] \in {"final", "returned"} => Len(a_predictions[c]) = Planned
  /\ a_pc[c] \in Working \cup {"lock"} => a_summary[c].recorded = a_index[c]
  /\ a_summary[c].complete => a_pc[c] = "returned" /\ a_summary[c].recorded = Planned
  /\ a_summary[c].recorded <= Len(a_predictions[c])
  /\ Len(a_predictions[c]) > a_summary[c].recorded + 1 =>
       \A i \in a_summary[c].recorded + 1 .. Len(a_predictions[c]) :
         a_predictions[c][i] = "skipped_run_budget"

\* Which tasks have a trace: those whose row or status says "success".
Traced(c) ==
  /\ a_pc[c] \in {"lock", "task", "agent", "trace", "skip"} => a_traces[c] \subseteq 1 .. a_index[c]
  /\ a_pc[c] \in {"predictions", "summary"} => a_traces[c] \subseteq 1 .. a_index[c] + 1
  /\ a_pc[c] = "predictions" /\ a_mode[c] = "capture" =>
       (a_status[c] = "success" <=> a_index[c] + 1 \in a_traces[c])
  /\ a_mode[c] = "capture" =>
       \A i \in DOMAIN a_predictions[c] : a_predictions[c][i] = "success" <=> i \in a_traces[c]
  /\ a_mode[c] = "capture" /\ a_summary[c].all_tasks_successful => a_traces[c] = 1 .. Planned

GaiaInv == A!TypeOK /\ \A c \in Collectors : Held(c) /\ Told(c) /\ Traced(c)

\* Nobody has begun in the initial state.
LEMMA NoSummaryTells ==
  /\ A!NoSummary \in A!RunSummaries /\ A!NoSummary.recorded = 0
  /\ ~A!NoSummary.complete /\ ~A!NoSummary.all_tasks_successful
<1>1. 0 \in 0 .. Planned
  BY CollectedTasksConstants
<1> QED BY <1>1, Zenon DEF A!NoSummary, A!RunSummaries

LEMMA GaiaStarts == ComponentsInit => GaiaInv
<1> SUFFICES ASSUME A!Init PROVE GaiaInv
  BY DEF ComponentsInit
<1> USE CollectedTasksConstants, NoSummaryTells DEF A!Init
<1>1. A!TypeOK
  <2>1. <<>> \in Seq(A!Statuses) /\ Len(<<>>) = 0 /\ 0 \in 0 .. Planned /\ 0 <= Planned
    OBVIOUS
  <2>2. "dry_run" \in A!Statuses
    BY DEF A!Statuses
  <2> QED BY <2>1, <2>2, Zenon DEF A!TypeOK
<1>2. ASSUME NEW c \in Collectors PROVE Held(c) /\ Told(c) /\ Traced(c)
  BY <1>2 DEF Held, Told, Traced, Working
<1> QED BY <1>1, <1>2 DEF GaiaInv

\* What build_run_summary says of rows.
LEMMA RunSummaryTells ==
  ASSUME NEW list, NEW complete \in BOOLEAN, Len(list) \in 0 .. Planned
  PROVE  \E told \in A!RunSummaries :
           /\ told = A!RunSummary(list, complete)
           /\ told.recorded = Len(list) /\ (told.complete <=> complete)
           /\ told.all_tasks_successful <=>
                Len(list) = Planned /\ \A i \in DOMAIN list : list[i] = "success"
<1> DEFINE all == Len(list) = Planned /\ \A i \in DOMAIN list : list[i] = "success"
<1>1. all \in BOOLEAN
  OBVIOUS
<1>2. A!RunSummary(list, complete) = [recorded |-> Len(list), all_tasks_successful |-> all, complete |-> complete]
  BY Zenon DEF A!RunSummary
<1> HIDE DEF all
<1> DEFINE told == [recorded |-> Len(list), all_tasks_successful |-> all, complete |-> complete]
<1>3. told \in A!RunSummaries
  BY <1>1, Zenon DEF A!RunSummaries
<1>4. told.recorded = Len(list) /\ (told.complete <=> complete) /\ (told.all_tasks_successful <=> all)
  BY Zenon
<1> QED BY <1>2, <1>3, <1>4, Zenon DEF all

\* What a step of x leaves alone.
GaiaMoves(x) == A!Main(x) \/ A!Fail(x) \/ A!Kill(x) \/ A!OrphanEnds(x)

LEMMA OthersStay ==
  ASSUME GaiaInv, NEW x \in Collectors, GaiaMoves(x), NEW c \in Collectors, c # x
  PROVE  Held(c)' /\ Told(c)' /\ Traced(c)'
<1>1. /\ a_pc'[c] = a_pc[c] /\ a_mode'[c] = a_mode[c]
      /\ a_named'[c] = a_named[c] /\ a_index'[c] = a_index[c]
      /\ a_agent'[c] = a_agent[c] /\ a_traces'[c] = a_traces[c] /\ a_status'[c] = a_status[c]
      /\ a_predictions'[c] = a_predictions[c] /\ a_summary'[c] = a_summary[c]
  <2> USE DEF GaiaInv, A!TypeOK, A!Goto, A!Leave
  <2>1. CASE A!Main(x)
    <3>1. CASE A!WriteSummary(x) \/ A!Final(x)
      BY <3>1, Zenon DEF A!WriteSummary, A!Final
    <3>2. CASE ~(A!WriteSummary(x) \/ A!Final(x))
      BY <2>1, <3>2 DEF A!Main, A!Lock, A!Task, A!AgentEnds, A!Trace, A!WritePredictions, A!Skip
    <3> QED BY <3>1, <3>2
  <2>2. CASE A!Fail(x) \/ A!Kill(x) \/ A!OrphanEnds(x)
    BY <2>2 DEF A!Fail, A!Kill, A!OrphanEnds
  <2> QED BY <2>1, <2>2 DEF GaiaMoves
<1>2. a_lock' = c <=> a_lock = c
  <2>1. CASE A!WriteSummary(x) \/ A!Final(x)
    BY <2>1, Zenon DEF A!WriteSummary, A!Final
  <2>2. CASE A!Lock(x) \/ A!Task(x) \/ A!AgentEnds(x) \/ A!WritePredictions(x)
    BY <2>2, CollectedTasksConstants
       DEF GaiaInv, Held, Working, A!Lock, A!Task, A!AgentEnds, A!WritePredictions, A!Goto, A!Leave
  <2>3. CASE A!Trace(x) \/ A!Skip(x) \/ A!Fail(x) \/ A!Kill(x) \/ A!OrphanEnds(x)
    BY <2>3, CollectedTasksConstants
       DEF GaiaInv, Held, Working, A!Trace, A!Skip, A!Fail, A!Kill, A!OrphanEnds, A!Goto, A!Leave
  <2> QED BY <2>1, <2>2, <2>3 DEF GaiaMoves, A!Main
<1>3. Held(c) /\ Told(c) /\ Traced(c)
  BY DEF GaiaInv
<1> QED BY <1>1, <1>2, <1>3 DEF Held, Told, Traced

\* The rows after Skip.
Filled(x) == a_predictions[x] \o [i \in 1 .. Planned - Len(a_predictions[x]) |-> "skipped_run_budget"]

LEMMA FilledRows ==
  ASSUME GaiaInv, NEW x \in Collectors
  PROVE  /\ Filled(x) \in Seq(A!Statuses) /\ Len(Filled(x)) = Planned
         /\ \A i \in 1 .. Planned :
              Filled(x)[i] = IF i <= Len(a_predictions[x]) THEN a_predictions[x][i] ELSE "skipped_run_budget"
<1> DEFINE rest == [i \in 1 .. Planned - Len(a_predictions[x]) |-> "skipped_run_budget"]
<1>1. Len(a_predictions[x]) \in Nat /\ Planned - Len(a_predictions[x]) \in Nat
  BY CollectedTasksConstants DEF GaiaInv, A!TypeOK
<1>2. "skipped_run_budget" \in A!Statuses
  BY DEF A!Statuses
<1>3. rest \in Seq(A!Statuses) /\ Len(rest) = Planned - Len(a_predictions[x])
  BY <1>1, <1>2
<1>4. a_predictions[x] \in Seq(A!Statuses)
  BY DEF GaiaInv, A!TypeOK
<1> HIDE DEF rest
<1>5. (a_predictions[x] \o rest) \in Seq(A!Statuses) /\ Len(a_predictions[x] \o rest) = Planned
  BY <1>1, <1>3, <1>4, CollectedTasksConstants
<1>6. ASSUME NEW i \in 1 .. Planned
      PROVE  (a_predictions[x] \o rest)[i] =
               IF i <= Len(a_predictions[x]) THEN a_predictions[x][i] ELSE "skipped_run_budget"
  BY <1>1, <1>3, <1>4, <1>6, CollectedTasksConstants DEF rest
<1> QED BY <1>5, <1>6 DEF Filled, rest

\* What the steps that write summary.json leave in it.
AllSucceeded(x) ==
  /\ Len(a_predictions[x]) = Planned
  /\ \A i \in DOMAIN a_predictions[x] : a_predictions[x][i] = "success"
SummaryIs(x, whole) ==
  \E told \in A!RunSummaries :
    /\ a_summary' = [a_summary EXCEPT ![x] = told]
    /\ told.recorded = Len(a_predictions[x]) /\ (told.complete <=> whole)
    /\ told.all_tasks_successful => AllSucceeded(x)

LEMMA AroundSummary ==
  ASSUME NEW x \in Collectors
  PROVE  /\ A!WriteSummary(x) =>
              /\ a_pc[x] = "summary"
              /\ a_index' = [a_index EXCEPT ![x] = @ + 1] /\ a_pc' = [a_pc EXCEPT ![x] = "task"]
              /\ UNCHANGED <<a_mode, a_named, a_lock, a_agent, a_copied, a_traces, a_status, a_predictions>>
         /\ A!Final(x) =>
              /\ a_pc[x] = "final" /\ a_pc' = [a_pc EXCEPT ![x] = "returned"]
              /\ UNCHANGED <<a_mode, a_named, a_index, a_lock, a_agent, a_copied, a_traces, a_status,
                             a_predictions>>
BY Zenon DEF A!WriteSummary, A!Final, A!Goto

LEMMA SummaryWritten ==
  ASSUME GaiaInv, NEW x \in Collectors
  PROVE  (A!WriteSummary(x) => SummaryIs(x, FALSE)) /\ (A!Final(x) => SummaryIs(x, TRUE))
<1>1. Len(a_predictions[x]) \in 0 .. Planned
  BY CollectedTasksConstants DEF GaiaInv, A!TypeOK
<1>2. ASSUME NEW whole \in BOOLEAN,
             a_summary' = [a_summary EXCEPT ![x] = A!RunSummary(a_predictions[x], whole)]
      PROVE  SummaryIs(x, whole)
  <2>1. PICK told \in A!RunSummaries :
          /\ told = A!RunSummary(a_predictions[x], whole)
          /\ told.recorded = Len(a_predictions[x]) /\ (told.complete <=> whole)
          /\ told.all_tasks_successful <=>
               /\ Len(a_predictions[x]) = Planned
               /\ \A i \in DOMAIN a_predictions[x] : a_predictions[x][i] = "success"
    BY <1>1, RunSummaryTells, Zenon
  <2> QED BY <1>2, <2>1, Zenon DEF SummaryIs, AllSucceeded
<1>3. (A!WriteSummary(x) => SummaryIs(x, FALSE)) /\ (A!Final(x) => SummaryIs(x, TRUE))
  BY <1>2, Zenon DEF A!WriteSummary, A!Final
<1> QED BY <1>3

\* The types of what a collector keeps, and of its files.
KeptTypes ==
  /\ a_pc \in [Collectors -> {"lock", "task", "agent", "trace", "predictions", "summary",
                            "skip", "final", "returned", "raised", "killed"}]
  /\ a_mode \in [Collectors -> {"capture", "plain", "dry"}]
  /\ a_named \in [Collectors -> BOOLEAN]
  /\ a_index \in [Collectors -> 0 .. Planned]
  /\ a_lock \in Collectors \cup {NoOne}
  /\ a_agent \in [Collectors -> BOOLEAN] /\ a_copied \in [Collectors -> BOOLEAN]
  /\ a_traces \in [Collectors -> SUBSET (1 .. Planned)]
  /\ a_status \in [Collectors -> A!Statuses]
FileTypes ==
  /\ a_predictions \in [Collectors -> Seq(A!Statuses)]
  /\ \A c \in Collectors : Len(a_predictions[c]) <= Planned
  /\ a_summary \in [Collectors -> A!RunSummaries]

\* Every step keeps the types of what a collector keeps.
LEMMA KeptTypesStep ==
  ASSUME GaiaInv, NEW x \in Collectors, GaiaMoves(x) PROVE KeptTypes'
<1> USE CollectedTasksConstants DEF GaiaInv, A!TypeOK
<1>1. CASE A!Lock(x)
  <2>1. a_pc' \in [Collectors -> {"lock", "task", "agent", "trace", "predictions", "summary",
                               "skip", "final", "returned", "raised", "killed"}]
    BY <1>1 DEF A!Lock, A!Goto
  <2>2. a_lock' \in Collectors \cup {NoOne} /\ UNCHANGED <<a_mode, a_named, a_index>>
    BY <1>1 DEF A!Lock, A!Goto
  <2>3. a_agent' \in [Collectors -> BOOLEAN]
    BY <1>1 DEF A!Lock, A!Goto
  <2>4. a_copied' \in [Collectors -> BOOLEAN]
    BY <1>1 DEF A!Lock, A!Goto
  <2>5. a_traces' \in [Collectors -> SUBSET (1 .. Planned)]
    BY <1>1 DEF A!Lock, A!Goto, Told
  <2>6. a_status' \in [Collectors -> A!Statuses]
    BY <1>1 DEF A!Lock, A!Goto, A!Statuses
  <2> QED BY <2>1, <2>2, <2>3, <2>4, <2>5, <2>6 DEF KeptTypes
<1>2. CASE A!Task(x)
  <2>1. a_pc' \in [Collectors -> {"lock", "task", "agent", "trace", "predictions", "summary",
                               "skip", "final", "returned", "raised", "killed"}]
    BY <1>2 DEF A!Task, A!Goto, A!Leave
  <2>2. a_lock' \in Collectors \cup {NoOne} /\ UNCHANGED <<a_mode, a_named, a_index>>
    BY <1>2 DEF A!Task, A!Goto, A!Leave
  <2>3. a_agent' \in [Collectors -> BOOLEAN]
    BY <1>2 DEF A!Task, A!Goto, A!Leave
  <2>4. a_copied' \in [Collectors -> BOOLEAN]
    BY <1>2 DEF A!Task, A!Goto, A!Leave
  <2>5. a_traces' \in [Collectors -> SUBSET (1 .. Planned)]
    BY <1>2 DEF A!Task, A!Goto, A!Leave, Told
  <2>6. a_status' \in [Collectors -> A!Statuses]
    BY <1>2 DEF A!Task, A!Goto, A!Leave, A!Statuses
  <2> QED BY <2>1, <2>2, <2>3, <2>4, <2>5, <2>6 DEF KeptTypes
<1>3. CASE A!AgentEnds(x)
  <2>1. a_pc' \in [Collectors -> {"lock", "task", "agent", "trace", "predictions", "summary",
                               "skip", "final", "returned", "raised", "killed"}]
    BY <1>3 DEF A!AgentEnds, A!Goto
  <2>2. a_lock' \in Collectors \cup {NoOne} /\ UNCHANGED <<a_mode, a_named, a_index>>
    BY <1>3 DEF A!AgentEnds, A!Goto
  <2>3. a_agent' \in [Collectors -> BOOLEAN]
    BY <1>3 DEF A!AgentEnds, A!Goto
  <2>4. a_copied' \in [Collectors -> BOOLEAN]
    BY <1>3 DEF A!AgentEnds, A!Goto
  <2>5. a_traces' \in [Collectors -> SUBSET (1 .. Planned)]
    BY <1>3 DEF A!AgentEnds, A!Goto, Told
  <2>6. a_status' \in [Collectors -> A!Statuses]
    BY <1>3 DEF A!AgentEnds, A!Goto, A!Statuses
  <2> QED BY <2>1, <2>2, <2>3, <2>4, <2>5, <2>6 DEF KeptTypes
<1>4. CASE A!Trace(x)
  <2>1. a_pc' = [a_pc EXCEPT ![x] = "predictions"] /\ a_copied' = [a_copied EXCEPT ![x] = FALSE]
    BY <1>4, Zenon DEF A!Trace, A!Goto
  <2>2. a_traces' \in {a_traces, [a_traces EXCEPT ![x] = @ \cup {a_index[x] + 1}]}
    BY <1>4, Zenon DEF A!Trace
  <2>3. a_traces' \in [Collectors -> SUBSET (1 .. Planned)]
    <3>1. a_index[x] < Planned
      BY <1>4 DEF A!Trace, Told
    <3>2. a_index[x] + 1 \in 1 .. Planned
      BY <3>1
    <3>3. a_traces[x] \cup {a_index[x] + 1} \in SUBSET (1 .. Planned)
      BY <3>2
    <3> QED BY <2>2, <3>3, Zenon
  <2>4. a_status' \in [Collectors -> A!Statuses]
    BY <1>4 DEF A!Trace, A!Statuses
  <2>5. UNCHANGED <<a_mode, a_named, a_index, a_lock, a_agent>>
    BY <1>4 DEF A!Trace
  <2> QED BY <2>1, <2>2, <2>3, <2>4, <2>5 DEF KeptTypes
<1>5. CASE A!Fail(x)
  BY <1>5 DEF A!Fail, A!Goto, A!Leave, KeptTypes, Told, A!Statuses
<1>6. CASE A!WritePredictions(x)
  BY <1>6 DEF A!WritePredictions, A!Goto, KeptTypes, Told, A!Statuses
<1>7. CASE A!WriteSummary(x)
  <2>1. a_pc' \in [Collectors -> {"lock", "task", "agent", "trace", "predictions", "summary",
                               "skip", "final", "returned", "raised", "killed"}]
    BY <1>7, AroundSummary
  <2>2. a_index' \in [Collectors -> 0 .. Planned]
    <3>1. a_pc[x] = "summary" => a_index[x] < Planned
      BY DEF Told
    <3>2. a_index[x] < Planned => a_index[x] + 1 \in 0 .. Planned
      OBVIOUS
    <3>3. a_index \in [Collectors -> 0 .. Planned]
      OBVIOUS
    <3> QED BY <1>7, <3>1, <3>2, <3>3, AroundSummary, Zenon
  <2>3. UNCHANGED <<a_mode, a_named, a_lock, a_agent, a_copied, a_traces, a_status>>
    BY <1>7, AroundSummary
  <2> QED BY <2>1, <2>2, <2>3 DEF KeptTypes
<1>8. CASE A!Skip(x)
  BY <1>8 DEF A!Skip, A!Goto, A!Leave, KeptTypes, Told, A!Statuses
<1>9. CASE A!Final(x)
  <2>1. a_pc' \in [Collectors -> {"lock", "task", "agent", "trace", "predictions", "summary",
                               "skip", "final", "returned", "raised", "killed"}]
    BY <1>9, AroundSummary
  <2>2. a_index' \in [Collectors -> 0 .. Planned]
    <3>1. a_pc[x] = "summary" => a_index[x] < Planned
      BY DEF Told
    <3>2. a_index[x] < Planned => a_index[x] + 1 \in 0 .. Planned
      OBVIOUS
    <3>3. a_index \in [Collectors -> 0 .. Planned]
      OBVIOUS
    <3> QED BY <1>9, <3>1, <3>2, <3>3, AroundSummary, Zenon
  <2>3. UNCHANGED <<a_mode, a_named, a_lock, a_agent, a_copied, a_traces, a_status>>
    BY <1>9, AroundSummary
  <2> QED BY <2>1, <2>2, <2>3 DEF KeptTypes
<1>10. CASE A!Kill(x)
  BY <1>10 DEF A!Kill, A!Goto, A!Leave, KeptTypes, Told, A!Statuses
<1>11. CASE A!OrphanEnds(x)
  BY <1>11 DEF A!OrphanEnds, KeptTypes, Told, A!Statuses
<1> QED
  BY <1>1, <1>2, <1>3, <1>4, <1>5, <1>6, <1>7, <1>8, <1>9, <1>10, <1>11
     DEF GaiaMoves, A!Main

\* Every step keeps the types of its files.
LEMMA FileTypesStep ==
  ASSUME GaiaInv, NEW x \in Collectors, GaiaMoves(x) PROVE FileTypes'
<1> USE CollectedTasksConstants DEF GaiaInv, A!TypeOK, Told, FileTypes
<1>1. CASE A!Lock(x)
  BY <1>1 DEF A!Lock, A!Goto
<1>2. CASE A!Task(x)
  BY <1>2 DEF A!Task, A!Goto, A!Leave
<1>3. CASE A!AgentEnds(x)
  BY <1>3 DEF A!AgentEnds, A!Goto
<1>4. CASE A!Trace(x)
  BY <1>4 DEF A!Trace, A!Goto
<1>5. CASE A!Fail(x)
  BY <1>5 DEF A!Fail, A!Goto, A!Leave
<1>6. CASE A!WritePredictions(x)
  <2>1. Append(a_predictions[x], a_status[x]) \in Seq(A!Statuses)
        /\ Len(Append(a_predictions[x], a_status[x])) = Len(a_predictions[x]) + 1
    OBVIOUS
  <2>2. a_predictions' = [a_predictions EXCEPT ![x] = Append(@, a_status[x])] /\ UNCHANGED a_summary
    BY <1>6 DEF A!WritePredictions
  <2>3. Len(a_predictions[x]) + 1 <= Planned
    BY <1>6 DEF A!WritePredictions, Working
  <2> QED BY <2>1, <2>2, <2>3
<1>7. CASE A!WriteSummary(x)
  <2>1. UNCHANGED a_predictions /\ SummaryIs(x, FALSE)
    BY <1>7, AroundSummary, SummaryWritten, Zenon
  <2>2. PICK told \in A!RunSummaries : a_summary' = [a_summary EXCEPT ![x] = told]
    BY <2>1, Zenon DEF SummaryIs
  <2> QED BY <2>1, <2>2
<1>8. CASE A!Skip(x)
  <2>1. a_predictions' = [a_predictions EXCEPT ![x] = Filled(x)] /\ UNCHANGED a_summary
    BY <1>8, Zenon DEF A!Skip, Filled
  <2> QED BY <2>1, FilledRows, <1>8 DEF A!Skip
<1>9. CASE A!Final(x)
  <2>1. UNCHANGED a_predictions /\ SummaryIs(x, TRUE)
    BY <1>9, AroundSummary, SummaryWritten, Zenon
  <2>2. PICK told \in A!RunSummaries : a_summary' = [a_summary EXCEPT ![x] = told]
    BY <2>1, Zenon DEF SummaryIs
  <2> QED BY <2>1, <2>2
<1>10. CASE A!Kill(x)
  BY <1>10 DEF A!Kill, A!Goto, A!Leave
<1>11. CASE A!OrphanEnds(x)
  BY <1>11 DEF A!OrphanEnds
<1> QED
  BY <1>1, <1>2, <1>3, <1>4, <1>5, <1>6, <1>7, <1>8, <1>9, <1>10, <1>11
     DEF GaiaMoves, A!Main

\* A step of x leaves the lock with who works.
LEMMA HeldStep ==
  ASSUME GaiaInv, NEW x \in Collectors, GaiaMoves(x) PROVE Held(x)'
<1> USE CollectedTasksConstants DEF GaiaInv, A!TypeOK, Held, Working
<1>1. CASE A!Lock(x)
  BY <1>1 DEF A!Lock, A!Goto
<1>2. CASE A!Task(x)
  <2>1. a_pc[x] = "task" /\ UNCHANGED a_named
    BY <1>2 DEF A!Task
  <2>2. CASE A!Leave(x, "final") /\ UNCHANGED a_agent
    BY <2>1, <2>2 DEF A!Leave, A!Goto
  <2>3. CASE (A!Goto(x, "skip") \/ A!Goto(x, "predictions")) /\ UNCHANGED <<a_agent, a_lock>>
    BY <2>1, <2>3 DEF A!Goto
  <2>4. CASE A!Goto(x, "agent") /\ UNCHANGED a_lock /\ a_agent' = [a_agent EXCEPT ![x] = TRUE]
    BY <2>1, <2>4 DEF A!Goto
  <2> QED BY <1>2, <2>2, <2>3, <2>4, Zenon DEF A!Task
<1>3. CASE A!AgentEnds(x)
  BY <1>3 DEF A!AgentEnds, A!Goto
<1>4. CASE A!Trace(x)
  BY <1>4 DEF A!Trace, A!Goto
<1>5. CASE A!Fail(x)
  BY <1>5 DEF A!Fail, A!Goto, A!Leave
<1>6. CASE A!WritePredictions(x)
  BY <1>6 DEF A!WritePredictions, A!Goto
<1>7. CASE A!WriteSummary(x)
  BY <1>7, AroundSummary
<1>8. CASE A!Skip(x)
  BY <1>8 DEF A!Skip, A!Goto, A!Leave
<1>9. CASE A!Final(x)
  BY <1>9, AroundSummary
<1>10. CASE A!Kill(x)
  BY <1>10 DEF A!Kill, A!Goto, A!Leave
<1>11. CASE A!OrphanEnds(x)
  BY <1>11 DEF A!OrphanEnds
<1> QED
  BY <1>1, <1>2, <1>3, <1>4, <1>5, <1>6, <1>7, <1>8, <1>9, <1>10, <1>11
     DEF GaiaMoves, A!Main

\* A step of x leaves reports that agree.
LEMMA ToldStep ==
  ASSUME GaiaInv, NEW x \in Collectors, GaiaMoves(x) PROVE Told(x)'
<1> USE CollectedTasksConstants DEF GaiaInv, A!TypeOK, Told, Working
<1>1. CASE A!Lock(x)
  BY <1>1 DEF A!Lock, A!Goto
<1>2. CASE A!Task(x)
  BY <1>2 DEF A!Task, A!Goto, A!Leave
<1>3. CASE A!AgentEnds(x)
  BY <1>3 DEF A!AgentEnds, A!Goto
<1>4. CASE A!Trace(x)
  BY <1>4 DEF A!Trace, A!Goto
<1>5. CASE A!Fail(x)
  BY <1>5 DEF A!Fail, A!Goto, A!Leave
<1>6. CASE A!WritePredictions(x)
  BY <1>6 DEF A!WritePredictions, A!Goto
<1>7. CASE A!WriteSummary(x)
  <2>1. SummaryIs(x, FALSE)
    BY <1>7, SummaryWritten, Zenon
  <2>2. PICK told \in A!RunSummaries :
          /\ a_summary' = [a_summary EXCEPT ![x] = told]
          /\ told.recorded = Len(a_predictions[x]) /\ (told.complete <=> FALSE)
    BY <2>1, Zenon DEF SummaryIs
  <2> QED BY <1>7, <2>2, AroundSummary
<1>8. CASE A!Skip(x)
  BY <1>8 DEF A!Skip, A!Goto, A!Leave
<1>9. CASE A!Final(x)
  <2>1. SummaryIs(x, TRUE)
    BY <1>9, SummaryWritten, Zenon
  <2>2. PICK told \in A!RunSummaries :
          /\ a_summary' = [a_summary EXCEPT ![x] = told]
          /\ told.recorded = Len(a_predictions[x]) /\ (told.complete <=> TRUE)
    BY <2>1, Zenon DEF SummaryIs
  <2> QED BY <1>9, <2>2, AroundSummary
<1>10. CASE A!Kill(x)
  BY <1>10 DEF A!Kill, A!Goto, A!Leave
<1>11. CASE A!OrphanEnds(x)
  BY <1>11 DEF A!OrphanEnds
<1> QED
  BY <1>1, <1>2, <1>3, <1>4, <1>5, <1>6, <1>7, <1>8, <1>9, <1>10, <1>11
     DEF GaiaMoves, A!Main

\* A step of x leaves traces the reports tell of.
LEMMA TracedStep ==
  ASSUME GaiaInv, NEW x \in Collectors, GaiaMoves(x) PROVE Traced(x)'
<1> USE CollectedTasksConstants DEF GaiaInv, A!TypeOK, Told, Traced, Working
<1>1. CASE A!Lock(x)
  BY <1>1 DEF A!Lock, A!Goto
<1>2. CASE A!Task(x)
  BY <1>2 DEF A!Task, A!Goto, A!Leave
<1>3. CASE A!AgentEnds(x)
  BY <1>3 DEF A!AgentEnds, A!Goto
<1>4. CASE A!Trace(x)
  BY <1>4 DEF A!Trace, A!Goto
<1>5. CASE A!Fail(x)
  BY <1>5 DEF A!Fail, A!Goto, A!Leave
<1>6. CASE A!WritePredictions(x)
  BY <1>6 DEF A!WritePredictions, A!Goto
<1>7. CASE A!WriteSummary(x)
  <2>1. SummaryIs(x, FALSE)
    BY <1>7, SummaryWritten, Zenon
  <2>2. PICK told \in A!RunSummaries :
          /\ a_summary' = [a_summary EXCEPT ![x] = told]
          /\ told.all_tasks_successful => AllSucceeded(x)
    BY <2>1, Zenon DEF SummaryIs
  <2>3. a_mode[x] = "capture" /\ AllSucceeded(x) => a_traces[x] = 1 .. Planned
    <3> SUFFICES ASSUME a_mode[x] = "capture", AllSucceeded(x) PROVE a_traces[x] = 1 .. Planned
      OBVIOUS
    <3>0. DOMAIN a_predictions[x] = 1 .. Planned
      <4>1. a_predictions[x] \in Seq(A!Statuses)
        OBVIOUS
      <4> QED BY <4>1 DEF AllSucceeded
    <3>1. \A i \in 1 .. Planned : i \in a_traces[x]
      BY <3>0, Zenon DEF AllSucceeded, Traced, GaiaInv
    <3> QED BY <3>1
  <2>4. a_mode[x] = "capture" /\ a_summary'[x].all_tasks_successful => a_traces[x] = 1 .. Planned
    BY <2>2, <2>3
  <2> QED BY <1>7, <2>4, AroundSummary
<1>8. CASE A!Skip(x)
  BY <1>8 DEF A!Skip, A!Goto, A!Leave
<1>9. CASE A!Final(x)
  <2>1. SummaryIs(x, TRUE)
    BY <1>9, SummaryWritten, Zenon
  <2>2. PICK told \in A!RunSummaries :
          /\ a_summary' = [a_summary EXCEPT ![x] = told]
          /\ told.all_tasks_successful => AllSucceeded(x)
    BY <2>1, Zenon DEF SummaryIs
  <2>3. a_mode[x] = "capture" /\ AllSucceeded(x) => a_traces[x] = 1 .. Planned
    <3> SUFFICES ASSUME a_mode[x] = "capture", AllSucceeded(x) PROVE a_traces[x] = 1 .. Planned
      OBVIOUS
    <3>0. DOMAIN a_predictions[x] = 1 .. Planned
      <4>1. a_predictions[x] \in Seq(A!Statuses)
        OBVIOUS
      <4> QED BY <4>1 DEF AllSucceeded
    <3>1. \A i \in 1 .. Planned : i \in a_traces[x]
      BY <3>0, Zenon DEF AllSucceeded, Traced, GaiaInv
    <3> QED BY <3>1
  <2>4. a_mode[x] = "capture" /\ a_summary'[x].all_tasks_successful => a_traces[x] = 1 .. Planned
    BY <2>2, <2>3
  <2> QED BY <1>9, <2>4, AroundSummary
<1>10. CASE A!Kill(x)
  BY <1>10 DEF A!Kill, A!Goto, A!Leave
<1>11. CASE A!OrphanEnds(x)
  BY <1>11 DEF A!OrphanEnds
<1> QED
  BY <1>1, <1>2, <1>3, <1>4, <1>5, <1>6, <1>7, <1>8, <1>9, <1>10, <1>11
     DEF GaiaMoves, A!Main

\* Every step of a collector or its orphaned agent keeps the invariant.
LEMMA GaiaSteps == ASSUME GaiaInv, [A!Next]_aVars PROVE GaiaInv'
<1>1. ASSUME NEW x \in Collectors, GaiaMoves(x) PROVE GaiaInv'
  <2>1. A!TypeOK'
    BY <1>1, KeptTypesStep, FileTypesStep, Zenon DEF KeptTypes, FileTypes, A!TypeOK
  <2>2. \A c \in Collectors : (Held(c) /\ Told(c) /\ Traced(c))'
    BY <1>1, OthersStay, HeldStep, ToldStep, TracedStep, Zenon
  <2> QED BY <2>1, <2>2 DEF GaiaInv
<1>2. CASE UNCHANGED aVars
  BY <1>2 DEF aVars, GaiaInv, A!TypeOK, Held, Told, Traced
<1> QED BY <1>1, <1>2 DEF A!Next, GaiaMoves

-----------------------------------------------------------------------------
\* The reports of a GAIA collector agree with each other and with its traces
\* wherever an error or a kill stops it, one agent at a time works on a state
\* directory that collectors name, and deadlines, Ctrl-C and full disks leave no
\* recorded SWE-bench task that its trace belies and, but for a file cut short,
\* no row missing (both collect_traces.py).
THEOREM CollectionsDoAgree == ComponentsSpec => []CollectionsAgree
<1>1. [ComponentsNext]_allVars => [A!Next]_aVars /\ [B!Next]_bVars
  BY DEF ComponentsNext, allVars, GatewayStep, SandboxStep, PackStep, GaiaStep, SweStep,
     RoutingStep, SweepStep, ImagesStep, DiagnosticsStep, aVars, bVars
<1>2. GaiaInv /\ SweInv /\ [ComponentsNext]_allVars => (GaiaInv /\ SweInv)'
  BY <1>1, GaiaSteps, SweTypeStep, SweTasksStep, SweTracesStep, SweRowsStep, SweResultStep
     DEF SweInv
<1>3. GaiaInv => A!ReportsAgree
  <2> SUFFICES ASSUME GaiaInv, NEW c \in Collectors
               PROVE  LET s == a_summary[c]  list == a_predictions[c] IN
                      /\ s.recorded <= Len(list)
                      /\ Len(list) > s.recorded + 1 =>
                            \A i \in s.recorded + 1 .. Len(list) : list[i] = "skipped_run_budget"
                      /\ s.complete => Len(list) = Planned /\ s.recorded = Planned
                      /\ s.all_tasks_successful /\ a_mode[c] = "capture" => a_traces[c] = 1 .. Planned
                      /\ \A i \in DOMAIN list :
                           a_mode[c] = "capture" => (list[i] = "success" <=> i \in a_traces[c])
    BY DEF A!ReportsAgree
  <2>1. Told(c) /\ Traced(c)
    BY DEF GaiaInv
  <2> QED BY <2>1 DEF Told, Traced
<1>4. GaiaInv => A!OneAgent
  BY DEF GaiaInv, Held, Working, A!OneAgent
<1>5. SweInv => B!DeadlinesLoseNothing
  BY DEF SweInv, SweTasks, SweTraces, SweRows, SweResult, B!DeadlinesLoseNothing
<1> QED
  BY GaiaStarts, SweStarts, <1>2, <1>3, <1>4, <1>5, PTL DEF ComponentsSpec, CollectionsAgree

-----------------------------------------------------------------------------
(* Gateway *)

\* What holds of a replay r: nothing runs before setup() has leased a port, the
\* lease lasts as long as the gateway does, and close() lets go of one thing
\* after the other.
Unleased(r) == g_pc[r] \in {"new", "free", "lock", "spawn"} => g_gateway[r] = "none"
Chosen(r) == g_pc[r] = "lock" => g_port[r] \in Ports
Counted(r) == g_pc[r] = "sleep" => g_tries[r] < Polls
Leased(r) == g_pc[r] \in G!Setup => g_port[r] \in Ports /\ g_lease[g_port[r]] = r
Covered(r) ==
  G!Running(r) => /\ g_port[r] \in Ports
                  /\ G!Live(r) => g_lease[g_port[r]] = r /\ g_pc[r] \notin {"reap", "closed"}
Listens(r) == \A q \in Ports : g_bound[q] = r => g_gateway[r] = "up"
LetGo(r) ==
  /\ g_pc[r] \in {"terminate", "grace", "reap", "closed"} => ~g_client[r]
  /\ g_pc[r] = "closed" => ~g_logs[r] /\ \A q \in Ports : g_lease[q] # r

GatewayInv(r) ==
  /\ Unleased(r) /\ Chosen(r) /\ Counted(r) /\ Leased(r)
  /\ Covered(r) /\ Listens(r) /\ LetGo(r)
GatewaysInv == G!TypeOK /\ \A r \in Leasers : GatewayInv(r)

\* A step of x, its gateway's included.
GatewayMoves(x) ==
  \/ G!Executor(x) \/ G!Call(x) \/ G!Answer(x) \/ G!Cancel(x) \/ G!CloseCut(x)
  \/ G!ProcessEnds(x) \/ G!Bind(x) \/ G!GatewayExits(x)

\* Nobody holds or runs anything in the initial state.
LEMMA GatewayInit == ComponentsInit => GatewaysInv
<1> SUFFICES ASSUME G!Init PROVE GatewaysInv
  BY DEF ComponentsInit
<1>1. G!TypeOK
  BY ReplayNodeConstants, ComponentsConstants DEF G!Init, G!TypeOK, G!Setup, G!Closing
<1>2. ASSUME NEW r \in Leasers PROVE GatewayInv(r)
  BY <1>2, ReplayNodeConstants, ComponentsConstants DEF G!Init, GatewayInv, Unleased, Chosen,
     Counted, Leased, Covered, Listens, LetGo, G!Setup, G!Running, G!Live
<1> QED BY <1>1, <1>2 DEF GatewaysInv

\* Every step keeps the types.
LEMMA GatewayTypes == ASSUME GatewaysInv, [G!Next]_gVars PROVE G!TypeOK'
<1> USE ReplayNodeConstants, ComponentsConstants DEF GatewaysInv, G!TypeOK, G!Setup, G!Closing
<1>1. ASSUME NEW x \in Leasers, G!Begin(x) PROVE G!TypeOK'
  BY <1>1 DEF G!Begin, G!Goto
<1>2. ASSUME NEW x \in Leasers, G!FreePort(x) PROVE G!TypeOK'
  BY <1>2 DEF G!FreePort, G!Goto
<1>3. ASSUME NEW x \in Leasers, G!LockPort(x) PROVE G!TypeOK'
  <2>1. G!LockPort(x) /\ g_port[x] \in Ports
    BY <1>3 DEF G!LockPort, GatewayInv, Chosen
  <2>2. CASE g_lease[g_port[x]] = None
    <3>1. /\ g_lease' = [g_lease EXCEPT ![g_port[x]] = x] /\ g_logs' = [g_logs EXCEPT ![x] = TRUE]
          /\ g_pc' = [g_pc EXCEPT ![x] = "spawn"]
          /\ UNCHANGED <<g_port, g_tries, g_client, g_bound, g_gateway>>
      BY <2>1, <2>2 DEF G!LockPort, G!Goto
    <3>2. g_lease' \in [Ports -> Leasers \cup {None}]
      BY <2>1, <3>1
    <3> QED BY <3>1, <3>2
  <2>3. CASE g_lease[g_port[x]] # None
    BY <2>1, <2>3 DEF G!LockPort, G!Goto
  <2> QED BY <2>2, <2>3
<1>4. ASSUME NEW x \in Leasers, G!Spawn(x) PROVE G!TypeOK'
  BY <1>4 DEF G!Spawn, G!Goto
<1>5. ASSUME NEW x \in Leasers, G!Health(x) \/ G!Probe(x) PROVE G!TypeOK'
  BY <1>5 DEF G!Health, G!Probe, G!Goto
<1>6. ASSUME NEW x \in Leasers, G!Sleep(x) PROVE G!TypeOK'
  BY <1>6 DEF G!Sleep, G!Goto, GatewayInv, Counted
<1>7. ASSUME NEW x \in Leasers, G!Call(x) \/ G!Answer(x) \/ G!Cancel(x) \/ G!CloseCut(x) PROVE G!TypeOK'
  BY <1>7 DEF G!Call, G!Answer, G!Cancel, G!CloseCut, G!Goto
<1>8. ASSUME NEW x \in Leasers, G!Close(x) \/ G!CloseClient(x) PROVE G!TypeOK'
  BY <1>8 DEF G!Close, G!CloseClient, G!Goto
<1>9. ASSUME NEW x \in Leasers, G!Terminate(x) PROVE G!TypeOK'
  <2>1. CASE G!Running(x)
    BY <1>9, <2>1 DEF G!Terminate, G!Goto
  <2>2. CASE ~G!Running(x)
    <3>1. g_lease' \in [Ports -> Leasers \cup {None}]
      BY <1>9, <2>2 DEF G!Terminate, G!Release, G!Free
    <3>2. /\ g_pc' = [g_pc EXCEPT ![x] = "closed"] /\ g_logs' = [g_logs EXCEPT ![x] = FALSE]
          /\ UNCHANGED <<g_port, g_tries, g_client, g_bound, g_gateway>>
      BY <1>9, <2>2 DEF G!Terminate, G!Release, G!Goto
    <3> QED BY <3>1, <3>2
  <2> QED BY <2>1, <2>2
<1>10. ASSUME NEW x \in Leasers, G!GraceEnds(x) PROVE G!TypeOK'
  BY <1>10 DEF G!GraceEnds, G!Release, G!Goto, G!Free
<1>11. ASSUME NEW x \in Leasers, G!Reap(x) PROVE G!TypeOK'
  BY <1>11 DEF G!Reap, G!Release, G!Goto, G!Free
<1>12. ASSUME NEW x \in Leasers, G!ProcessEnds(x) PROVE G!TypeOK'
  BY <1>12 DEF G!ProcessEnds, G!Goto, G!Free
<1>13. ASSUME NEW x \in Leasers, G!Bind(x) \/ G!GatewayExits(x) PROVE G!TypeOK'
  BY <1>13 DEF G!Bind, G!GatewayExits, G!Free, G!Running, GatewayInv, Covered
<1>14. ASSUME NEW q \in Ports, G!OtherListens(q) PROVE G!TypeOK'
  BY <1>14 DEF G!OtherListens
<1>15. CASE UNCHANGED gVars
  BY <1>15 DEF gVars
<1> QED
  BY <1>1, <1>2, <1>3, <1>4, <1>5, <1>6, <1>7, <1>8, <1>9, <1>10, <1>11, <1>12, <1>13, <1>14,
     <1>15 DEF G!Next, G!Executor

\* A step of x keeps what holds of x.
LEMMA GatewayOwnStep == ASSUME GatewaysInv, NEW x \in Leasers, GatewayMoves(x) PROVE GatewayInv(x)'
<1> USE ReplayNodeConstants, ComponentsConstants DEF GatewaysInv, G!TypeOK, GatewayInv,
    Unleased, Chosen, Counted, Leased, Covered, Listens, LetGo, G!Setup, G!Closing, G!Running,
    G!Live, G!Goto
<1>1. CASE G!Begin(x) \/ G!FreePort(x)
  BY <1>1 DEF G!Begin, G!FreePort
<1>2. CASE G!LockPort(x)
  BY <1>2 DEF G!LockPort
<1>3. CASE G!Spawn(x)
  BY <1>3 DEF G!Spawn
<1>4. CASE G!Health(x) \/ G!Sleep(x) \/ G!Probe(x)
  BY <1>4 DEF G!Health, G!Sleep, G!Probe
<1>5. CASE G!Call(x) \/ G!Answer(x) \/ G!Cancel(x) \/ G!CloseCut(x)
  BY <1>5 DEF G!Call, G!Answer, G!Cancel, G!CloseCut
<1>6. CASE G!Close(x) \/ G!CloseClient(x)
  BY <1>6 DEF G!Close, G!CloseClient
<1>7. CASE G!Terminate(x)
  BY <1>7 DEF G!Terminate, G!Release, G!Free
<1>8. CASE G!GraceEnds(x)
  BY <1>8 DEF G!GraceEnds, G!Release, G!Free
<1>9. CASE G!Reap(x)
  BY <1>9 DEF G!Reap, G!Release, G!Free
<1>10. CASE G!ProcessEnds(x)
  BY <1>10 DEF G!ProcessEnds, G!Free
<1>11. CASE G!Bind(x)
  BY <1>11 DEF G!Bind
<1>12. CASE G!GatewayExits(x)
  BY <1>12 DEF G!GatewayExits, G!Free
<1> QED
  BY <1>1, <1>2, <1>3, <1>4, <1>5, <1>6, <1>7, <1>8, <1>9, <1>10, <1>11, <1>12 DEF GatewayMoves,
     G!Executor

\* A step of x leaves another replay's coroutine, gateway, lease and port alone.
LEMMA GatewayOthersStep ==
  ASSUME GatewaysInv, NEW x \in Leasers, NEW r \in Leasers, r # x, GatewayMoves(x) PROVE GatewayInv(r)'
<1> USE ReplayNodeConstants, ComponentsConstants DEF GatewaysInv, G!TypeOK, G!Setup, G!Closing,
    G!Running, G!Goto, G!Release, G!Free
<1>1. /\ g_pc'[r] = g_pc[r] /\ g_port'[r] = g_port[r] /\ g_client'[r] = g_client[r]
      /\ g_logs'[r] = g_logs[r] /\ g_tries'[r] = g_tries[r] /\ g_gateway'[r] = g_gateway[r]
  <2>1. CASE G!Executor(x)
    BY <2>1 DEF G!Executor, G!Begin, G!FreePort, G!LockPort, G!Spawn, G!Health, G!Sleep,
       G!Probe, G!Close, G!CloseClient, G!Terminate, G!GraceEnds, G!Reap
  <2>2. CASE G!Call(x) \/ G!Answer(x) \/ G!Cancel(x) \/ G!CloseCut(x) \/ G!ProcessEnds(x) \/ G!Bind(x)
             \/ G!GatewayExits(x)
    BY <2>2 DEF G!Call, G!Answer, G!Cancel, G!CloseCut, G!ProcessEnds, G!Bind, G!GatewayExits
  <2> QED BY <2>1, <2>2 DEF GatewayMoves
<1>2. \A q \in Ports : (g_lease[q] = r) <=> (g_lease'[q] = r)
  <2>1. CASE G!Executor(x)
    BY <2>1 DEF G!Executor, G!Begin, G!FreePort, G!LockPort, G!Spawn, G!Health, G!Sleep,
       G!Probe, G!Close, G!CloseClient, G!Terminate, G!GraceEnds, G!Reap, GatewayInv, Chosen
  <2>2. CASE G!Call(x) \/ G!Answer(x) \/ G!Cancel(x) \/ G!CloseCut(x) \/ G!ProcessEnds(x) \/ G!Bind(x)
             \/ G!GatewayExits(x)
    BY <2>2 DEF G!Call, G!Answer, G!Cancel, G!CloseCut, G!ProcessEnds, G!Bind, G!GatewayExits
  <2> QED BY <2>1, <2>2 DEF GatewayMoves
<1>3. \A q \in Ports : g_bound'[q] = r => g_bound[q] = r
  <2>1. CASE G!Executor(x)
    BY <2>1 DEF G!Executor, G!Begin, G!FreePort, G!LockPort, G!Spawn, G!Health, G!Sleep,
       G!Probe, G!Close, G!CloseClient, G!Terminate, G!GraceEnds, G!Reap
  <2>2. CASE G!Call(x) \/ G!Answer(x) \/ G!Cancel(x) \/ G!CloseCut(x) \/ G!ProcessEnds(x) \/ G!Bind(x)
             \/ G!GatewayExits(x)
    BY <2>2 DEF G!Call, G!Answer, G!Cancel, G!CloseCut, G!ProcessEnds, G!Bind, G!GatewayExits,
       GatewayInv, Covered
  <2> QED BY <2>1, <2>2 DEF GatewayMoves
<1> QED
  BY <1>1, <1>2, <1>3 DEF GatewayInv, Unleased, Chosen, Counted, Leased, Covered, Listens,
     LetGo, G!Live

LEMMA GatewayStepInv == ASSUME GatewaysInv, [G!Next]_gVars PROVE GatewaysInv'
<1>1. ASSUME NEW r \in Leasers PROVE GatewayInv(r)'
  <2>1. ASSUME NEW x \in Leasers, GatewayMoves(x) PROVE GatewayInv(r)'
    BY <1>1, <2>1, GatewayOwnStep, GatewayOthersStep
  <2>2. ASSUME NEW q \in Ports, G!OtherListens(q) PROVE GatewayInv(r)'
    BY <1>1, <2>2, ReplayNodeConstants, ComponentsConstants DEF G!OtherListens, GatewaysInv,
       G!TypeOK, GatewayInv, Unleased, Chosen, Counted, Leased, Covered, Listens, LetGo,
       G!Running, G!Live
  <2>3. CASE UNCHANGED gVars
    BY <1>1, <2>3 DEF gVars, GatewaysInv, GatewayInv, Unleased, Chosen, Counted, Leased,
       Covered, Listens, LetGo, G!Running, G!Live
  <2> QED BY <2>1, <2>2, <2>3 DEF G!Next, GatewayMoves
<1> QED BY <1>1, GatewayTypes DEF GatewaysInv

\* The invariant holds in every reachable state (adapters/openclaw.py).
THEOREM GatewayInvariance == ComponentsSpec => []GatewaysInv
<1>1. [ComponentsNext]_allVars => [G!Next]_gVars
  BY DEF ComponentsNext, allVars, GatewayStep, SandboxStep, PackStep, GaiaStep, SweStep,
     RoutingStep, SweepStep, ImagesStep, DiagnosticsStep, gVars
<1>2. GatewaysInv /\ [ComponentsNext]_allVars => GatewaysInv'
  BY <1>1, GatewayStepInv
<1> QED BY GatewayInit, <1>2, PTL DEF ComponentsSpec

\* Type correctness of the gateways' executors.
THEOREM GatewaysTyped == ComponentsSpec => []G!TypeOK
<1>1. GatewaysInv => G!TypeOK
  BY DEF GatewaysInv
<1> QED BY GatewayInvariance, <1>1, PTL

\* Live replays never run gateways for one port, and a close() that returned
\* leaves nothing behind, for any number of replays and ports.
THEOREM GatewaysStayApart == ComponentsSpec => []GatewaysApart
<1>1. GatewaysInv => G!NoSharedPort
  <2> SUFFICES ASSUME GatewaysInv, NEW r \in Leasers, NEW s \in Leasers, r # s, G!Live(r), G!Live(s),
                      G!Running(r), G!Running(s)
               PROVE g_port[r] # g_port[s]
    BY DEF G!NoSharedPort
  <2> QED BY DEF GatewaysInv, GatewayInv, Covered
<1>2. GatewaysInv => G!ClosedIsClean
  <2> SUFFICES ASSUME GatewaysInv, NEW r \in Leasers, g_pc[r] = "closed"
               PROVE /\ ~G!Running(r) /\ ~g_client[r] /\ ~g_logs[r]
                     /\ \A q \in Ports : g_lease[q] # r /\ g_bound[q] # r
    BY DEF G!ClosedIsClean
  <2> QED BY DEF GatewaysInv, GatewayInv, Covered, Listens, LetGo, G!Running, G!Live
<1> QED BY GatewayInvariance, <1>1, <1>2, PTL DEF GatewaysApart, G!GatewaysApart

-----------------------------------------------------------------------------
(* Sandbox *)

\* A builder holds a slot of its own if builds are limited.
Slotted(r) == Limit > 0 /\ s_build[r] = "building" => \E s \in S!Slots : s_slot[s] = r

\* What the executor's environment says of the sandbox: before the build has
\* ended there is none; a live executor knows of none only if there is none, and
\* close() starts from the environment it knows.
Built(r) == s_build[r] # "ended" => s_environment[r] = "unset" /\ ~s_sandbox[r]
Known(r) == s_pc[r] # "gone" /\ s_environment[r] = "unset" => ~s_sandbox[r]
Cleans(r) ==
  /\ s_cleanup[r] => s_pc[r] \in {"closing", "aborted"} /\ s_environment[r] = "set"
  /\ s_pc[r] = "closing" => s_cleanup[r]
  /\ s_pc[r] = "closed" => s_environment[r] # "set"
  /\ s_pc[r] = "new" => s_build[r] = "none"
  /\ s_pc[r] = "setup" => s_environment[r] = "unset"

SandboxInv(r) == Slotted(r) /\ Built(r) /\ Known(r) /\ Cleans(r)
SandboxesInv == S!TypeOK /\ \A r \in Replays : SandboxInv(r)

\* A step of x, its threads included.
SandboxMoves(x) ==
  \/ S!Setup(x) \/ S!Thread(x) \/ S!Call(x) \/ S!CommandEnds(x) \/ S!Cancel(x) \/ S!Close(x)
  \/ S!CleanupEnds(x) \/ S!CloseCancelled(x) \/ S!Exit(x) \/ S!Kill(x)

LEMMA SandboxInit == ComponentsInit => SandboxesInv
<1> SUFFICES ASSUME S!Init PROVE SandboxesInv
  BY DEF ComponentsInit
<1>1. S!TypeOK
  BY ReplayNodeConstants DEF S!Init, S!TypeOK, S!Slots
<1>2. ASSUME NEW r \in Replays PROVE SandboxInv(r)
  BY <1>2 DEF S!Init, SandboxInv, Slotted, Built, Known, Cleans
<1> QED BY <1>1, <1>2 DEF SandboxesInv

\* The slot a scan tries is a slot.
LEMMA TriedSlot ==
  ASSUME S!TypeOK, NEW x \in Replays, s_offset[x] < Limit
  PROVE  (Start[x] + s_offset[x]) % Limit \in S!Slots
<1>1. Limit \in Nat /\ Limit > 0 /\ Start[x] + s_offset[x] \in Nat
  BY ReplayNodeConstants DEF S!TypeOK
<1> QED BY <1>1 DEF S!Slots

\* What a step does to the slots: x takes a free one, gives its own back, or
\* leaves them alone.
LEMMA SlotStep ==
  ASSUME SandboxesInv, NEW x \in Replays, SandboxMoves(x)
  PROVE  /\ s_slot' \in [S!Slots -> Replays \cup {None}]
         /\ \A s \in S!Slots, r \in Replays \ {x} : s_slot'[s] = r <=> s_slot[s] = r
<1> USE ReplayNodeConstants DEF SandboxesInv, S!TypeOK, S!FreeSlots
<1>1. CASE S!TrySlot(x)
  BY <1>1, TriedSlot DEF S!TrySlot
<1>2. CASE S!BuildEnds(x) \/ S!Kill(x)
  BY <1>2 DEF S!BuildEnds, S!Kill
<1>3. CASE UNCHANGED s_slot
  BY <1>3
<1> QED
  BY <1>1, <1>2, <1>3 DEF SandboxMoves, S!Thread, S!Setup, S!Pause, S!Call, S!CommandEnds,
     S!Cancel, S!Close, S!CleanupEnds, S!CloseCancelled, S!Exit

\* Every step keeps the types.
LEMMA SandboxTypes == ASSUME SandboxesInv, [S!Next]_sVars PROVE S!TypeOK'
<1> USE ReplayNodeConstants DEF SandboxesInv, S!TypeOK, S!Goto
<1>1. ASSUME NEW x \in Replays, S!Setup(x) PROVE S!TypeOK'
  BY <1>1 DEF S!Setup
<1>2. ASSUME NEW x \in Replays, S!TrySlot(x) PROVE S!TypeOK'
  <2>1. s_slot' \in [S!Slots -> Replays \cup {None}]
    BY <1>2, SlotStep DEF SandboxMoves, S!Thread
  <2> QED BY <1>2, <2>1 DEF S!TrySlot
<1>3. ASSUME NEW x \in Replays, S!Pause(x) PROVE S!TypeOK'
  BY <1>3 DEF S!Pause
<1>4. ASSUME NEW x \in Replays, S!BuildEnds(x) PROVE S!TypeOK'
  <2>1. s_slot' \in [S!Slots -> Replays \cup {None}]
    BY <1>4, SlotStep DEF SandboxMoves, S!Thread
  <2> QED BY <1>4, <2>1 DEF S!BuildEnds
<1>5. ASSUME NEW x \in Replays, S!Call(x) \/ S!CommandEnds(x) PROVE S!TypeOK'
  BY <1>5 DEF S!Call, S!CommandEnds
<1>6. ASSUME NEW x \in Replays, S!Cancel(x) \/ S!Close(x) \/ S!CloseCancelled(x) \/ S!Exit(x) PROVE S!TypeOK'
  BY <1>6 DEF S!Cancel, S!Close, S!CloseCancelled, S!Exit
<1>7. ASSUME NEW x \in Replays, S!CleanupEnds(x) PROVE S!TypeOK'
  BY <1>7 DEF S!CleanupEnds
<1>8. ASSUME NEW x \in Replays, S!Kill(x) PROVE S!TypeOK'
  <2>1. s_slot' \in [S!Slots -> Replays \cup {None}]
    BY <1>8, SlotStep DEF SandboxMoves
  <2> QED BY <1>8, <2>1 DEF S!Kill
<1>9. CASE UNCHANGED sVars
  BY <1>9 DEF sVars
<1> QED
  BY <1>1, <1>2, <1>3, <1>4, <1>5, <1>6, <1>7, <1>8, <1>9 DEF S!Next, S!Thread

\* A step of x keeps what holds of x.
LEMMA SandboxOwnStep == ASSUME SandboxesInv, NEW x \in Replays, SandboxMoves(x) PROVE SandboxInv(x)'
<1> USE ReplayNodeConstants DEF SandboxesInv, S!TypeOK, SandboxInv, Slotted, Built, Known,
    Cleans, S!Goto
<1>1. CASE S!Setup(x)
  BY <1>1 DEF S!Setup
<1>2. CASE S!TrySlot(x)
  BY <1>2, TriedSlot DEF S!TrySlot
<1>3. CASE S!Pause(x)
  BY <1>3 DEF S!Pause
<1>4. CASE S!BuildEnds(x)
  BY <1>4 DEF S!BuildEnds
<1>5. CASE S!Call(x) \/ S!CommandEnds(x) \/ S!Cancel(x) \/ S!CloseCancelled(x) \/ S!Exit(x)
  BY <1>5 DEF S!Call, S!CommandEnds, S!Cancel, S!CloseCancelled, S!Exit
<1>6. CASE S!Close(x)
  BY <1>6 DEF S!Close
<1>7. CASE S!CleanupEnds(x)
  <2>1. PICK ok \in BOOLEAN :
          /\ s_sandbox' = [s_sandbox EXCEPT ![x] = ~ok]
          /\ IF s_pc[x] = "closing"
             THEN /\ S!Goto(x, IF ok THEN "closed" ELSE "aborted")
                  /\ s_environment' = [s_environment EXCEPT ![x] = IF ok THEN "unset" ELSE @]
             ELSE UNCHANGED <<s_pc, s_environment>>
    BY <1>7 DEF S!CleanupEnds
  <2>2. s_cleanup[x] /\ s_cleanup' = [s_cleanup EXCEPT ![x] = FALSE] /\ UNCHANGED <<s_build, s_slot>>
    BY <1>7 DEF S!CleanupEnds
  <2>3. CASE s_pc[x] = "closing"
    <3>1. CASE ok
      <4>1. s_pc'[x] = "closed" /\ s_environment'[x] = "unset" /\ s_sandbox'[x] = FALSE
        BY <2>1, <2>3, <3>1
      <4>2. s_cleanup'[x] = FALSE /\ s_build'[x] = "ended"
        BY <2>2
      <4> QED BY <4>1, <4>2
    <3>2. CASE ~ok
      BY <2>1, <2>2, <2>3, <3>2
    <3> QED BY <3>1, <3>2
  <2>4. CASE s_pc[x] # "closing"
    BY <2>1, <2>2, <2>4
  <2> QED BY <2>3, <2>4
<1>8. CASE S!Kill(x)
  BY <1>8 DEF S!Kill
<1> QED BY <1>1, <1>2, <1>3, <1>4, <1>5, <1>6, <1>7, <1>8 DEF SandboxMoves, S!Thread

\* A step of x leaves what belongs to another replay alone.
LEMMA SandboxOthersStep ==
  ASSUME SandboxesInv, NEW x \in Replays, NEW r \in Replays, r # x, SandboxMoves(x) PROVE SandboxInv(r)'
<1>1. /\ s_pc'[r] = s_pc[r] /\ s_build'[r] = s_build[r] /\ s_environment'[r] = s_environment[r]
      /\ s_cleanup'[r] = s_cleanup[r] /\ s_sandbox'[r] = s_sandbox[r]
  BY DEF SandboxesInv, S!TypeOK, S!Goto, SandboxMoves, S!Thread, S!Setup, S!TrySlot, S!Pause,
     S!BuildEnds, S!Call, S!CommandEnds, S!Cancel, S!Close, S!CleanupEnds, S!CloseCancelled,
     S!Exit, S!Kill
<1>2. \A s \in S!Slots : s_slot'[s] = r <=> s_slot[s] = r
  BY SlotStep
<1> QED BY <1>1, <1>2 DEF SandboxesInv, SandboxInv, Slotted, Built, Known, Cleans

LEMMA SandboxStepInv == ASSUME SandboxesInv, [S!Next]_sVars PROVE SandboxesInv'
<1>1. ASSUME NEW r \in Replays PROVE SandboxInv(r)'
  <2>1. ASSUME NEW x \in Replays, SandboxMoves(x) PROVE SandboxInv(r)'
    BY <1>1, <2>1, SandboxOwnStep, SandboxOthersStep
  <2>2. CASE UNCHANGED sVars
    BY <1>1, <2>2 DEF sVars, SandboxesInv, SandboxInv, Slotted, Built, Known, Cleans
  <2> QED BY <2>1, <2>2 DEF S!Next, SandboxMoves
<1> QED BY <1>1, SandboxTypes DEF SandboxesInv

\* Builders that each hold a slot are at most as many as there are slots.
LEMMA SlotsBound ==
  ASSUME S!TypeOK, Limit > 0, \A r \in S!Builders : \E s \in S!Slots : s_slot[s] = r
  PROVE  Cardinality(S!Builders) <= Limit
<1> DEFINE f == [r \in S!Builders |-> CHOOSE s \in S!Slots : s_slot[s] = r]
<1>1. IsFiniteSet(S!Slots) /\ Cardinality(S!Slots) = Limit
  <2>1. Limit \in Nat /\ 0 \in Int /\ Limit - 1 \in Int /\ ~(0 > Limit - 1)
    BY ReplayNodeConstants
  <2>2. /\ IsFiniteSet(0 .. Limit - 1)
        /\ Cardinality(0 .. Limit - 1) = IF 0 > Limit - 1 THEN 0 ELSE Limit - 1 - 0 + 1
    BY <2>1, FS_Interval
  <2> QED BY <2>1, <2>2 DEF S!Slots
<1>2. \A r \in S!Builders : f[r] \in S!Slots /\ s_slot[f[r]] = r
  OBVIOUS
<1>3. f \in Injection(S!Builders, S!Slots)
  BY <1>2 DEF Injection, IsInjective
<1>4. Cardinality(S!Builders) <= Cardinality(S!Slots)
  BY <1>1, <1>3, FS_Injection
<1> QED BY <1>1, <1>4

\* The invariant holds in every reachable state (adapters/minisweagent.py).
THEOREM SandboxInvariance == ComponentsSpec => []SandboxesInv
<1>1. [ComponentsNext]_allVars => [S!Next]_sVars
  BY DEF ComponentsNext, allVars, GatewayStep, SandboxStep, PackStep, GaiaStep, SweStep,
     RoutingStep, SweepStep, ImagesStep, DiagnosticsStep, sVars
<1>2. SandboxesInv /\ [ComponentsNext]_allVars => SandboxesInv'
  BY <1>1, SandboxStepInv
<1> QED BY SandboxInit, <1>2, PTL DEF ComponentsSpec

\* Type correctness of the sandbox executors and of the slots.
THEOREM SandboxesTyped == ComponentsSpec => []S!TypeOK
<1>1. SandboxesInv => S!TypeOK
  BY DEF SandboxesInv
<1> QED BY SandboxInvariance, <1>1, PTL

\* At most Limit sandboxes are built at once, and close() removes every sandbox
\* the executor was given, for any number of replays and slots.
THEOREM SandboxesStayBounded == ComponentsSpec => []SandboxesBounded
<1>1. SandboxesInv => S!BuildsBounded
  <2> SUFFICES ASSUME SandboxesInv, Limit > 0
               PROVE /\ \A r \in S!Builders : \E s \in S!Slots : s_slot[s] = r
                     /\ Cardinality(S!Builders) <= Limit
    BY Zenon DEF S!BuildsBounded, S!Cardinality, Cardinality
  <2>1. \A r \in S!Builders : \E s \in S!Slots : s_slot[s] = r
    BY DEF SandboxesInv, SandboxInv, Slotted, S!Builders
  <2> QED BY <2>1, SlotsBound DEF SandboxesInv
<1>2. SandboxesInv => S!KnownSandboxRemoved
  <2> SUFFICES ASSUME SandboxesInv, NEW r \in Replays, s_pc[r] = "closed"
               PROVE /\ s_environment[r] # "set" /\ ~s_cleanup[r]
                     /\ s_sandbox[r] => s_environment[r] = "lost"
    BY DEF S!KnownSandboxRemoved
  <2> QED BY DEF SandboxesInv, S!TypeOK, SandboxInv, Known, Cleans
<1> QED BY SandboxInvariance, <1>1, <1>2, PTL DEF SandboxesBounded, S!SandboxesBounded

-----------------------------------------------------------------------------
(* Diagnostics *)

\* The folds of the models are sums.
LEMMA TotalIsSum == ASSUME NEW f PROVE D!Total(f) = Sum(f, Requests)
BY Zenon DEF D!Total, D!MapThenSumSet, D!MapThenFoldSet, Sum, Partial, Sums, Summand, Picked

\* No lookups add up to nothing, and one more lookup to one more.
LEMMA TotalOfNone == D!Total(D!Each(0)) = 0
<1>1. \A r \in Requests : D!Each(0)[r] = 0
  BY DEF D!Each
<1> QED BY <1>1, SumZero, TotalIsSum, ComponentsConstants

LEMMA TotalOfOneMore ==
  ASSUME NEW f \in [Requests -> Nat], NEW r \in Requests
  PROVE  D!Total([f EXCEPT ![r] = @ + 1]) = D!Total(f) + 1
<1>1. f \in [Requests -> Int] /\ IsFiniteSet(Requests)
  BY ComponentsConstants
<1>2. Sum([f EXCEPT ![r] = @ + 1], Requests) = Sum(f, Requests) + 1
  BY <1>1, SumOneMore
<1>3. D!Total([f EXCEPT ![r] = @ + 1]) = Sum([f EXCEPT ![r] = @ + 1], Requests)
  BY Zenon, TotalIsSum
<1>4. D!Total(f) = Sum(f, Requests)
  BY Zenon, TotalIsSum
<1> QED BY <1>2, <1>3, <1>4

\* What the file and the open interval say adds up to what happened.
Added ==
  /\ d_written.steps + d_counts.steps = d_truth.steps
  /\ d_written.refusals + d_counts.refusals = d_truth.refusals
  /\ d_written.lookups + d_counts.lookups = D!Total(d_truth.lookups)

\* Inside schedule() only running requests are scheduled, those among them that
\* were looked up; a running request that was not looked up in this call has
\* nothing pending.
Scheduling ==
  d_phase = "schedule" =>
    \A r \in Requests : /\ r \in d_scheduled => d_request[r] = "running"
                        /\ r \in d_tried /\ d_request[r] = "running" => r \in d_scheduled
Admitted ==
  \A r \in Requests : d_request[r] = "running" /\ (d_phase = "schedule" => r \notin d_tried)
                        => d_pending[r] = 0

\* A row is due for every scheduled request with an entry.
Due(r) == IF d_phase = "schedule" /\ r \in d_scheduled /\ d_pending[r] > 0 THEN 1 ELSE 0
Rowed == \A r \in Requests : d_rows[r] + Due(r) = d_truth.admissions[r]

Looked ==
  \A r \in Requests : d_request[r] # "gone" => d_queried[r] + d_pending[r] = d_truth.lookups[r]

Forgotten ==
  d_phase = "closed" => /\ d_counts = D!Zero
                        /\ \A r \in Requests : d_request[r] = "gone" => d_pending[r] = 0

DiagnosticsInv ==
  D!TypeOK /\ Added /\ Scheduling /\ Admitted /\ Rowed /\ Looked /\ Forgotten

\* Nothing has happened in the initial state.
LEMMA DiagnosticsStarts == ComponentsInit => DiagnosticsInv
<1> SUFFICES ASSUME D!Init PROVE DiagnosticsInv
  BY DEF ComponentsInit
<1>1. D!TypeOK
  BY DEF D!Init, D!TypeOK, D!Zero, D!Each
<1>2. Added
  BY TotalOfNone DEF D!Init, Added, D!Zero
<1>3. Scheduling /\ Admitted /\ Rowed /\ Looked /\ Forgotten
  BY DEF D!Init, D!Each, Scheduling, Admitted, Rowed, Due, Looked, Forgotten
<1> QED BY <1>1, <1>2, <1>3 DEF DiagnosticsInv

\* What a look-up notes, and what it notes of either outcome.
Looks(r) ==
  /\ d_pending' = [d_pending EXCEPT ![r] = @ + 1] /\ d_tried' = d_tried \cup {r}
  /\ d_phase = "schedule" /\ d_request[r] = "waiting"
  /\ d_truth'.steps = d_truth.steps
  /\ d_truth'.lookups = [d_truth.lookups EXCEPT ![r] = @ + 1]
  /\ UNCHANGED <<d_phase, d_written, d_rows, d_queried>>
Admits(r) ==
  /\ d_request' = [d_request EXCEPT ![r] = "running"]
  /\ d_scheduled' = d_scheduled \cup {r}
  /\ d_counts' = [steps |-> d_counts.steps, refusals |-> d_counts.refusals,
                  lookups |-> d_counts.lookups + 1]
  /\ d_truth'.refusals = d_truth.refusals
  /\ d_truth'.admissions = [d_truth.admissions EXCEPT ![r] = @ + 1]
Refuses(r) ==
  /\ UNCHANGED <<d_request, d_scheduled>>
  /\ d_counts' = [steps |-> d_counts.steps, refusals |-> d_counts.refusals + 1,
                  lookups |-> d_counts.lookups + 1]
  /\ d_truth'.refusals = d_truth.refusals + 1
  /\ d_truth'.admissions = d_truth.admissions

Truths == [steps : Nat, refusals : Nat, lookups : [Requests -> Nat], admissions : [Requests -> Nat]]

LEMMA TryNotes ==
  ASSUME D!TypeOK, NEW r \in Requests, D!TryWaiting(r)
  PROVE  Looks(r) /\ (Admits(r) \/ Refuses(r)) /\ d_truth' \in Truths
<1>0. /\ d_truth \in Truths
      /\ d_counts \in [steps : Nat, refusals : Nat, lookups : Nat]
  BY DEF D!TypeOK, Truths
<1>1. /\ d_phase = "schedule" /\ d_request[r] = "waiting"
      /\ d_pending' = [d_pending EXCEPT ![r] = @ + 1] /\ d_tried' = d_tried \cup {r}
      /\ UNCHANGED <<d_phase, d_written, d_rows, d_queried>>
  BY DEF D!TryWaiting
<1>2. CASE /\ d_request' = [d_request EXCEPT ![r] = "running"]
           /\ d_scheduled' = d_scheduled \cup {r}
           /\ d_counts' = [d_counts EXCEPT !.lookups = @ + 1]
           /\ d_truth' = [d_truth EXCEPT !.lookups[r] = @ + 1, !.admissions[r] = @ + 1]
  <2>1. d_truth' = [steps |-> d_truth.steps, refusals |-> d_truth.refusals,
                    lookups |-> [d_truth.lookups EXCEPT ![r] = @ + 1],
                    admissions |-> [d_truth.admissions EXCEPT ![r] = @ + 1]]
    BY <1>0, <1>2 DEF Truths
  <2>2. d_counts' = [steps |-> d_counts.steps, refusals |-> d_counts.refusals,
                     lookups |-> d_counts.lookups + 1]
    BY <1>0, <1>2
  <2>3. d_truth' \in Truths
    BY <1>0, <2>1 DEF Truths
  <2>4. Looks(r)
    BY <1>1, <2>1 DEF Looks
  <2>5. Admits(r)
    BY <1>2, <2>1, <2>2 DEF Admits
  <2> QED BY <2>3, <2>4, <2>5
<1>3. CASE /\ UNCHANGED <<d_request, d_scheduled>>
           /\ d_counts' = [d_counts EXCEPT !.lookups = @ + 1, !.refusals = @ + 1]
           /\ d_truth' = [d_truth EXCEPT !.lookups[r] = @ + 1, !.refusals = @ + 1]
  <2>1. d_truth' = [steps |-> d_truth.steps, refusals |-> d_truth.refusals + 1,
                    lookups |-> [d_truth.lookups EXCEPT ![r] = @ + 1],
                    admissions |-> d_truth.admissions]
    BY <1>0, <1>3 DEF Truths
  <2>2. d_counts' = [steps |-> d_counts.steps, refusals |-> d_counts.refusals + 1,
                     lookups |-> d_counts.lookups + 1]
    BY <1>0, <1>3
  <2>3. d_truth' \in Truths
    BY <1>0, <2>1 DEF Truths
  <2>4. Looks(r)
    BY <1>1, <2>1 DEF Looks
  <2>5. Refuses(r)
    BY <1>3, <2>1, <2>2 DEF Refuses
  <2> QED BY <2>3, <2>4, <2>5
<1> QED BY <1>2, <1>3 DEF D!TryWaiting, D!Become

LEMMA DiagnosticsTypeStep == ASSUME DiagnosticsInv, [D!Next]_dVars PROVE D!TypeOK'
<1> USE DEF DiagnosticsInv, D!TypeOK, D!Become
<1>1. ASSUME NEW r \in Requests, D!Arrive(r) \/ D!Leave(r) PROVE D!TypeOK'
  BY <1>1 DEF D!Arrive, D!Leave
<1>2. ASSUME NEW r \in Requests, D!Preempt(r) PROVE D!TypeOK'
  BY <1>2 DEF D!Preempt, D!Blocked
<1>3. ASSUME NEW r \in Requests, D!TryWaiting(r) PROVE D!TypeOK'
  <2>1. Looks(r) /\ d_truth' \in Truths
    BY <1>3, TryNotes
  <2>2. CASE Admits(r)
    BY <2>1, <2>2 DEF Looks, Admits, Truths
  <2>3. CASE Refuses(r)
    BY <2>1, <2>3 DEF Looks, Refuses, Truths
  <2> QED BY <1>3, <2>2, <2>3, TryNotes
<1>4. CASE D!Schedule
  BY <1>4 DEF D!Schedule
<1>5. CASE D!Observe
  <2>1. /\ d_phase' = "idle" /\ UNCHANGED <<d_request, d_scheduled, d_tried>>
        /\ d_rows' \in [Requests -> Nat] /\ d_queried' \in [Requests -> Nat]
    BY <1>5 DEF D!Observe
  <2>2. d_truth' \in Truths
    BY <1>5 DEF D!Observe, Truths
  <2>3. d_pending' \in [Requests -> Nat]
    BY <1>5 DEF D!Observe, D!Flush
  <2>4. {d_counts', d_written'} \subseteq [steps : Nat, refusals : Nat, lookups : Nat]
    BY <1>5 DEF D!Observe, D!Flush, D!Plus, D!Zero
  <2> QED BY <2>1, <2>2, <2>3, <2>4 DEF Truths
<1>6. CASE D!Shutdown
  BY <1>6 DEF D!Shutdown, D!Flush, D!Plus, D!Zero
<1>7. CASE UNCHANGED dVars
  BY <1>7 DEF dVars
<1> QED
  BY <1>1, <1>2, <1>3, <1>4, <1>5, <1>6, <1>7 DEF D!Next

LEMMA AddedStep == ASSUME DiagnosticsInv, [D!Next]_dVars PROVE Added'
<1> USE DEF DiagnosticsInv, D!TypeOK, Added
<1>1. ASSUME NEW r \in Requests, D!Arrive(r) \/ D!Leave(r) PROVE Added'
  BY <1>1 DEF D!Arrive, D!Leave
<1>2. ASSUME NEW r \in Requests, D!Preempt(r) PROVE Added'
  BY <1>2 DEF D!Preempt, D!Blocked
<1>3. ASSUME NEW r \in Requests, D!TryWaiting(r) PROVE Added'
  <2>1. Looks(r)
    BY <1>3, TryNotes
  <2>2. D!Total(d_truth'.lookups) = D!Total(d_truth.lookups) + 1
    BY <2>1, TotalOfOneMore DEF Looks
  <2>3. CASE Admits(r)
    BY <2>1, <2>2, <2>3 DEF Looks, Admits
  <2>4. CASE Refuses(r)
    BY <2>1, <2>2, <2>4 DEF Looks, Refuses
  <2> QED BY <1>3, <2>3, <2>4, TryNotes
<1>4. CASE D!Schedule
  BY <1>4 DEF D!Schedule
<1>5. CASE D!Observe
  BY <1>5 DEF D!Observe, D!Flush, D!Plus, D!Zero
<1>6. CASE D!Shutdown
  BY <1>6 DEF D!Shutdown, D!Flush, D!Plus, D!Zero
<1>7. CASE UNCHANGED dVars
  BY <1>7 DEF dVars
<1> QED
  BY <1>1, <1>2, <1>3, <1>4, <1>5, <1>6, <1>7 DEF D!Next

LEMMA SchedulingStep == ASSUME DiagnosticsInv, [D!Next]_dVars PROVE (Scheduling /\ Admitted)'
<1> USE DEF DiagnosticsInv, D!TypeOK, D!Become, Scheduling, Admitted
<1>1. ASSUME NEW r \in Requests, D!Arrive(r) \/ D!Leave(r) PROVE (Scheduling /\ Admitted)'
  BY <1>1 DEF D!Arrive, D!Leave
<1>2. ASSUME NEW r \in Requests, D!Preempt(r) PROVE (Scheduling /\ Admitted)'
  BY <1>2 DEF D!Preempt
<1>3. ASSUME NEW r \in Requests, D!TryWaiting(r) PROVE (Scheduling /\ Admitted)'
  <2>1. Looks(r)
    BY <1>3, TryNotes
  <2>2. CASE Admits(r)
    BY <2>1, <2>2 DEF Looks, Admits
  <2>3. CASE Refuses(r)
    BY <2>1, <2>3 DEF Looks, Refuses
  <2> QED BY <1>3, <2>2, <2>3, TryNotes
<1>4. CASE D!Schedule
  BY <1>4 DEF D!Schedule
<1>5. CASE D!Observe
  BY <1>5 DEF D!Observe, D!Flush
<1>6. CASE D!Shutdown
  BY <1>6 DEF D!Shutdown, D!Flush
<1>7. CASE UNCHANGED dVars
  BY <1>7 DEF dVars
<1> QED
  BY <1>1, <1>2, <1>3, <1>4, <1>5, <1>6, <1>7 DEF D!Next

LEMMA EventRowsStep == ASSUME DiagnosticsInv, [D!Next]_dVars PROVE (Rowed /\ Looked /\ Forgotten)'
<1> USE DEF DiagnosticsInv, D!TypeOK, D!Become, Scheduling, Admitted, Rowed, Due, Looked, Forgotten
<1>1. ASSUME NEW r \in Requests, D!Arrive(r) \/ D!Leave(r) PROVE (Rowed /\ Looked /\ Forgotten)'
  BY <1>1 DEF D!Arrive, D!Leave
<1>2. ASSUME NEW r \in Requests, D!Preempt(r) PROVE (Rowed /\ Looked /\ Forgotten)'
  BY <1>2 DEF D!Preempt, D!Blocked
<1>3. ASSUME NEW r \in Requests, D!TryWaiting(r) PROVE (Rowed /\ Looked /\ Forgotten)'
  <2>1. Looks(r)
    BY <1>3, TryNotes
  <2>2. CASE Admits(r)
    BY <2>1, <2>2 DEF Looks, Admits
  <2>3. CASE Refuses(r)
    BY <2>1, <2>3 DEF Looks, Refuses
  <2> QED BY <1>3, <2>2, <2>3, TryNotes
<1>4. CASE D!Schedule
  BY <1>4 DEF D!Schedule
<1>5. CASE D!Observe
  BY <1>5 DEF D!Observe, D!Flush
<1>6. CASE D!Shutdown
  BY <1>6 DEF D!Shutdown, D!Flush
<1>7. CASE UNCHANGED dVars
  BY <1>7 DEF dVars
<1> QED
  BY <1>1, <1>2, <1>3, <1>4, <1>5, <1>6, <1>7 DEF D!Next

\* The event file is exact about every request and every interval, for any
\* requests and any number of steps (vllm_diagnostics.py).
THEOREM EventsAreExact == ComponentsSpec => []DiagnosticsExact
<1>1. [ComponentsNext]_allVars => [D!Next]_dVars
  BY DEF ComponentsNext, allVars, GatewayStep, SandboxStep, PackStep, GaiaStep, SweStep,
     RoutingStep, SweepStep, ImagesStep, DiagnosticsStep, dVars
<1>2. DiagnosticsInv /\ [ComponentsNext]_allVars => DiagnosticsInv'
  BY <1>1, DiagnosticsTypeStep, AddedStep, SchedulingStep, EventRowsStep DEF DiagnosticsInv
<1>3. DiagnosticsInv => DiagnosticsExact
  <2> SUFFICES ASSUME DiagnosticsInv PROVE D!DiagnosticsExact
    BY DEF DiagnosticsExact
  <2> USE DEF DiagnosticsInv, D!TypeOK
  <2>1. d_phase # "schedule" => \A r \in Requests : d_rows[r] = d_truth.admissions[r]
    BY DEF Rowed, Due
  <2>2. D!Plus(d_written, d_counts) = [steps |-> d_truth.steps, refusals |-> d_truth.refusals,
                                       lookups |-> D!Total(d_truth.lookups)]
    BY DEF Added, D!Plus
  <2> QED BY <2>1, <2>2 DEF D!DiagnosticsExact, Looked, Forgotten
<1> QED
  BY DiagnosticsStarts, <1>2, <1>3, PTL DEF ComponentsSpec
=============================================================================
