------------------------------- MODULE Routing -------------------------------
(***************************************************************************)
(* An LLM call on its way and the records it leaves: the replay executor   *)
(* (replay/llm.py), the streaming router (experiments/multi/proxy.py) or   *)
(* the official router with its middleware at the backend                  *)
(* (routing_envelope.py), the backend's request log (vllm_backend.py), and *)
(* the report that compares all of them (experiments/multi/report.py).     *)
(***************************************************************************)
EXTENDS Sequences, RoutedCalls

VARIABLES setup,     \* how calls reach a replica, and the router's policy
          sequence,  \* the router's request counter
          client,    \* the executor's await
          seen,      \* how the response ended for the client
          hop,       \* the router's handler
          dest,      \* the replica the router, or the middleware, names
          served,    \* the replica the request was sent to
          backend,   \* the request inside that replica
          data,      \* what it has answered
          log,       \* its request_finished event: finish reason and tokens
          rows,      \* its rows in the routing ledger
          report     \* "valid" of summary.json

vars == <<setup, sequence, client, seen, hop, dest, served, backend, data, log, rows, report>>

Setups == {"direct", "sticky", "round_robin", "official"}
Proxied == setup \in {"sticky", "round_robin"}

TypeOK ==
    /\ setup \in Setups /\ sequence \in Nat
    /\ client \in [Calls -> {"new", "waiting", "ok", "error", "cancelled"}]
    /\ seen \in [Calls -> {"open", "eof", "broken"}]
    /\ hop \in [Calls -> {"none", "posting", "upstream", "ended"}]
    /\ dest \in [Calls -> 0 .. Replicas - 1] /\ served \in [Calls -> 0 .. Replicas - 1]
    /\ backend \in [Calls -> {"none", "reading", "running", "sent", "broken", "ended"}]
    /\ data \in [Calls -> {"none", "some", "all", "error"}]
    /\ log \in [Calls -> {"none", "target", "other", "abort"}]
    /\ rows \in [Calls -> Seq({"completed", "http_error", "failed"})]
    /\ report \in {"none", "valid", "invalid"}

Init ==
    /\ setup \in Setups /\ sequence = 0 /\ report = "none"
    /\ client = [c \in Calls |-> "new"]
    /\ seen = [c \in Calls |-> "open"]
    /\ hop = [c \in Calls |-> "none"]
    /\ dest = Home /\ served = Home
    /\ backend = [c \in Calls |-> "none"]
    /\ data = [c \in Calls |-> "none"]
    /\ log = [c \in Calls |-> "none"]
    /\ rows = [c \in Calls |-> <<>>]

Set(f, c, value) == [f EXCEPT ![c] = value]
AddRow(c, status) == rows' = [rows EXCEPT ![c] = Append(@, status)]
Gone(c) == IF setup = "direct" THEN client[c] # "waiting" ELSE hop[c] = "ended"

-----------------------------------------------------------------------------
(* The executor: one POST, whatever happens to it *)

Post(c) ==
    /\ client[c] = "new" /\ report = "none"
    /\ client' = Set(client, c, "waiting")
    /\ IF setup = "direct"
       THEN backend' = Set(backend, c, "reading") /\ UNCHANGED hop
       ELSE hop' = Set(hop, c, "posting") /\ UNCHANGED backend
    /\ UNCHANGED <<setup, sequence, seen, dest, served, data, log, rows, report>>

\* A direct connection ends with the backend's answer, or breaks.
DirectEnds(c) ==
    /\ setup = "direct" /\ client[c] = "waiting" /\ seen[c] = "open"
    /\ \/ backend[c] \in {"sent", "ended"} /\ seen' = Set(seen, c, "eof")
       \/ seen' = Set(seen, c, "broken")
    /\ UNCHANGED <<setup, sequence, client, hop, dest, served, backend, data, log, rows, report>>

\* A result needs a 2xx answer to its end, with a usage that is the target.
ClientEnds(c) ==
    /\ client[c] = "waiting" /\ seen[c] # "open"
    /\ client' = Set(client, c, IF seen[c] = "eof" /\ data[c] = "all" /\ log[c] = "target"
                                THEN "ok" ELSE "error")
    /\ UNCHANGED <<setup, sequence, seen, hop, dest, served, backend, data, log, rows, report>>

\* A failing sibling cancels the call; closing the stream closes the connection.
ClientCancelled(c) ==
    /\ client[c] = "waiting"
    /\ client' = Set(client, c, "cancelled")
    /\ UNCHANGED <<setup, sequence, seen, hop, dest, served, backend, data, log, rows, report>>

-----------------------------------------------------------------------------
(* The router *)

\* The request is refused before it is counted (its headers, its size).
Refuse(c) ==
    /\ hop[c] = "posting"
    /\ hop' = Set(hop, c, "ended") /\ seen' = Set(seen, c, "broken")
    /\ UNCHANGED <<setup, sequence, client, dest, served, backend, data, log, rows, report>>

\* Mutant: the replica is chosen again when the request is sent.
RouteTwice(c) ==
    /\ hop[c] = "posting"
    /\ hop' = Set(hop, c, "upstream")
    /\ sequence' = sequence + 1
    /\ \E r, s \in 0 .. Replicas - 1 : dest' = Set(dest, c, r) /\ served' = Set(served, c, s)
    /\ backend' = Set(backend, c, "reading")
    /\ UNCHANGED <<setup, client, seen, data, log, rows, report>>

\* The replica is chosen before the first await: home, the next in turn, or
\* whatever the official router decides.
Route(c) ==
    /\ hop[c] = "posting"
    /\ hop' = Set(hop, c, "upstream")
    /\ sequence' = sequence + 1
    /\ \E r \in CASE setup = "sticky" -> {Home[c]}
                  [] setup = "round_robin" -> {sequence % Replicas}
                  [] setup = "official" -> 0 .. Replicas - 1 :
         dest' = Set(dest, c, r) /\ served' = Set(served, c, r)
    /\ backend' = Set(backend, c, "reading")
    /\ UNCHANGED <<setup, client, seen, data, log, rows, report>>

\* The stream ended and the client has its end of file.  A client that closes
\* at once may still cancel the handler inside write_eof().
HopCompletes(c) ==
    /\ hop[c] = "upstream" /\ backend[c] \in {"sent", "ended"}
    /\ hop' = Set(hop, c, "ended")
    /\ seen' = Set(seen, c, "eof")
    /\ IF Proxied
       THEN \/ AddRow(c, IF data[c] = "all" THEN "completed" ELSE "http_error")
            \/ AddRow(c, "failed")
       ELSE UNCHANGED rows
    /\ UNCHANGED <<setup, sequence, client, dest, served, backend, data, log, report>>

\* Mutants: only a request that ended by itself is logged; a broken stream ends
\* like a complete one.
HopFailsUnlogged(c) ==
    /\ hop[c] = "upstream"
    /\ hop' = Set(hop, c, "ended")
    /\ seen' = Set(seen, c, "broken")
    /\ UNCHANGED <<setup, sequence, client, dest, served, backend, data, log, rows, report>>

HopEndsEarly(c) ==
    /\ hop[c] = "upstream"
    /\ hop' = Set(hop, c, "ended")
    /\ seen' = Set(seen, c, "eof")
    /\ IF Proxied THEN AddRow(c, "completed") ELSE UNCHANGED rows
    /\ UNCHANGED <<setup, sequence, client, dest, served, backend, data, log, report>>

\* No connection, a broken stream, a client that left, or the router's shutdown:
\* the client's connection is closed without an end of file.
HopFails(c) ==
    /\ hop[c] = "upstream"
    /\ hop' = Set(hop, c, "ended")
    /\ seen' = Set(seen, c, "broken")
    /\ IF Proxied THEN AddRow(c, "failed") ELSE UNCHANGED rows
    /\ UNCHANGED <<setup, sequence, client, dest, served, backend, data, log, report>>

-----------------------------------------------------------------------------
(* The backend and, in an official setup, the middleware around it *)

MiddlewareRow(c, status) ==
    IF setup = "official" THEN AddRow(c, status) ELSE UNCHANGED rows

\* The request's body arrives, or its sender disconnects first.
Read(c) ==
    /\ backend[c] = "reading"
    /\ \/ backend' = Set(backend, c, "running")
       \/ Gone(c) /\ backend' = Set(backend, c, "ended")
    /\ UNCHANGED <<setup, sequence, client, seen, hop, dest, served, data, log, rows, report>>

Stream(c) ==
    /\ backend[c] = "running" /\ data[c] = "none"
    /\ data' = Set(data, c, "some")
    /\ UNCHANGED <<setup, sequence, client, seen, hop, dest, served, backend, log, rows, report>>

\* The last chunk carries the usage; the logged tokens need not be the target.
Generate(c) ==
    /\ backend[c] = "running" /\ ~Gone(c)
    /\ backend' = Set(backend, c, "sent")
    /\ \/ data' = Set(data, c, "all") /\ \E t \in {"target", "other"} : log' = Set(log, c, t)
       \/ data[c] = "none" /\ data' = Set(data, c, "error") /\ UNCHANGED log
    /\ UNCHANGED <<setup, sequence, client, seen, hop, dest, served, rows, report>>

\* The application returns after its last chunk, or is cancelled there.
BackendReturns(c) ==
    /\ backend[c] = "sent"
    /\ backend' = Set(backend, c, "ended")
    /\ \E late \in BOOLEAN :
         MiddlewareRow(c, IF late THEN "failed" ELSE IF data[c] = "all" THEN "completed" ELSE "http_error")
    /\ UNCHANGED <<setup, sequence, client, seen, hop, dest, served, data, log, report>>

\* The replica aborts a request whose sender left, or fails in the middle.
BackendFails(c) ==
    /\ backend[c] = "running"
    /\ backend' = Set(backend, c, "broken")
    /\ log' \in {log, Set(log, c, "abort")}
    /\ MiddlewareRow(c, "failed")
    /\ UNCHANGED <<setup, sequence, client, seen, hop, dest, served, data, report>>

-----------------------------------------------------------------------------
(* summarize_run, after the run *)

Quiet == \A c \in Calls : /\ client[c] \in {"new", "ok", "error", "cancelled"}
                          /\ hop[c] \in {"none", "ended"}
                          /\ backend[c] \in {"none", "broken", "ended"}

\* Every task completed: none of its calls failed or was cancelled.
TasksCompleted == \A c \in Calls : client[c] \in {"new", "ok"}

\* One completed row for every completed call and none besides.
LedgersAgree ==
    setup # "direct" =>
        \A c \in Calls : rows[c] = IF client[c] = "ok" THEN <<"completed">> ELSE <<>>

\* Per replica: as many finished requests, and as many tokens, as the clients
\* say it answered, and none that was not finished properly.
BackendTotals ==
    /\ \A c \in Calls : log[c] # "abort"
    /\ \A r \in 0 .. Replicas - 1 :
         /\ Cardinality({c \in Calls : log[c] # "none" /\ served[c] = r})
              = Cardinality({c \in Calls : client[c] = "ok" /\ dest[c] = r})
         /\ Cardinality({c \in Calls : log[c] = "target" /\ served[c] = r})
              = Cardinality({c \in Calls : client[c] = "ok" /\ dest[c] = r})

SummarizeRun ==
    /\ report = "none" /\ Quiet /\ \E c \in Calls : client[c] # "new"
    /\ report' = IF TasksCompleted /\ LedgersAgree /\ BackendTotals THEN "valid" ELSE "invalid"
    /\ UNCHANGED <<setup, sequence, client, seen, hop, dest, served, backend, data, log, rows>>

Next ==
    \/ \E c \in Calls :
         \/ Post(c) \/ DirectEnds(c) \/ ClientEnds(c) \/ ClientCancelled(c)
         \/ Refuse(c) \/ Route(c) \/ HopCompletes(c) \/ HopFails(c)
         \/ Read(c) \/ Stream(c) \/ Generate(c) \/ BackendReturns(c) \/ BackendFails(c)
    \/ SummarizeRun

Spec == Init /\ [][Next]_vars

-----------------------------------------------------------------------------
(* Properties *)

\* The middleware's handler has begun (its body was read) and has ended.
MiddlewareDone(c) == backend[c] = "broken" \/ (backend[c] = "ended" /\ data[c] \in {"all", "error"})

\* A call counted by the router, and one whose body the middleware has read,
\* leaves exactly one row in the ledger, however it ends; no other call does.
OneRowPerCall ==
    \A c \in Calls :
        Len(rows[c]) = CASE setup = "direct"   -> 0
                         [] setup = "official" -> IF MiddlewareDone(c) THEN 1 ELSE 0
                         [] Proxied -> IF hop[c] = "ended" /\ backend[c] # "none" THEN 1 ELSE 0

\* The executor returns a result only for an answer that is whole: generated to
\* its target by the replica and forwarded to its end.  A ledger calls no other
\* answer completed.
CompletedIsWhole ==
    \A c \in Calls :
        /\ client[c] = "ok" => data[c] = "all" /\ log[c] = "target" /\ seen[c] = "eof"
        /\ rows[c] = <<"completed">> => data[c] = "all"

\* A report that says valid is right: every call that was made has its result,
\* from the replica that the client, the ledger and the backend's log name.
ValidReportIsTrue ==
    report = "valid" =>
        \A c \in Calls : client[c] # "new" =>
            client[c] = "ok" /\ log[c] = "target" /\ served[c] = dest[c]
=============================================================================
