---------------------------- MODULE CaptureProxy ----------------------------
(***************************************************************************)
(* CaptureProxy: every POST is served by a thread that forwards it,        *)
(* streams the answer back and appends one record to the capture file.     *)
(* A collector calls wait_idle when its agent is over and then reads the   *)
(* records of the agent's trace.                                           *)
(*                                                                         *)
(* The handlers, the agents (the clients of the proxy) and the collectors  *)
(* are threads or processes that interleave freely; what a `with` block    *)
(* guards is one step.                                                     *)
(***************************************************************************)
EXTENDS Integers, FiniteSets, Sequences

CONSTANTS
  Calls,    \* the requests the agents make
  Traces,   \* values of the X-Trace-Id header
  TraceOf,  \* TraceOf[c]: the trace of call c
  None,     \* no trace
  Scopes    \* the trace_id arguments wait_idle is called with: traces, or None
            \* for every request

ASSUME CaptureAssumption ==
  /\ IsFiniteSet(Calls)
  /\ TraceOf \in [Calls -> Traces]
  /\ None \notin Traces
  /\ Scopes \subseteq Traces \cup {None}

VARIABLES
  handler,    \* where the thread of each call is
  client,     \* what the agent has of each call
  agents,     \* traces whose agent is running
  total,      \* _active_requests
  perTrace,   \* _active_trace_requests; 0 stands for an absent key
  sequence,   \* _sequence
  records,    \* the capture file: the sequence number and call of each line
  lost,       \* calls whose line could not be written
  waiter,     \* where the wait_idle call of each scope is
  late        \* scopes whose wait_idle deadline has passed

handlerVars == <<handler, total, perTrace>>
fileVars    == <<sequence, records, lost>>
waiterVars  == <<waiter, late>>
vars == <<handlerVars, client, agents, fileVars, waiterVars>>

-----------------------------------------------------------------------------
HandlerStates == {"none", "queued", "forward", "stream", "record", "finally", "end"}
ClientStates  == {"none", "waiting", "consumed", "gone"}
WaiterStates  == {"off", "check", "blocked", "returned", "timeout"}

InScope(c, s)  == s = None \/ TraceOf[c] = s
Active(c)      == handler[c] \in {"forward", "stream", "record", "finally"}
Recorded(c)    == \E i \in DOMAIN records : records[i].call = c

\* The counter wait_idle looks at.
Count(s) == IF s = None THEN total ELSE perTrace[s]

Init ==
  /\ handler = [c \in Calls |-> "none"]
  /\ client = [c \in Calls |-> "none"]
  /\ agents = Traces
  /\ total = 0 /\ perTrace = [t \in Traces |-> 0]
  /\ sequence = 0 /\ records = << >> /\ lost = {}
  /\ waiter = [s \in Scopes |-> "off"]
  /\ late = {}

-----------------------------------------------------------------------------
(* Agents *)

\* An agent connects; the server's thread for the request has not run yet.
Send(c) ==
  /\ TraceOf[c] \in agents
  /\ client[c] = "none"
  /\ client' = [client EXCEPT ![c] = "waiting"]
  /\ handler' = [handler EXCEPT ![c] = "queued"]
  /\ UNCHANGED <<agents, total, perTrace, fileVars, waiterVars>>

\* The agent has read the last chunk of a complete answer.  The proxy may still
\* be waiting for the end of the upstream's stream.
Consume(c) ==
  /\ client[c] = "waiting"
  /\ handler[c] \in {"stream", "record", "finally", "end"}
  /\ client' = [client EXCEPT ![c] = "consumed"]
  /\ UNCHANGED <<handlerVars, agents, fileVars, waiterVars>>

\* The agent gives up on a call: its own timeout.
Disconnect(c) ==
  /\ client[c] = "waiting"
  /\ client' = [client EXCEPT ![c] = "gone"]
  /\ UNCHANGED <<handlerVars, agents, fileVars, waiterVars>>

\* The agent's process is over, killed in the middle of a call or not.
AgentExits(t) ==
  /\ t \in agents
  /\ agents' = agents \ {t}
  /\ client' = [c \in Calls |-> IF TraceOf[c] = t /\ client[c] = "waiting"
                                THEN "gone" ELSE client[c]]
  /\ UNCHANGED <<handlerVars, fileVars, waiterVars>>

-----------------------------------------------------------------------------
(* Handler threads *)

Move(c, state) ==
  /\ handler' = [handler EXCEPT ![c] = state]
  /\ UNCHANGED <<client, agents, total, perTrace, waiterVars>>

\* do_POST begins: the request is counted, for the proxy and for its trace.
Accept(c) ==
  /\ handler[c] = "queued"
  /\ handler' = [handler EXCEPT ![c] = "forward"]
  /\ total' = total + 1
  /\ perTrace' = [perTrace EXCEPT ![TraceOf[c]] = @ + 1]
  /\ UNCHANGED <<client, agents, fileVars, waiterVars>>

\* A body that is no JSON object ends the handler without an answer or a record.
Reject(c) ==
  /\ handler[c] = "forward"
  /\ handler' = [handler EXCEPT ![c] = "finally"]
  /\ client' = [client EXCEPT ![c] = "gone"]
  /\ UNCHANGED <<agents, total, perTrace, fileVars, waiterVars>>

\* The answer's headers are passed on; writing them to a client that left
\* raises outside the handler's own except clauses.
Respond(c) ==
  /\ handler[c] = "forward"
  /\ \/ Move(c, "stream")
     \/ client[c] = "gone" /\ Move(c, "finally")
  /\ UNCHANGED fileVars

\* The upstream fails before its headers: the client is sent a 502.
UpstreamFails(c) ==
  /\ handler[c] = "forward"
  /\ \/ Move(c, "record")
     \/ client[c] = "gone" /\ Move(c, "finally")
  /\ UNCHANGED fileVars

\* The body is complete, or breaks off, which an agent that still reads notices
\* as well; a client that left does not stop the answer from being drained.
StreamEnds(c) == handler[c] = "stream" /\ Move(c, "record") /\ UNCHANGED fileVars

StreamBreaks(c) ==
  /\ handler[c] = "stream"
  /\ handler' = [handler EXCEPT ![c] = "record"]
  /\ client' = [client EXCEPT ![c] = IF @ = "consumed" THEN @ ELSE "gone"]
  /\ UNCHANGED <<agents, total, perTrace, fileVars, waiterVars>>

\* Mutant: the number is taken in one step and the line written in another,
\* as without _write_lock; here the number is read and not yet advanced.
AppendUnlocked(c) ==
  /\ handler[c] = "record"
  /\ records' = Append(records, [seq |-> sequence + 1, call |-> c])
  /\ \E lag \in {0, 1} : sequence' = sequence + lag
  /\ UNCHANGED lost
  /\ Move(c, "finally")

\* Under _write_lock: the next number, and the record's line.
AppendRecord(c) ==
  /\ handler[c] = "record"
  /\ sequence' = sequence + 1
  /\ records' = Append(records, [seq |-> sequence + 1, call |-> c])
  /\ Move(c, "finally")
  /\ UNCHANGED lost

\* The file cannot be written: the number is used up.
AppendFails(c) ==
  /\ handler[c] = "record"
  /\ sequence' = sequence + 1
  /\ lost' = lost \cup {c}
  /\ UNCHANGED records
  /\ Move(c, "finally")

Notified == [s \in Scopes |-> IF waiter[s] = "blocked" THEN "check" ELSE waiter[s]]

\* Mutants of Finish: notify instead of notify_all; the counters are given up
\* as soon as the answer is out, before it is recorded.
NotifyOne(c) ==
  /\ handler[c] = "finally"
  /\ handler' = [handler EXCEPT ![c] = "end"]
  /\ total' = total - 1
  /\ perTrace' = [perTrace EXCEPT ![TraceOf[c]] = @ - 1]
  /\ \/ \E s \in Scopes :
          waiter[s] = "blocked" /\ waiter' = [waiter EXCEPT ![s] = "check"]
     \/ waiter' = waiter /\ \A s \in Scopes : waiter[s] # "blocked"
  /\ UNCHANGED <<client, agents, fileVars, late>>

FinishEarly(c) ==
  /\ \/ /\ handler[c] = "record"
        /\ handler' = [handler EXCEPT ![c] = "end"]
        /\ sequence' = sequence + 1
        /\ records' = Append(records, [seq |-> sequence + 1, call |-> c])
        /\ UNCHANGED <<total, perTrace, waiter, lost>>
     \/ /\ handler[c] = "stream"
        /\ handler' = [handler EXCEPT ![c] = "record"]
        /\ total' = total - 1
        /\ perTrace' = [perTrace EXCEPT ![TraceOf[c]] = @ - 1]
        /\ waiter' = Notified
        /\ UNCHANGED fileVars
  /\ UNCHANGED <<client, agents, late>>

\* The finally clause: the counters go down and every wait_idle is notified.
Finish(c) ==
  /\ handler[c] = "finally"
  /\ handler' = [handler EXCEPT ![c] = "end"]
  /\ total' = total - 1
  /\ perTrace' = [perTrace EXCEPT ![TraceOf[c]] = @ - 1]
  /\ waiter' = Notified
  /\ UNCHANGED <<client, agents, fileVars, late>>

HandlerStep(c) ==
  \/ Accept(c) \/ Reject(c) \/ Respond(c) \/ UpstreamFails(c) \/ StreamEnds(c)
  \/ StreamBreaks(c) \/ AppendRecord(c) \/ AppendFails(c) \/ Finish(c)

-----------------------------------------------------------------------------
(* Collectors *)

WaitTo(s, state) ==
  /\ waiter' = [waiter EXCEPT ![s] = state]
  /\ UNCHANGED <<handlerVars, client, agents, fileVars, late>>

\* The collector of a trace waits when its agent is over; wait_idle(None) may
\* be called at any time.
BeginWait(s) ==
  /\ waiter[s] = "off"
  /\ s \notin agents
  /\ WaitTo(s, "check")

\* The condition is tested before the clock, so a waiter that is late but finds
\* nothing active still returns.
Check(s) ==
  /\ waiter[s] = "check"
  /\ WaitTo(s, CASE Count(s) = 0 -> "returned"
                 [] Count(s) # 0 /\ s \in late -> "timeout"
                 [] OTHER -> "blocked")

\* The deadline passes: a blocked waiter is woken to look again.
Deadline(s) ==
  /\ waiter[s] \in {"check", "blocked"} /\ s \notin late
  /\ late' = late \cup {s}
  /\ waiter' = [waiter EXCEPT ![s] = "check"]
  /\ UNCHANGED <<handlerVars, client, agents, fileVars>>

Next ==
  \/ \E c \in Calls : Send(c) \/ Consume(c) \/ Disconnect(c) \/ HandlerStep(c)
  \/ \E t \in Traces : AgentExits(t)
  \/ \E s \in Scopes : BeginWait(s) \/ Check(s) \/ Deadline(s)

Spec == Init /\ [][Next]_vars

\* The threads run and the upstream's answers end.  No deadline need pass: a
\* wait_idle that depends on its own timeout to return is not good enough.
FairSpec ==
  /\ Spec
  /\ \A c \in Calls : WF_vars(HandlerStep(c))
  /\ \A s \in Scopes : WF_vars(Check(s))

-----------------------------------------------------------------------------
(* Properties *)

\* Type invariant.
TypeOK ==
  /\ handler \in [Calls -> HandlerStates]
  /\ client \in [Calls -> ClientStates]
  /\ agents \subseteq Traces
  /\ total \in Nat
  /\ perTrace \in [Traces -> Nat]
  /\ sequence \in Nat /\ lost \subseteq Calls
  /\ records \in Seq([seq : Nat, call : Calls])
  /\ waiter \in [Scopes -> WaiterStates]
  /\ late \subseteq Scopes

\* The two counters agree with the handlers between do_POST's first block and
\* its finally clause, on every error path of the handler.
CountersMatchHandlers ==
  \A s \in Traces \cup {None} :
    Count(s) = Cardinality({c \in Calls : Active(c) /\ InScope(c, s)})

\* The capture file's numbers are strictly increasing and a call is recorded
\* at most once, although handlers finish in any order and an append may fail.
RecordsInOrder ==
  \A i, j \in DOMAIN records :
    i < j => /\ records[i].seq < records[j].seq
             /\ records[i].call # records[j].call

\* When wait_idle returns for a trace, every call whose answer the agent read
\* to the end has its record in the file, unless the file could not be written.
ConsumedIsRecorded ==
  \A t \in Traces \cap Scopes : waiter[t] = "returned" =>
    \A c \in Calls :
      TraceOf[c] = t /\ client[c] = "consumed" => Recorded(c) \/ c \in lost

\* wait_idle returns, without its deadline, once the calls it waits for end:
\* no notification is lost between the test and the wait.
WaitersWake ==
  \A s \in Scopes : waiter[s] = "blocked" ~> waiter[s] \in {"returned", "timeout"}
=============================================================================
