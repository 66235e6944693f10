------------------------- MODULE CaptureProxy_proof -------------------------
(***************************************************************************)
(* Safety of CaptureProxy for any number of calls, traces and waiters: the *)
(* counters, the order of the capture file, and that what the agent has    *)
(* consumed is recorded when wait_idle returns.                            *)
(***************************************************************************)
EXTENDS CaptureProxy, FiniteSetTheorems, TLAPS

\* The calls a counter stands for.
ActiveCalls(s) == {c \in Calls : Active(c) /\ InScope(c, s)}

\* A call's record is in the file, or could not be written.
Settled(c) == Recorded(c) \/ c \in lost

\* A client waits only while its agent runs, has consumed only an answer that
\* was begun, and a call nobody made has no handler.
ClientInv ==
  \A c \in Calls :
    /\ client[c] = "none" => handler[c] = "none"
    /\ client[c] = "waiting" => TraceOf[c] \in agents
    /\ client[c] = "consumed" =>
         handler[c] \in {"stream", "record", "finally", "end"}

\* A handler that is past its append has settled its call, or its client left
\* before the answer was complete.
SettledInv ==
  \A c \in Calls :
    handler[c] \in {"finally", "end"} /\ client[c] \in {"waiting", "consumed"}
      => Settled(c)

\* Numbers in the file were drawn, by handlers that are past their append.
FileInv ==
  \A i \in DOMAIN records :
    /\ records[i].seq <= sequence
    /\ handler[records[i].call] \in {"finally", "end"}

\* A collector waits only once its agent is over.
WaitInv == \A s \in Scopes : waiter[s] # "off" => s \notin agents

IInv ==
  /\ TypeOK
  /\ ClientInv
  /\ SettledInv
  /\ FileInv
  /\ WaitInv
  /\ CountersMatchHandlers
  /\ RecordsInOrder
  /\ ConsumedIsRecorded

-----------------------------------------------------------------------------
(* Counters *)

\* The calls in a scope are finitely many.
LEMMA ActiveFinite ==
  ASSUME NEW s
  PROVE  /\ IsFiniteSet(ActiveCalls(s))
         /\ Cardinality(ActiveCalls(s)) \in Nat
BY FS_Subset, FS_CardinalityType, CaptureAssumption DEF ActiveCalls

\* A step that neither starts nor ends an active call keeps the counters right.
LEMMA CountersKept ==
  ASSUME CountersMatchHandlers,
         UNCHANGED <<total, perTrace>>,
         \A c \in Calls : Active(c)' <=> Active(c)
  PROVE  CountersMatchHandlers'
<1>1. ASSUME NEW s \in Traces \cup {None}
      PROVE  Count(s)' = Cardinality({c \in Calls : Active(c)' /\ InScope(c, s)})
  <2>1. {c \in Calls : Active(c)' /\ InScope(c, s)}
          = {c \in Calls : Active(c) /\ InScope(c, s)}
    OBVIOUS
  <2> QED BY <2>1 DEF Count, CountersMatchHandlers
<1> QED BY <1>1 DEF CountersMatchHandlers, InScope

\* Accept raises the counters of the scopes the call is in.
LEMMA CountersAccept ==
  ASSUME TypeOK, CountersMatchHandlers, NEW c \in Calls, Accept(c)
  PROVE  CountersMatchHandlers'
<1>1. ASSUME NEW s \in Traces \cup {None}
      PROVE  Count(s)' = Cardinality(ActiveCalls(s)')
  <2>1. c \notin ActiveCalls(s)
    BY DEF ActiveCalls, Accept, Active
  <2>2. CASE InScope(c, s)
    <3>1. ActiveCalls(s)' = ActiveCalls(s) \cup {c}
      BY <2>2 DEF ActiveCalls, Accept, Active, InScope, TypeOK
    <3>2. Cardinality(ActiveCalls(s)') = Cardinality(ActiveCalls(s)) + 1
      BY <2>1, <3>1, ActiveFinite, FS_AddElement
    <3>3. Count(s)' = Count(s) + 1
      BY <2>2, CaptureAssumption DEF Count, Accept, InScope, TypeOK
    <3> QED BY <3>2, <3>3 DEF CountersMatchHandlers, ActiveCalls
  <2>3. CASE ~InScope(c, s)
    <3>1. ActiveCalls(s)' = ActiveCalls(s)
      BY <2>3 DEF ActiveCalls, Accept, Active, InScope, TypeOK
    <3>2. Count(s)' = Count(s)
      BY <2>3, CaptureAssumption DEF Count, Accept, InScope, TypeOK
    <3> QED BY <3>1, <3>2 DEF CountersMatchHandlers, ActiveCalls
  <2> QED BY <2>2, <2>3
<1> QED BY <1>1 DEF CountersMatchHandlers, ActiveCalls

\* Finish lowers them, and never below zero.
LEMMA CountersFinish ==
  ASSUME TypeOK, CountersMatchHandlers, NEW c \in Calls, Finish(c)
  PROVE  /\ CountersMatchHandlers'
         /\ total' \in Nat
         /\ perTrace' \in [Traces -> Nat]
<1>1. ASSUME NEW s \in Traces \cup {None}
      PROVE  /\ Count(s)' = Cardinality(ActiveCalls(s)')
             /\ InScope(c, s) => Count(s) - 1 \in Nat
  <2>1. CASE InScope(c, s)
    <3>1. c \in ActiveCalls(s)
      BY <2>1 DEF ActiveCalls, Finish, Active
    <3>2. ActiveCalls(s)' = ActiveCalls(s) \ {c}
      BY <2>1 DEF ActiveCalls, Finish, Active, InScope, TypeOK
    <3>3. /\ IsFiniteSet(ActiveCalls(s)')
          /\ Cardinality(ActiveCalls(s)') = Cardinality(ActiveCalls(s)) - 1
      BY <3>1, <3>2, ActiveFinite, FS_RemoveElement
    <3>4. Cardinality(ActiveCalls(s)') \in Nat
      BY <3>3, FS_CardinalityType
    <3>5. Count(s)' = Count(s) - 1
      BY <2>1, CaptureAssumption DEF Count, Finish, InScope, TypeOK
    <3> QED BY <3>3, <3>4, <3>5 DEF CountersMatchHandlers, ActiveCalls
  <2>2. CASE ~InScope(c, s)
    <3>1. ActiveCalls(s)' = ActiveCalls(s)
      BY <2>2 DEF ActiveCalls, Finish, Active, InScope, TypeOK
    <3>2. Count(s)' = Count(s)
      BY <2>2, CaptureAssumption DEF Count, Finish, InScope, TypeOK
    <3> QED BY <2>2, <3>1, <3>2 DEF CountersMatchHandlers, ActiveCalls
  <2> QED BY <2>1, <2>2
<1>2. CountersMatchHandlers'
  BY <1>1 DEF CountersMatchHandlers, ActiveCalls
<1>3. total' \in Nat
  BY <1>1 DEF InScope, Count, Finish
<1>4. perTrace[TraceOf[c]] - 1 \in Nat
  BY <1>1, CaptureAssumption DEF InScope, Count
<1>5. perTrace' \in [Traces -> Nat]
  BY <1>4, CaptureAssumption DEF Finish, TypeOK
<1> QED BY <1>2, <1>3, <1>5

-----------------------------------------------------------------------------
(* The inductive invariant *)

\* The initial state satisfies it.
LEMMA InitInv == Init => IInv
<1> SUFFICES ASSUME Init PROVE IInv
  OBVIOUS
<1>1. TypeOK
  BY CaptureAssumption DEF Init, TypeOK, HandlerStates, ClientStates, WaiterStates
<1>2. ClientInv /\ SettledInv /\ FileInv /\ WaitInv
  BY DEF Init, ClientInv, SettledInv, FileInv, WaitInv
<1>3. CountersMatchHandlers
  <2>1. ASSUME NEW s \in Traces \cup {None} PROVE Count(s) = 0 /\ ActiveCalls(s) = {}
    BY DEF Init, Count, ActiveCalls, Active
  <2> QED BY <2>1, FS_EmptySet DEF CountersMatchHandlers, ActiveCalls
<1>4. RecordsInOrder /\ ConsumedIsRecorded
  BY DEF Init, RecordsInOrder, ConsumedIsRecorded
<1> QED BY <1>1, <1>2, <1>3, <1>4 DEF IInv

\* What Append does to a sequence.
LEMMA AppendFacts ==
  ASSUME NEW S, NEW q \in Seq(S), NEW e \in S
  PROVE  /\ Append(q, e) \in Seq(S)
         /\ DOMAIN Append(q, e) = 1 .. (Len(q) + 1)
         /\ Append(q, e)[Len(q) + 1] = e
         /\ \A i \in 1 .. Len(q) : Append(q, e)[i] = q[i]
OBVIOUS

\* The lines of a well typed capture file.
LEMMA FileLines ==
  ASSUME TypeOK
  PROVE  /\ DOMAIN records = 1 .. Len(records) /\ Len(records) \in Nat
         /\ \A i \in DOMAIN records :
              records[i].seq \in Nat /\ records[i].call \in Calls
<1> DEFINE Line == [seq : Nat, call : Calls]
<1>1. records \in Seq(Line)
  BY DEF TypeOK
<1> HIDE DEF Line
<1>2. \A i \in DOMAIN records : records[i] \in Line
  BY <1>1
<1> QED BY <1>1, <1>2 DEF Line

\* The capture file after an append.
LEMMA AppendedFile ==
  ASSUME TypeOK, NEW c \in Calls,
         records' = Append(records, [seq |-> sequence + 1, call |-> c])
  PROVE  /\ records' \in Seq([seq : Nat, call : Calls])
         /\ DOMAIN records' = 1 .. (Len(records) + 1)
         /\ records'[Len(records) + 1].seq = sequence + 1
         /\ records'[Len(records) + 1].call = c
         /\ \A i \in 1 .. Len(records) : records'[i] = records[i]
<1> DEFINE Line == [seq : Nat, call : Calls]
           line == [seq |-> sequence + 1, call |-> c]
<1>1. records \in Seq(Line) /\ line \in Line
  BY DEF TypeOK
<1>2. line.seq = sequence + 1 /\ line.call = c
  OBVIOUS
<1> HIDE DEF Line, line
<1>3. records' = Append(records, line)
  BY DEF line
<1>4. /\ records' \in Seq(Line)
      /\ DOMAIN records' = 1 .. (Len(records) + 1)
      /\ records'[Len(records) + 1] = line
      /\ \A i \in 1 .. Len(records) : records'[i] = records[i]
  BY <1>1, <1>3, AppendFacts
<1> QED BY <1>2, <1>4 DEF Line

\* What is settled stays settled while the file and the list of lost calls grow.
LEMMA SettledStays ==
  ASSUME NEW c, Settled(c), UNCHANGED <<records, lost>>
  PROVE  Settled(c)'
BY DEF Settled, Recorded

\* An appended record settles its call and unsettles none.
LEMMA AppendSettles ==
  ASSUME TypeOK, NEW c \in Calls,
         records' = Append(records, [seq |-> sequence + 1, call |-> c]),
         lost' = lost
  PROVE  /\ Settled(c)'
         /\ \A d \in Calls : Settled(d) => Settled(d)'
<1>1. /\ DOMAIN records' = 1 .. (Len(records) + 1)
      /\ DOMAIN records = 1 .. Len(records)
      /\ Len(records) \in Nat
      /\ records'[Len(records) + 1].call = c
      /\ \A i \in 1 .. Len(records) : records'[i] = records[i]
  BY AppendedFile, FileLines
<1>2. Recorded(c)'
  BY <1>1 DEF Recorded
<1>3. ASSUME NEW d \in Calls, Recorded(d) PROVE Recorded(d)'
  BY <1>1, <1>3 DEF Recorded
<1> QED BY <1>2, <1>3 DEF Settled

\* Steps of the agents.
LEMMA ClientSteps ==
  ASSUME IInv,
         \/ \E c \in Calls : Send(c) \/ Consume(c) \/ Disconnect(c)
         \/ \E t \in Traces : AgentExits(t)
  PROVE  IInv'
<1> USE DEF IInv
<1>1. /\ UNCHANGED <<total, perTrace, sequence, records, lost, waiter, late>>
      /\ \A c \in Calls : Active(c)' <=> Active(c)
  BY DEF Send, Consume, Disconnect, AgentExits, Active, TypeOK, handlerVars,
     fileVars, waiterVars, ClientInv
<1>2. TypeOK'
  BY CaptureAssumption DEF Send, Consume, Disconnect, AgentExits, TypeOK,
     handlerVars, fileVars, waiterVars, ClientStates, HandlerStates
<1>3. ClientInv'
  BY CaptureAssumption DEF Send, Consume, Disconnect, AgentExits, TypeOK,
     handlerVars, fileVars, waiterVars, ClientInv
<1>4. SettledInv'
  BY <1>1, SettledStays DEF Send, Consume, Disconnect, AgentExits, TypeOK,
     handlerVars, SettledInv
<1>5. FileInv'
  <2>1. \A c \in Calls : handler[c] \in {"finally", "end"} => handler'[c] = handler[c]
    BY DEF Send, Consume, Disconnect, AgentExits, TypeOK, handlerVars, ClientInv
  <2> QED BY <1>1, <2>1, FileLines DEF FileInv
<1>6. WaitInv'
  BY <1>1 DEF Send, Consume, Disconnect, AgentExits, WaitInv
<1>7. CountersMatchHandlers'
  BY <1>1, CountersKept
<1>8. RecordsInOrder'
  BY <1>1 DEF RecordsInOrder
<1>9. ConsumedIsRecorded'
  BY <1>1 DEF Send, Consume, Disconnect, AgentExits, TypeOK, ClientInv, WaitInv,
     ConsumedIsRecorded, Recorded
<1> QED BY <1>2, <1>3, <1>4, <1>5, <1>6, <1>7, <1>8, <1>9

\* Steps of a handler before its append: the file is not touched.
LEMMA ForwardSteps ==
  ASSUME IInv, NEW c \in Calls,
         \/ Accept(c) \/ Reject(c) \/ Respond(c) \/ UpstreamFails(c)
         \/ StreamEnds(c) \/ StreamBreaks(c)
  PROVE  IInv'
<1> USE DEF IInv, Move
<1>1. UNCHANGED <<agents, sequence, records, lost, waiter, late>>
  BY DEF Accept, Reject, Respond, UpstreamFails, StreamEnds, StreamBreaks,
     fileVars, waiterVars
<1>2. CountersMatchHandlers'
  <2>1. CASE Accept(c)
    BY <2>1, CountersAccept
  <2>2. CASE ~Accept(c)
    BY <2>2, CountersKept DEF Reject, Respond, UpstreamFails, StreamEnds,
       StreamBreaks, Active, TypeOK
  <2> QED BY <2>1, <2>2
<1>3. TypeOK'
  <2>1. total' \in Nat /\ perTrace' \in [Traces -> Nat]
    <3>1. CASE Accept(c)
      <4>1. TraceOf[c] \in Traces /\ perTrace[TraceOf[c]] + 1 \in Nat
        BY CaptureAssumption DEF TypeOK
      <4>2. total + 1 \in Nat
        BY DEF TypeOK
      <4> QED BY <3>1, <4>1, <4>2 DEF Accept, TypeOK
    <3>2. CASE ~Accept(c)
      BY <3>2 DEF Reject, Respond, UpstreamFails, StreamEnds, StreamBreaks, TypeOK
    <3> QED BY <3>1, <3>2
  <2>2. /\ handler' \in [Calls -> HandlerStates]
        /\ client' \in [Calls -> ClientStates]
    BY DEF Accept, Reject, Respond, UpstreamFails, StreamEnds, StreamBreaks,
       TypeOK, HandlerStates, ClientStates
  <2> QED BY <1>1, <2>1, <2>2 DEF TypeOK
<1>4. ClientInv'
  BY DEF Accept, Reject, Respond, UpstreamFails, StreamEnds, StreamBreaks,
     TypeOK, ClientInv
<1>5. SettledInv'
  BY <1>1, SettledStays DEF Accept, Reject, Respond, UpstreamFails, StreamEnds,
     StreamBreaks, TypeOK, ClientInv, SettledInv
<1>6. FileInv'
  <2>1. \A d \in Calls : handler[d] \in {"finally", "end"} => handler'[d] = handler[d]
    BY DEF Accept, Reject, Respond, UpstreamFails, StreamEnds, StreamBreaks, TypeOK
  <2> QED BY <1>1, <2>1, FileLines DEF FileInv
<1>7. WaitInv' /\ RecordsInOrder'
  BY <1>1 DEF WaitInv, RecordsInOrder
<1>8. ConsumedIsRecorded'
  BY <1>1 DEF Accept, Reject, Respond, UpstreamFails, StreamEnds, StreamBreaks,
     TypeOK, ConsumedIsRecorded, Recorded
<1> QED BY <1>2, <1>3, <1>4, <1>5, <1>6, <1>7, <1>8

\* The append, done or failed.
LEMMA AppendSteps ==
  ASSUME IInv, NEW c \in Calls, AppendRecord(c) \/ AppendFails(c)
  PROVE  IInv'
<1> USE DEF IInv, Move
<1>1. /\ UNCHANGED <<agents, client, total, perTrace, waiter, late>>
      /\ handler[c] = "record" /\ sequence' = sequence + 1
      /\ handler' = [handler EXCEPT ![c] = "finally"]
  BY DEF AppendRecord, AppendFails, waiterVars
<1>2. Settled(c)' /\ \A d \in Calls : Settled(d) => Settled(d)'
  <2>1. CASE AppendRecord(c)
    BY <2>1, AppendSettles DEF AppendRecord
  <2>2. CASE AppendFails(c)
    BY <2>2 DEF AppendFails, Settled, Recorded
  <2> QED BY <2>1, <2>2
<1>3. TypeOK'
  <2>1. records' \in Seq([seq : Nat, call : Calls]) /\ lost' \subseteq Calls
    BY AppendedFile DEF AppendRecord, AppendFails, TypeOK
  <2>2. handler' \in [Calls -> HandlerStates] /\ sequence' \in Nat
    BY <1>1 DEF TypeOK, HandlerStates
  <2> QED BY <1>1, <2>1, <2>2 DEF TypeOK
<1>4. ClientInv' /\ WaitInv'
  BY <1>1 DEF TypeOK, ClientInv, WaitInv
<1>5. SettledInv'
  BY <1>1, <1>2 DEF TypeOK, SettledInv
<1>6. CountersMatchHandlers'
  BY <1>1, CountersKept DEF Active, TypeOK
<1>7. FileInv' /\ RecordsInOrder'
  <2>1. \A i \in DOMAIN records :
          /\ records[i].seq \in Nat /\ records[i].seq <= sequence
          /\ handler'[records[i].call] \in {"finally", "end"}
          /\ records[i].call # c
    BY <1>1, FileLines DEF FileInv, TypeOK
  <2>2. sequence \in Nat /\ handler'[c] = "finally"
    BY <1>1 DEF TypeOK
  <2>3. CASE AppendFails(c)
    BY <1>1, <2>1, <2>2, <2>3 DEF AppendFails, FileInv, RecordsInOrder
  <2>4. CASE AppendRecord(c)
    <3>1. /\ DOMAIN records' = 1 .. (Len(records) + 1)
          /\ DOMAIN records = 1 .. Len(records)
          /\ Len(records) \in Nat
          /\ records'[Len(records) + 1].seq = sequence + 1
          /\ records'[Len(records) + 1].call = c
          /\ \A i \in 1 .. Len(records) : records'[i] = records[i]
      BY <2>4, FileLines, AppendedFile DEF AppendRecord
    <3>2. FileInv'
      <4> SUFFICES ASSUME NEW i \in DOMAIN records'
                   PROVE  /\ records'[i].seq <= sequence'
                          /\ handler'[records'[i].call] \in {"finally", "end"}
        BY DEF FileInv
      <4>1. CASE i = Len(records) + 1
        BY <1>1, <2>2, <3>1, <4>1
      <4>2. CASE i \in DOMAIN records
        BY <1>1, <2>1, <2>2, <3>1, <4>2
      <4> QED BY <3>1, <4>1, <4>2
    <3>3. RecordsInOrder'
      <4> SUFFICES ASSUME NEW i \in DOMAIN records', NEW j \in DOMAIN records', i < j
                   PROVE  /\ records'[i].seq < records'[j].seq
                          /\ records'[i].call # records'[j].call
        BY DEF RecordsInOrder
      <4>1. i \in DOMAIN records /\ records'[i] = records[i]
        BY <3>1
      <4>2. CASE j = Len(records) + 1
        BY <2>1, <2>2, <3>1, <4>1, <4>2
      <4>3. CASE j \in DOMAIN records
        BY <3>1, <4>1, <4>3 DEF RecordsInOrder
      <4> QED BY <3>1, <4>2, <4>3
    <3> QED BY <3>2, <3>3
  <2> QED BY <2>3, <2>4
<1>8. ConsumedIsRecorded'
  BY <1>1, <1>2 DEF ConsumedIsRecorded, Settled
<1> QED BY <1>3, <1>4, <1>5, <1>6, <1>7, <1>8

\* The finally clause.
LEMMA FinishStep ==
  ASSUME IInv, NEW c \in Calls, Finish(c)
  PROVE  IInv'
<1> USE DEF IInv
<1>1. /\ UNCHANGED <<client, agents, sequence, records, lost, late>>
      /\ handler[c] = "finally"
      /\ handler' = [handler EXCEPT ![c] = "end"]
  BY DEF Finish, fileVars
<1>2. \A s \in Scopes : waiter'[s] = waiter[s] \/ (waiter[s] = "blocked" /\ waiter'[s] = "check")
  BY DEF Finish, Notified
<1>3. CountersMatchHandlers' /\ total' \in Nat /\ perTrace' \in [Traces -> Nat]
  BY CountersFinish
<1>4. TypeOK'
  BY <1>1, <1>3 DEF Finish, Notified, TypeOK, HandlerStates, WaiterStates
<1>5. ClientInv'
  BY <1>1 DEF ClientInv, TypeOK
<1>6. SettledInv'
  BY <1>1, SettledStays DEF SettledInv, TypeOK
<1>7. FileInv' /\ RecordsInOrder'
  BY <1>1 DEF FileInv, RecordsInOrder, TypeOK
<1>8. WaitInv'
  BY <1>1, <1>2 DEF WaitInv
<1>9. ConsumedIsRecorded'
  BY <1>1, <1>2 DEF ConsumedIsRecorded, Recorded
<1> QED BY <1>3, <1>4, <1>5, <1>6, <1>7, <1>8, <1>9

\* A collector's steps.  The one that matters is the return of wait_idle: with
\* the trace's counter at zero no handler of the trace is active, so every
\* consumed call is past its append.
LEMMA WaiterSteps ==
  ASSUME IInv, NEW s \in Scopes, BeginWait(s) \/ Check(s) \/ Deadline(s)
  PROVE  IInv'
<1> USE DEF IInv
<1>1. UNCHANGED <<handler, total, perTrace, client, agents, sequence, records, lost>>
  BY DEF BeginWait, Check, Deadline, WaitTo, handlerVars, fileVars
<1>2. PICK state \in WaiterStates :
        /\ waiter' = [waiter EXCEPT ![s] = state]
        /\ state = "returned" => Check(s) /\ Count(s) = 0
  BY DEF BeginWait, Check, Deadline, WaitTo, WaiterStates
<1>3. s \notin agents
  BY DEF BeginWait, Check, Deadline, WaitInv
<1>4. TypeOK'
  <2>1. late' \subseteq Scopes
    BY DEF BeginWait, Check, Deadline, WaitTo, TypeOK
  <2> QED BY <1>1, <1>2, <2>1 DEF TypeOK
<1>5. ClientInv' /\ SettledInv' /\ FileInv' /\ RecordsInOrder'
  BY <1>1 DEF ClientInv, SettledInv, Settled, Recorded, FileInv, RecordsInOrder
<1>6. WaitInv'
  BY <1>1, <1>2, <1>3 DEF WaitInv, TypeOK
<1>7. CountersMatchHandlers'
  BY <1>1, CountersKept DEF Active
<1>8. ConsumedIsRecorded'
  <2> SUFFICES ASSUME NEW t \in Traces \cap Scopes, waiter'[t] = "returned",
                      NEW c \in Calls, TraceOf[c] = t, client[c] = "consumed"
               PROVE  Settled(c)
    BY <1>1 DEF ConsumedIsRecorded, Settled, Recorded
  <2>1. CASE t # s
    BY <1>2, <2>1 DEF ConsumedIsRecorded, Settled, TypeOK
  <2>2. CASE t = s
    <3>1. Count(s) = 0
      BY <1>2, <2>2 DEF TypeOK
    <3>2. Cardinality(ActiveCalls(s)) = 0
      BY <2>2, <3>1 DEF CountersMatchHandlers, ActiveCalls
    <3>3. ActiveCalls(s) = {}
      BY <3>2, ActiveFinite, FS_EmptySet
    <3>4. handler[c] = "end"
      BY <2>2, <3>3 DEF ActiveCalls, Active, InScope, ClientInv
    <3> QED BY <3>4 DEF SettledInv
  <2> QED BY <2>1, <2>2
<1> QED BY <1>4, <1>5, <1>6, <1>7, <1>8

\* Every step keeps the invariant.
LEMMA StepInv == IInv /\ [Next]_vars => IInv'
<1> SUFFICES ASSUME IInv, [Next]_vars PROVE IInv'
  OBVIOUS
<1>1. CASE \/ \E c \in Calls : Send(c) \/ Consume(c) \/ Disconnect(c)
           \/ \E t \in Traces : AgentExits(t)
  BY <1>1, ClientSteps
<1>2. CASE \E c \in Calls : HandlerStep(c)
  BY <1>2, ForwardSteps, AppendSteps, FinishStep DEF HandlerStep
<1>3. CASE \E s \in Scopes : BeginWait(s) \/ Check(s) \/ Deadline(s)
  BY <1>3, WaiterSteps
<1>4. CASE UNCHANGED vars
  <2>1. UNCHANGED <<handler, total, perTrace, client, agents, sequence, records,
                    lost, waiter, late>>
    BY <1>4 DEF vars, handlerVars, fileVars, waiterVars
  <2>2. CountersMatchHandlers'
    BY <2>1, CountersKept DEF Active, IInv
  <2> QED BY <2>1, <2>2 DEF IInv, TypeOK, ClientInv, SettledInv, Settled, FileInv,
        WaitInv, RecordsInOrder, ConsumedIsRecorded, Recorded
<1> QED BY <1>1, <1>2, <1>3, <1>4 DEF Next

-----------------------------------------------------------------------------
(* Theorems *)

\* IInv holds in every reachable state.
THEOREM Invariance == Spec => []IInv
BY InitInv, StepInv, PTL DEF Spec

\* Type correctness; in particular no counter of the proxy ever goes negative.
THEOREM TypeCorrect == Spec => []TypeOK
BY Invariance, PTL DEF IInv

\* The counters of do_POST agree with its handlers on every path.
THEOREM CountersAgree == Spec => []CountersMatchHandlers
BY Invariance, PTL DEF IInv

\* The capture file's numbers increase and no call is recorded twice.
THEOREM FileInOrder == Spec => []RecordsInOrder
BY Invariance, PTL DEF IInv

\* After wait_idle, what the agent consumed is in the file, or was reported lost.
THEOREM ConsumedCallsRecorded == Spec => []ConsumedIsRecorded
BY Invariance, PTL DEF IInv
=============================================================================
