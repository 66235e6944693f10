------------------------------- MODULE Window -------------------------------
(***************************************************************************)
(* The arithmetic of measurement windows: client concurrency               *)
(* (replay/window.py), busy time (vllm_backend.union_seconds), a task's    *)
(* time by kind (report.execution_breakdown), the cohorts of a window and  *)
(* the percentiles of a distribution (replay/benchmark.py).  Times are     *)
(* integers; an interval is a record [left, right], a list of intervals a  *)
(* function.  A mean is given by its numerator.                            *)
(***************************************************************************)
EXTENDS Integers, Sequences, FiniteSets, FiniteSetsExt, SequencesExt, Ordering

Clip(i, start, end) == [left |-> Max({i.left, start}), right |-> Min({i.right, end})]

\* The points where the number of open intervals changes, and by how much.
Changes(I, start, end) ==
    LET clip == [k \in DOMAIN I |-> Clip(I[k], start, end)]
        K == {k \in DOMAIN I : clip[k].right > clip[k].left}
    IN [t \in {start, end} \cup {clip[k].left : k \in K} \cup {clip[k].right : k \in K} |->
          Cardinality({k \in K : clip[k].left = t}) - Cardinality({k \in K : clip[k].right = t})]

\* The sweep over those points in their order.
Sweep(changes, start) ==
    LET step(s, t) == [active |-> s.active + changes[t],
                       peak |-> Max({s.peak, s.active + changes[t]}),
                       area |-> s.area + s.active * (t - s.previous),
                       previous |-> t]
    IN FoldLeft(step, [active |-> 0, peak |-> 0, area |-> 0, previous |-> start],
                Ranked(DOMAIN changes, Less(DOMAIN changes)))

Timeline(I, start, end) == Sweep(Changes(I, start, end), start)

\* The rows that sorted() sees.
Rows(I) == {<<I[k].left, I[k].right, k>> : k \in DOMAIN I}

\* Mutant: the end of the last interval, not the furthest end so far.
UnionSecondsLastEnd(I) ==
    LET step(s, row) == [total |-> s.total + Max({0, row[2] - Max({row[1], s.end})}), end |-> row[2]]
    IN FoldLeft(step, [total |-> 0, end |-> -1], Ranked(Rows(I), Earlier(Rows(I)))).total

\* The length of the union of closed intervals, clipped before if at all.
UnionSeconds(I) ==
    LET none == -1   \* before every time
        step(s, row) == [total |-> s.total + Max({0, row[2] - Max({row[1], s.end})}),
                         end |-> Max({s.end, row[2]})]
    IN FoldLeft(step, [total |-> 0, end |-> none], Ranked(Rows(I), Earlier(Rows(I)))).total

\* A task's replay by kind of node; union and overlap from three unions.
ExecutionBreakdown(llm, tool) ==
    LET overlap == Max({0, UnionSeconds(llm) + UnionSeconds(tool) - UnionSeconds(llm \o tool)})
    IN [llm_only |-> UnionSeconds(llm) - overlap, tool_only |-> UnionSeconds(tool) - overlap,
        llm_tool_overlap |-> overlap]

\* summarize(): ends sort before starts at the same time.
Marks(I) == {<<I[k].left, 1, k>> : k \in DOMAIN I} \cup {<<I[k].right, -1, k>> : k \in DOMAIN I}
PeakInFlight(I) ==
    LET step(s, m) == [active |-> s.active + m[2], peak |-> Max({s.peak, s.active + m[2]})]
    IN FoldLeft(step, [active |-> 0, peak |-> 0], Ranked(Marks(I), Earlier(Marks(I)))).peak

\* The cohorts of a half-open window over rows [left, right, status].
In(t, start, end) == start <= t /\ t < end
SummarizeWindow(rows, start, end) ==
    LET admitted == {k \in DOMAIN rows : In(rows[k].left, start, end)}
        ended(status) == {k \in DOMAIN rows : rows[k].status = status /\ In(rows[k].right, start, end)}
    IN [admitted_in_window |-> Cardinality(admitted),
        completed_in_window |-> Cardinality(ended("completed")),
        failed_in_window |-> Cardinality(ended("failed")),
        incomplete_admission_cohort |-> Cardinality({k \in admitted : rows[k].status # "completed"})]

\* A percentile of sorted values, interpolated, in hundredths.
Percentile(values, p) ==
    LET offset == (Len(values) - 1) * p
        low == offset \div 100
        high == Min({low + 1, Len(values) - 1})
    IN values[low + 1] * 100 + (values[high + 1] - values[low + 1]) * (offset % 100)

-----------------------------------------------------------------------------
(* Reference definitions, second by second *)

\* How many intervals of I cover the second that begins at t.
Covering(I, t) == Cardinality({k \in DOMAIN I : I[k].left <= t /\ t < I[k].right})
Seconds(start, end) == start .. end - 1
Busy(I, start, end) == {t \in Seconds(start, end) : Covering(I, t) > 0}

\* The sweep gives the peak and the area that counting second by second gives,
\* whatever touches or crosses the boundary of the window, and nothing is open
\* when it ends (window.timeline); summarize() finds the same peak over a whole
\* run.
TimelineExact(I, start, end) ==
    LET result == Timeline(I, start, end)
    IN /\ result.peak = Max({Covering(I, t) : t \in Seconds(start, end)})
       /\ result.area = MapThenSumSet(LAMBDA t : Covering(I, t), Seconds(start, end))
       /\ result.active = 0
       /\ PeakInFlight(I) = Timeline(I, 0, Max({end} \cup {I[k].right : k \in DOMAIN I})).peak

\* Busy time is the seconds some interval covers, and the three parts of a
\* breakdown are the seconds of one kind only and of both (union_seconds).
UnionExact(llm, tool, end) ==
    LET L == Busy(llm, 0, end)
        T == Busy(tool, 0, end)
    IN ExecutionBreakdown(llm, tool) =
         [llm_only |-> Cardinality(L \ T), tool_only |-> Cardinality(T \ L),
          llm_tool_overlap |-> Cardinality(L \cap T)]

\* Two adjacent windows count every task once: neither twice nor not at all.
WindowsAdd(rows, start, middle, end) ==
    LET whole == SummarizeWindow(rows, start, end)
        first == SummarizeWindow(rows, start, middle)
        second == SummarizeWindow(rows, middle, end)
    IN \A field \in DOMAIN whole : whole[field] = first[field] + second[field]

\* A distribution's percentiles are in order and between its least and greatest.
PercentilesOrdered(values) ==
    /\ values[1] * 100 <= Percentile(values, 50) /\ Percentile(values, 50) <= Percentile(values, 95)
    /\ Percentile(values, 95) <= Percentile(values, 99)
    /\ Percentile(values, 99) <= values[Len(values)] * 100
=============================================================================
