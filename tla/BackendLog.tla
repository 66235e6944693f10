----------------------------- MODULE BackendLog -----------------------------
(***************************************************************************)
(* One replica's backend.jsonl: what the hook in vLLM writes               *)
(* (vllm_backend.install_request_logger) and the three readers of it:      *)
(* summarize_backend over a whole run, summarize_event_window and          *)
(* report.backend_counts over a window.  A request is a record             *)
(*   [scheduled, chunks, reason, prompt, cached]                           *)
(* whose chunks are a sequence of [at, count]; reason "none" means it has  *)
(* not ended.  Bad stands for a ValueError.                                *)
(***************************************************************************)
EXTENDS Window

CONSTANT BinSeconds   \* width of a time-series bin, 60 in the code

Bad == [status |-> "error"]
Total(S, f) == MapThenSumSet(LAMBDA x : f[x], S)
EventTotal(E, field) == Total(E, [e \in E |-> e[field]])
RowTotal(rows, K, field) == Total(K, [k \in K |-> rows[k][field]])

-----------------------------------------------------------------------------
(* The hook: an event per chunk with tokens, and one per finished request *)

Counts(r) == [i \in DOMAIN r.chunks |-> r.chunks[i].count]
Tokens(r) == Total(DOMAIN r.chunks, Counts(r))
Generated(r, i) == Total(1 .. i - 1, Counts(r))   \* before chunk i

\* Mutant: every token counts as decoded.
TokenEventsAllDecoded(R) ==
    UNION {{[request_id |-> k, chunk |-> i, at |-> R[k].chunks[i].at, output |-> R[k].chunks[i].count,
             decode |-> R[k].chunks[i].count] :
               i \in {j \in DOMAIN R[k].chunks : R[k].chunks[j].count > 0}} : k \in DOMAIN R}

\* The first token comes from the prefill, so it is not counted as decoded.
TokenEvents(R) ==
    UNION {{[request_id |-> k, chunk |-> i, at |-> R[k].chunks[i].at, output |-> R[k].chunks[i].count,
             decode |-> R[k].chunks[i].count - (IF Generated(R[k], i) = 0 THEN 1 ELSE 0)] :
               i \in {j \in DOMAIN R[k].chunks : R[k].chunks[j].count > 0}} : k \in DOMAIN R}

First(r) == r.chunks[SelectInSeq(r.chunks, LAMBDA c : c.count > 0)].at
LastAt(r) == r.chunks[SelectLastInSeq(r.chunks, LAMBDA c : c.count > 0)].at

Finished(R) ==
    LET row(r) == [left |-> r.scheduled, first |-> IF Tokens(r) = 0 THEN 0 ELSE First(r),
                   right |-> IF Tokens(r) = 0 THEN 0 ELSE LastAt(r),
                   reason |-> r.reason, output |-> Tokens(r), prompt |-> r.prompt, cached |-> r.cached]
    IN [k \in {j \in DOMAIN R : R[j].reason # "none"} |-> row(R[k])]

-----------------------------------------------------------------------------
(* The readers *)

\* Every request with tokens has its end, and the totals are the same.
TotalsMatch(events, rows) ==
    /\ {e.request_id : e \in events} = DOMAIN rows
    /\ \A k \in DOMAIN rows :
         EventTotal({e \in events : e.request_id = k}, "output") = rows[k].output

InOrder(row) == row.left <= row.first /\ row.first <= row.right
Successful(row) == row.reason \in {"stop", "length"}
Span(rows, K, from) == [k \in K |-> [left |-> rows[k][from], right |-> rows[k].right]]
Clipped(I, start, end) == [k \in DOMAIN I |-> Clip(I[k], start, end)]

\* The whole run.
SummarizeBackend(rows) ==
    LET K == DOMAIN rows
    IN CASE K = {} -> [status |-> "unavailable"]
         [] \E k \in K : ~InOrder(rows[k]) \/ ~Successful(rows[k]) \/ rows[k].output < 1 -> Bad
         [] OTHER -> [status |-> "measured", output |-> RowTotal(rows, K, "output"),
                      decoded |-> Total(K, [k \in K |-> rows[k].output - 1]),
                      active |-> UnionSeconds(Span(rows, K, "left")),
                      decode |-> UnionSeconds(Span(rows, K, "first"))]

\* A window by its token events; requests outside of it are not examined.
SummarizeEventWindow(events, rows, start, end) ==
    LET touching == {k \in DOMAIN rows : rows[k].right >= start /\ rows[k].left < end}
        decoding == {k \in touching : Min({rows[k].right, end}) > Max({rows[k].first, start})}
        tokens == {e \in events : In(e.at, start, end)}
    IN IF \/ events = {} \/ ~TotalsMatch(events, rows)
          \/ \E k \in DOMAIN rows : ~InOrder(rows[k])
          \/ \E k \in touching : ~Successful(rows[k])
       THEN Bad
       ELSE [status |-> "measured", output |-> EventTotal(tokens, "output"),
             decoded |-> EventTotal(tokens, "decode"),
             active |-> UnionSeconds(Clipped(Span(rows, touching, "left"), start, end)),
             decode |-> UnionSeconds(Clipped(Span(rows, decoding, "first"), start, end))]

\* Bins and halves of the window; a time on the middle is in the second half.
BinCount(start, end) == (end - start + BinSeconds - 1) \div BinSeconds
BinOf(t, start, end) == Min({(t - start) \div BinSeconds, BinCount(start, end) - 1})
BinLength(i, start, end) == Min({BinSeconds, end - start - i * BinSeconds})
HalfOf(t, start, end) == IF 2 * t >= start + end THEN 1 ELSE 0
Bins(at, f, start, end) ==
    [i \in 0 .. BinCount(start, end) - 1 |-> Total({x \in DOMAIN at : BinOf(at[x], start, end) = i}, f)]
Halves(at, f, start, end) == [i \in 0 .. 1 |-> Total({x \in DOMAIN at : HalfOf(at[x], start, end) = i}, f)]

\* A window for the multi-node report: every request of the run must be sound.
BackendCounts(events, rows, start, end) ==
    LET K == DOMAIN rows
        tokens == {e \in events : In(e.at, start, end)}
        active == {k \in K : rows[k].right > start /\ rows[k].left < end}
        decoding == {k \in K : rows[k].right > start /\ rows[k].first < end}
        cache == {k \in K : In(rows[k].first, start, end)}
        at == [e \in tokens |-> e.at]
        generated == [e \in tokens |-> e.output]
        first == [k \in cache |-> rows[k].first]
        prompt == [k \in cache |-> rows[k].prompt]
    IN IF \/ K = {} \/ ~TotalsMatch(events, rows)
          \/ \E k \in K : ~InOrder(rows[k]) \/ ~Successful(rows[k]) \/ rows[k].output < 1
                          \/ rows[k].cached \notin 0 .. rows[k].prompt
       THEN Bad
       ELSE [status |-> "measured", output |-> EventTotal(tokens, "output"),
             decoded |-> EventTotal(tokens, "decode"),
             active |-> UnionSeconds(Clipped(Span(rows, active, "left"), start, end)),
             decode |-> UnionSeconds(Clipped(Span(rows, decoding, "first"), start, end)),
             prompt |-> Total(cache, prompt),
             cached |-> RowTotal(rows, cache, "cached"),
             output_bins |-> Bins(at, generated, start, end), output_halves |-> Halves(at, generated, start, end),
             prompt_bins |-> Bins(first, prompt, start, end), prompt_halves |-> Halves(first, prompt, start, end)]

-----------------------------------------------------------------------------
(* What the readers owe to each other *)

Fields == {"output", "decoded", "active", "decode"}

\* Whatever the report accepts the event window accepts too, with the same
\* tokens and busy times; both are the whole run's when the window covers it,
\* as is the hook's count of decoded tokens; and the bins and the halves share
\* out the window's totals and length.
AccountsAgree(R, start, end) ==
    LET events == TokenEvents(R)
        rows == Finished(R)
        counts == BackendCounts(events, rows, start, end)
        window == SummarizeEventWindow(events, rows, start, end)
        whole == SummarizeBackend(rows)
        total(f) == Total(DOMAIN f, f)
        lengths == [i \in 0 .. BinCount(start, end) - 1 |-> BinLength(i, start, end)]
        covered == \A k \in DOMAIN rows : start <= rows[k].left /\ rows[k].right < end
    IN counts.status = "measured" =>
         /\ window.status = "measured" /\ whole.status = "measured"
         /\ \A f \in Fields : counts[f] = window[f] /\ (covered => counts[f] = whole[f])
         /\ total(counts.output_bins) = counts.output /\ total(counts.output_halves) = counts.output
         /\ total(counts.prompt_bins) = counts.prompt /\ total(counts.prompt_halves) = counts.prompt
         /\ total(lengths) = end - start /\ \A i \in DOMAIN lengths : lengths[i] > 0

\* A log of a run that has not ended, or that contains an aborted request, is
\* no measurement to the report; the other reader lets an abort outside of its
\* window pass.
OnlyCompleteLogs(R, start, end) ==
    (\E k \in DOMAIN R : R[k].reason = "abort" \/ (R[k].reason = "none" /\ Tokens(R[k]) > 0))
      => BackendCounts(TokenEvents(R), Finished(R), start, end) = Bad
=============================================================================
