----------------------------- MODULE Diagnostics -----------------------------
(***************************************************************************)
(* DiagnosticAsyncScheduler (vllm_diagnostics.py): what it notes while the *)
(* native scheduler of vLLM looks up prefixes, admits, refuses and         *)
(* preempts requests, and what of it gets into the event file.  The native *)
(* scheduler and the requests are the environment.                         *)
(***************************************************************************)
EXTENDS Naturals, FiniteSetsExt

CONSTANTS Requests,  \* request ids of the inference engine
          MaxSteps   \* bound on the calls of schedule()

VARIABLES phase,      \* between two calls of schedule(), inside one, or shut down
          request,    \* the requests as vLLM has them
          scheduled,  \* num_scheduled_tokens of the running call
          tried,      \* requests the running call looked up
          pending,    \* _diag_pending: queries of a request not yet admitted
          counts,     \* _diag_counts of the current interval
          written,    \* the sum of the intervals in the file
          rows,       \* cache_at_admission rows of a request
          queried,    \* the sum of their "queries"
          truth       \* what really happened: steps, refusals, lookups, admissions

vars == <<phase, request, scheduled, tried, pending, counts, written, rows, queried, truth>>

Zero == [steps |-> 0, refusals |-> 0, lookups |-> 0]
Plus(a, b) == [steps |-> a.steps + b.steps, refusals |-> a.refusals + b.refusals,
               lookups |-> a.lookups + b.lookups]
Each(n) == [r \in Requests |-> n]
Total(f) == MapThenSumSet(LAMBDA r : f[r], Requests)

TypeOK ==
    /\ phase \in {"idle", "schedule", "closed"}
    /\ request \in [Requests -> {"new", "waiting", "running", "gone"}]
    /\ scheduled \subseteq Requests /\ tried \subseteq Requests
    /\ pending \in [Requests -> Nat] /\ rows \in [Requests -> Nat] /\ queried \in [Requests -> Nat]
    /\ {counts, written} \subseteq [steps : Nat, refusals : Nat, lookups : Nat]
    /\ truth \in [steps : Nat, refusals : Nat, lookups : [Requests -> Nat], admissions : [Requests -> Nat]]

Init ==
    /\ phase = "idle" /\ request = Each("new") /\ scheduled = {} /\ tried = {}
    /\ pending = Each(0) /\ counts = Zero /\ written = Zero /\ rows = Each(0) /\ queried = Each(0)
    /\ truth = [steps |-> 0, refusals |-> 0, lookups |-> Each(0), admissions |-> Each(0)]

Become(r, state) == request' = [request EXCEPT ![r] = state]

-----------------------------------------------------------------------------
(* The native scheduler *)

\* Requests arrive, finish and are aborted between two calls.
Arrive(r) ==
    /\ phase = "idle" /\ request[r] = "new" /\ Become(r, "waiting")
    /\ UNCHANGED <<phase, scheduled, tried, pending, counts, written, rows, queried, truth>>

Leave(r) ==
    /\ phase = "idle" /\ request[r] \in {"waiting", "running"} /\ Become(r, "gone")
    /\ UNCHANGED <<phase, scheduled, tried, pending, counts, written, rows, queried, truth>>

\* A call schedules some of the running requests.
Schedule ==
    /\ phase = "idle" /\ truth.steps < MaxSteps
    /\ phase' = "schedule" /\ tried' = {}
    /\ scheduled' \in SUBSET {r \in Requests : request[r] = "running"}
    /\ UNCHANGED <<request, pending, counts, written, rows, queried, truth>>

\* _blocked counts a refusal and keeps the first as an example.
Blocked ==
    /\ counts' = [counts EXCEPT !.refusals = @ + 1]
    /\ truth' = [truth EXCEPT !.refusals = @ + 1]

\* No blocks for a running request: some running request is preempted.
Preempt(r) ==
    /\ phase = "schedule" /\ request[r] = "running" /\ tried = {}
    /\ Become(r, "waiting")
    /\ scheduled' = scheduled \ {r}
    /\ Blocked
    /\ UNCHANGED <<phase, tried, pending, written, rows, queried>>

\* The prefix of a waiting request is looked up (_cache_lookup); then it is
\* admitted, or refused by can_fit_full_sequence or by allocate_slots.
TryWaiting(r) ==
    /\ phase = "schedule" /\ request[r] = "waiting" /\ r \notin tried
    /\ tried' = tried \cup {r}
    /\ pending' = [pending EXCEPT ![r] = @ + 1]
    /\ \/ /\ Become(r, "running")
          /\ scheduled' = scheduled \cup {r}
          /\ counts' = [counts EXCEPT !.lookups = @ + 1]
          /\ truth' = [truth EXCEPT !.lookups[r] = @ + 1, !.admissions[r] = @ + 1]
       \/ /\ counts' = [counts EXCEPT !.lookups = @ + 1, !.refusals = @ + 1]
          /\ truth' = [truth EXCEPT !.lookups[r] = @ + 1, !.refusals = @ + 1]
          /\ UNCHANGED <<request, scheduled>>
    /\ UNCHANGED <<phase, written, rows, queried>>

-----------------------------------------------------------------------------
(* The observations after it *)

\* _flush: the interval is written and cleared, and requests that left are
\* forgotten.  now is what is counted, waiting what is pending by then.
Flush(now, waiting) ==
    /\ written' = Plus(written, now)
    /\ counts' = Zero
    /\ pending' = [r \in Requests |-> IF request[r] = "gone" THEN 0 ELSE waiting[r]]

\* Mutant: the entry of an admitted request is read but not removed.
ObserveKeeping ==
    /\ phase = "schedule" /\ phase' = "idle"
    /\ rows' = [r \in Requests |-> IF r \in scheduled /\ pending[r] > 0 THEN rows[r] + 1 ELSE rows[r]]
    /\ queried' = [r \in Requests |-> IF r \in scheduled THEN queried[r] + pending[r] ELSE queried[r]]
    /\ truth' = [truth EXCEPT !.steps = @ + 1]
    /\ counts' = [counts EXCEPT !.steps = @ + 1]
    /\ UNCHANGED <<request, scheduled, tried, pending, written>>

\* A row for every scheduled request with an entry; after a second, a flush.
Observe ==
    /\ phase = "schedule" /\ phase' = "idle"
    /\ rows' = [r \in Requests |-> IF r \in scheduled /\ pending[r] > 0 THEN rows[r] + 1 ELSE rows[r]]
    /\ queried' = [r \in Requests |-> IF r \in scheduled THEN queried[r] + pending[r] ELSE queried[r]]
    /\ truth' = [truth EXCEPT !.steps = @ + 1]
    /\ LET now  == [counts EXCEPT !.steps = @ + 1]
           left == [r \in Requests |-> IF r \in scheduled THEN 0 ELSE pending[r]] IN
       \/ Flush(now, left)
       \/ counts' = now /\ pending' = left /\ UNCHANGED written
    /\ UNCHANGED <<request, scheduled, tried>>

Shutdown ==
    /\ phase = "idle" /\ phase' = "closed"
    /\ Flush(counts, pending)
    /\ UNCHANGED <<request, scheduled, tried, rows, queried, truth>>

Next ==
    \/ \E r \in Requests : Arrive(r) \/ Leave(r) \/ Preempt(r) \/ TryWaiting(r)
    \/ Schedule \/ Observe \/ Shutdown

Spec == Init /\ [][Next]_vars

-----------------------------------------------------------------------------
(* Properties *)

\* The event file is right about every request and every interval: one row per
\* admission, also of a request that was refused or preempted in between, whose
\* queries are the lookups since the one before; the intervals and the open one
\* add up to all steps, refusals and lookups; and requests that left are not
\* kept beyond a flush.
DiagnosticsExact ==
    /\ phase # "schedule" => \A r \in Requests : rows[r] = truth.admissions[r]
    /\ \A r \in Requests : request[r] # "gone" => queried[r] + pending[r] = truth.lookups[r]
    /\ Plus(written, counts) = [steps |-> truth.steps, refusals |-> truth.refusals,
                                lookups |-> Total(truth.lookups)]
    /\ phase = "closed" => counts = Zero /\ \A r \in Requests : request[r] = "gone" => pending[r] = 0
=============================================================================
