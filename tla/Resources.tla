----------------------------- MODULE Resources -----------------------------
(***************************************************************************)
(* A node's metric samples: what the sampler derives from /proc and the    *)
(* accounts taken of them (metrics.py, report.resource_counts).            *)
(* A sample is a record [at, series, gpus, io]: series is a function from  *)
(* counter names to values or NoSeries, gpus the power of each GPU or None,*)
(* io the counters of the node's devices.                                  *)
(***************************************************************************)
EXTENDS Integers, Sequences, FiniteSets, FiniteSetsExt, SequencesExt

CONSTANTS MaxGap,      \* seconds between samples that count as covered, 5 in the code
          GPUs,        \* number of GPUs an inference node must show, 4 in the code
          QueryKeys,   \* series of prefix-cache queries,
          HitKeys,     \* of prefix-cache hits,
          CounterKeys, \* and of all counters that are reported
          EnergyScale  \* energies are given in units of 1 / EnergyScale joules

NoSeries == [none |-> 0]
None == -1
Total(S, f) == MapThenSumSet(LAMBDA k : f[k], S)

\* The elements of s at the places in I, in their order.
Selected(s, I) ==
    LET kept[i \in 0 .. Len(s)] ==
            IF i = 0 THEN <<>> ELSE IF i \in I THEN Append(kept[i - 1], s[i]) ELSE kept[i - 1]
    IN kept[Len(s)]

-----------------------------------------------------------------------------
(* HardwareSampler: two readings of /proc/stat, fields as a sequence with   *)
(* idle and iowait in the places 4 and 5                                    *)

Delta(old, new) == [i \in DOMAIN new |-> new[i] - old[i]]

\* Busy ticks and all ticks since the previous reading; <<>> is no value.
CpuBusy(old, new) ==
    LET delta == Delta(old, new)
        total == Total(DOMAIN delta, delta)
    IN IF total > 0 /\ \A i \in DOMAIN delta : delta[i] >= 0
       THEN <<total - delta[4] - delta[5], total>> ELSE <<>>

\* nvidia-smi may be absent, time out or show less than the node has.
GpuPower(gpus) ==
    IF Len(gpus) = GPUs /\ \A i \in DOMAIN gpus : gpus[i] # None
    THEN Total(DOMAIN gpus, gpus) ELSE None

PowerSamples(samples) ==
    LET total == [i \in DOMAIN samples |-> [at |-> samples[i].at, power |-> GpuPower(samples[i].gpus)]]
    IN Selected(total, {i \in DOMAIN total : total[i].power # None})

-----------------------------------------------------------------------------
(* Counters over a sequence of readings *)

In(t, start, end) == start <= t /\ t < end
InWindow(samples, start, end) == Selected(samples, {i \in DOMAIN samples : In(samples[i].at, start, end)})
Readings(samples) == Selected(samples, {i \in DOMAIN samples : samples[i].series # NoSeries})

\* Mutant: a counter that starts again from zero is not noticed.
InvalidMissing(readings) ==
    UNION {SymDiff(DOMAIN readings[i].series, DOMAIN readings[i + 1].series) : i \in 1 .. Len(readings) - 1}

\* Series that disappear, appear, or fall between two readings.
Invalid(readings) ==
    UNION {LET old == readings[i].series
               new == readings[i + 1].series
           IN SymDiff(DOMAIN old, DOMAIN new)
                \cup {k \in DOMAIN old \cap DOMAIN new : new[k] < old[k]} : i \in 1 .. Len(readings) - 1}

\* summarize_metrics: deltas inside the window, from two readings on.
CounterDeltas(samples, start, end) ==
    LET readings == Readings(InWindow(samples, start, end))
        first == readings[1].series
        last == readings[Len(readings)].series
        keys == (DOMAIN first \cup DOMAIN last) \cap CounterKeys
        resets == keys \cap Invalid(readings)
    IN IF Len(readings) < 2 THEN [deltas |-> <<>>, resets |-> {}]
       ELSE [deltas |-> [k \in keys \ resets |-> last[k] - first[k]], resets |-> resets]

\* Hits over queries, when neither was reset; <<>> is no ratio.
PrefixHitRatio(c) ==
    LET queries == Total(DOMAIN c.deltas \cap QueryKeys, c.deltas)
    IN IF queries # 0 /\ c.resets \cap (QueryKeys \cup HitKeys) = {}
       THEN <<Total(DOMAIN c.deltas \cap HitKeys, c.deltas), queries>> ELSE <<>>

\* resource_counts: the whole run, whatever the window.
WholeRunCounters(samples) ==
    LET readings == [i \in DOMAIN Readings(samples) |->
                       [series |-> Restrict(Readings(samples)[i].series,
                                            CounterKeys \cap DOMAIN Readings(samples)[i].series)]]
        first == readings[1].series
        last == readings[Len(readings)].series
        resets == Invalid(readings)
    IN IF readings = <<>> THEN [deltas |-> <<>>, resets |-> {}]
       ELSE [deltas |-> [k \in (DOMAIN first \cap DOMAIN last) \ resets |-> last[k] - first[k]],
             resets |-> resets]

\* A device's traffic between the first and the last sample of the window.
NodeIo(samples, start, end) ==
    LET inside == InWindow(samples, start, end)
        old == inside[1].io
        new == inside[Len(inside)].io
    IN IF inside = <<>> THEN <<>>
       ELSE [d \in DOMAIN old \cap DOMAIN new |-> IF new[d] >= old[d] THEN new[d] - old[d] ELSE None]

\* Samples reach from the window's start to its end without a long gap.
WindowCoverage(samples, start, end) ==
    LET inside == InWindow(samples, start, end)
    IN /\ inside # <<>>
       /\ inside[1].at - start <= MaxGap /\ end - inside[Len(inside)].at <= MaxGap
       /\ \A i \in 1 .. Len(inside) - 1 : inside[i + 1].at - inside[i].at <= MaxGap

\* GPU energy: trapezoids between neighbouring power samples, clipped to the
\* window; None without samples on both sides or across a long gap.
Energy(samples, start, end) ==
    LET power == PowerSamples(samples)
        n == Len(power)
        left(i) == Max({power[i].at, start})
        right(i) == Min({power[i + 1].at, end})
        crossing == {i \in 1 .. n - 1 : right(i) > left(i)}
        gap(i) == power[i + 1].at - power[i].at
        trapezoid == [i \in crossing |->
                        (2 * power[i].power * gap(i)
                           + (power[i + 1].power - power[i].power)
                               * (left(i) + right(i) - 2 * power[i].at))
                          * (right(i) - left(i)) * (EnergyScale \div (2 * gap(i)))]
    IN IF n > 0 /\ power[1].at <= start /\ power[n].at >= end
            /\ \A i \in crossing : gap(i) <= MaxGap
       THEN Total(crossing, trapezoid) ELSE None

-----------------------------------------------------------------------------
(* What the accounts owe to the samples *)

\* A delta is reported only for a series that every reading of its window has
\* and that never falls there, and a window's delta is never more than the
\* whole run's: a restarted server cannot pass for progress.
DeltasAreProgress(samples, start, end) ==
    LET window == CounterDeltas(samples, start, end)
        whole == WholeRunCounters(samples)
        steady(k, readings) == \A i \in DOMAIN readings : k \in DOMAIN readings[i].series
    IN /\ \A k \in DOMAIN window.deltas :
            /\ window.deltas[k] >= 0 /\ steady(k, Readings(InWindow(samples, start, end)))
            /\ k \in DOMAIN whole.deltas => window.deltas[k] <= whole.deltas[k]
       /\ \A k \in DOMAIN whole.deltas :
            /\ whole.deltas[k] >= 0 /\ steady(k, Readings(samples))
            /\ k \notin window.resets
       /\ PrefixHitRatio(window) # <<>> => window.resets \cap (QueryKeys \cup HitKeys) = {}

\* The energy is the integral of the power line through the samples, taken
\* second by second, and it is given only where that line exists.
EnergyIsIntegral(samples, start, end) ==
    LET power == PowerSamples(samples)
        before(t) == Max({i \in DOMAIN power : power[i].at <= t})
        second == [t \in start .. end - 1 |->
                     LET i == before(t)
                         gap == power[i + 1].at - power[i].at
                     IN (2 * power[i].power * gap + (power[i + 1].power - power[i].power)
                           * (2 * (t - power[i].at) + 1)) * (EnergyScale \div (2 * gap))]
        known == /\ power # <<>> /\ power[1].at <= start /\ power[Len(power)].at >= end
                 /\ \A t \in start .. end - 1 : power[before(t) + 1].at - power[before(t)].at <= MaxGap
    IN Energy(samples, start, end) = IF known THEN Total(start .. end - 1, second) ELSE None

\* Where the samples cover the window, no second of it is further than MaxGap
\* from the next sample on either side.
CoverageIsClose(samples, start, end) ==
    WindowCoverage(samples, start, end) =>
        \A t \in start .. end - 1 :
            \E i \in DOMAIN samples : samples[i].at - t \in -MaxGap .. MaxGap

\* A logical CPU is between idle and fully busy.
CpuBusySane(old, new) ==
    LET busy == CpuBusy(old, new) IN busy # <<>> => 0 <= busy[1] /\ busy[1] <= busy[2]
=============================================================================
