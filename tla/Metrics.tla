------------------------------- MODULE Metrics -------------------------------
(***************************************************************************)
(* The collector of a server's metrics and the scores of its health        *)
(* (src/internal/metrics/collector.go, types.go).                          *)
(*                                                                         *)
(* Durations are whole milliseconds, as the code takes them; a percentile  *)
(* is given in hundredths of one.  The code computes with floats and cuts  *)
(* the result off: the same as the integer division here, but for the      *)
(* rounding of floats.                                                     *)
(***************************************************************************)
EXTENDS Integers, FiniteSets, SequencesExt

CONSTANTS
    Latencies,      \* durations of requests, in ms
    Waits,          \* times in the queue, in ms
    Instants,       \* the seconds of uptime at which the clock stands in turn
    MaxEvents       \* bound: recorded events of one run of hydra

ASSUME MetricsConstants ==
    /\ Latencies \subseteq Nat /\ Waits \subseteq Nat
    /\ Instants \in Seq(Nat \ {0}) /\ Instants # <<>>
    /\ \A i, j \in DOMAIN Instants : i < j => Instants[i] < Instants[j]
    /\ MaxEvents \in Nat

VARIABLES
    latencies,      \* c.latencies
    requestsFailed, \* c.requestsFailed
    queueWaits,     \* c.queueWaits
    restartTimes,   \* c.restartTimes, in seconds from the start
    clock           \* the index of the instant it is

collector == <<latencies, requestsFailed, queueWaits, restartTimes>>
metricsVars == <<collector, clock>>

NewCollector == latencies = <<>> /\ requestsFailed = 0 /\ queueWaits = <<>> /\ restartTimes = <<>>

requestsTotal == Len(latencies)
restartsTotal == Len(restartTimes)
uptime == Instants[clock]

Room == Len(latencies) + Len(queueWaits) + Len(restartTimes) < MaxEvents

RecordRequest(ms, success) ==
    /\ Room
    /\ latencies' = Append(latencies, ms)
    /\ requestsFailed' = IF success THEN requestsFailed ELSE requestsFailed + 1
    /\ UNCHANGED <<queueWaits, restartTimes, clock>>

RecordQueueWait(ms) ==
    /\ Room
    /\ queueWaits' = Append(queueWaits, ms)
    /\ UNCHANGED <<latencies, requestsFailed, restartTimes, clock>>

RecordRestart ==
    /\ Room
    /\ restartTimes' = Append(restartTimes, uptime)
    /\ UNCHANGED <<latencies, requestsFailed, queueWaits, clock>>

Tick ==
    /\ clock < Len(Instants)
    /\ clock' = clock + 1
    /\ UNCHANGED collector

(***************************************************************************)
(* Scores                                                                  *)
(***************************************************************************)
clamp(value) == IF value < 0 THEN 0 ELSE IF value > 100 THEN 100 ELSE value

\* sort.Float64s: the k-th element is the least that at least k are no greater than.
sorted(s) ==
    [k \in DOMAIN s |-> Min({x \in Range(s) : Cardinality({i \in DOMAIN s : s[i] <= x}) >= k})]

\* Mutated form: the two neighbours have each other's weight.
interpolateSwapped(low, high, weight) == low * weight + high * (100 - weight)

\* In hundredths: between two neighbours the weight is that of the rank's fraction.
interpolate(low, high, weight) == low * (100 - weight) + high * weight

\* Of a sequence that is sorted.
percentile(of, p) ==
    LET rank == p * (Len(of) - 1)
        lower == rank \div 100
        weight == rank % 100
    IN  IF weight = 0 THEN 100 * of[lower + 1]
        ELSE interpolate(of[lower + 1], of[lower + 2], weight)

\* The sum of the first i elements, for every i.
totalUpTo(s) ==
    LET upTo[i \in 0 .. Len(s)] == IF i = 0 THEN 0 ELSE upTo[i - 1] + s[i]
    IN  upTo

total(s) == totalUpTo(s)[Len(s)]

calculateUptimeScore ==
    IF uptime < 10 THEN 95 ELSE clamp(100 - (restartsTotal * 3600 * 20) \div uptime)

calculateErrorScore ==
    IF requestsTotal = 0 THEN 100 ELSE clamp(100 - (requestsFailed * 200) \div requestsTotal)

calculateLatencyScore ==
    IF latencies = <<>> THEN 100 ELSE clamp(100 - (percentile(sorted(latencies), 95) - 10000) \div 4900)

calculateQueueScore ==
    IF queueWaits = <<>> THEN 100
    ELSE clamp(100 - (total(queueWaits) - 10 * Len(queueWaits)) \div (10 * Len(queueWaits)))

lookback == IF uptime < 3600 THEN uptime ELSE 3600

\* Mutated form: the restarts before the hour count, not those in it.
olderRestarts == {i \in DOMAIN restartTimes : restartTimes[i] <= uptime - lookback}

recentRestarts == {i \in DOMAIN restartTimes : restartTimes[i] > uptime - lookback}

calculateRestartScore ==
    IF restartsTotal = 0 THEN 100
    ELSE IF uptime < 10 THEN clamp(100 - restartsTotal * 10)
    ELSE clamp(100 - Cardinality(recentRestarts) * 10)

HealthBreakdown ==
    [uptime |-> calculateUptimeScore, errors |-> calculateErrorScore, latency |-> calculateLatencyScore,
     queue |-> calculateQueueScore, restarts |-> calculateRestartScore]

WeightedScore(h) ==
    (30 * h.uptime + 25 * h.errors + 20 * h.latency + 15 * h.queue + 10 * h.restarts) \div 100
===============================================================================
