-------------------------------- MODULE Tuning --------------------------------
(***************************************************************************)
(* The rules of the learner (src/internal/adaptive) and the command        *)
(* hydra tune --apply (src/internal/cli/tune.go), beside the collector of  *)
(* the server it tunes.                                                    *)
(*                                                                         *)
(* Of the observations in the learner's file only how many there are of    *)
(* each event matters, of "high_latency" those near a restart.  That file  *)
(* is an input: no part of the program writes it.                          *)
(***************************************************************************)
EXTENDS Metrics

CONSTANTS
    Nothing,        \* a file that does not exist
    Learned,        \* what the learner's file may hold: a count for each event
    Behaviors,      \* the registry's entry as its owner may have written it
    MaxDebounce     \* bound: debounce_ms that is still tuned

Events == {"restart", "queue_full", "high_latency", "crash_loop"}
Parameters == {"max_restarts", "debounce_ms"}

ASSUME TuningConstants ==
    /\ Learned \subseteq [Events -> Nat]
    /\ Behaviors \subseteq [Parameters -> Nat]
    /\ MaxDebounce \in Nat

VARIABLES
    data,           \* the learner's file
    saved,          \* restarts_total in the state file
    behavior        \* the behavior of the server's entry in the registry

fileVars == <<data, saved, behavior>>
tuneVars == <<metricsVars, fileVars>>

TuneInit ==
    /\ NewCollector /\ clock = 1
    /\ data \in Learned \cup {Nothing} /\ saved = Nothing
    /\ behavior \in Behaviors

\* hydra run saves a snapshot of its collector every five seconds.
SaveState ==
    /\ saved' = restartsTotal
    /\ UNCHANGED <<metricsVars, data, behavior>>

\* hydra run ends and begins again, with a collector of its own.
RunAgain ==
    /\ latencies' = <<>> /\ requestsFailed' = 0 /\ queueWaits' = <<>> /\ restartTimes' = <<>>
    /\ clock' = 1
    /\ UNCHANGED fileVars

NewData ==
    /\ data' \in Learned
    /\ UNCHANGED <<metricsVars, saved, behavior>>

(***************************************************************************)
(* Rules                                                                   *)
(***************************************************************************)
\* The suggestion, if there is reason for it and the command trusts it: it wants a
\* confidence of more than 0.6, which is count / full and 1 at most.
Suggest(reason, parameter, suggested, count, full) ==
    IF reason /\ 10 * count > 6 * full THEN <<[parameter |-> parameter, suggested |-> suggested]>> ELSE <<>>

\* Mutated form: less than what was used, in order to be tight.
NewMaxTight(restarts) == IF restarts \div 2 < 3 THEN 3 ELSE restarts \div 2

NewMax(restarts) == IF (restarts * 3) \div 2 < 3 THEN 3 ELSE (restarts * 3) \div 2

analyzeRestartThreshold ==
    LET max == behavior["max_restarts"]
    IN  Suggest(data["restart"] >= 5 /\ saved > 0 /\ 2 * saved < max /\ NewMax(saved) < max,
                "max_restarts", NewMax(saved), data["restart"], 8)

analyzeQueueCapacity == Suggest(data["queue_full"] >= 10, "queue_size", 150, data["queue_full"], 30)

analyzeLatencySpikes ==
    Suggest(behavior["debounce_ms"] # 0 /\ data["high_latency"] > 5,
            "debounce_ms", 2 * behavior["debounce_ms"], data["high_latency"], 15)

analyzeCrashLoops ==
    Suggest(data["crash_loop"] > 10, "debounce_ms", 3 * behavior["debounce_ms"], data["crash_loop"], 20)

Analyze == analyzeRestartThreshold \o analyzeQueueCapacity \o analyzeLatencySpikes \o analyzeCrashLoops

\* A parameter takes the last of the suggestions made for it; the size of the queue is
\* not in the registry and stays.
Applied(suggestions) ==
    [p \in Parameters |->
        LET made == {i \in DOMAIN suggestions : suggestions[i].parameter = p}
        IN  IF made = {} THEN behavior[p] ELSE suggestions[Max(made)].suggested]

\* hydra tune --apply.
Tune ==
    /\ data # Nothing /\ saved # Nothing
    /\ Analyze # <<>>
    /\ behavior["debounce_ms"] <= MaxDebounce
    /\ behavior' = Applied(Analyze)
    /\ UNCHANGED <<metricsVars, data, saved>>

Collect ==
    \/ \E ms \in Latencies, success \in BOOLEAN : RecordRequest(ms, success)
    \/ \E ms \in Waits : RecordQueueWait(ms)
    \/ RecordRestart

TuneNext ==
    \/ (Collect \/ Tick) /\ UNCHANGED fileVars
    \/ SaveState \/ RunAgain \/ NewData \/ Tune

TuneSpec == TuneInit /\ [][TuneNext]_tuneVars
-------------------------------------------------------------------------------
CollectorTypeOK ==
    /\ latencies \in Seq(Latencies) /\ requestsFailed \in 0 .. requestsTotal
    /\ queueWaits \in Seq(Waits) /\ restartTimes \in Seq(Range(Instants))
    /\ clock \in DOMAIN Instants

FilesTypeOK ==
    /\ data \in Learned \cup {Nothing} /\ saved \in Nat \cup {Nothing}
    /\ behavior \in [Parameters -> Nat]

\* Types, and scores within their range (collector.go:282-290).
TuneTypeOK ==
    /\ CollectorTypeOK /\ FilesTypeOK
    /\ \A c \in DOMAIN HealthBreakdown : HealthBreakdown[c] \in 0 .. 100
    /\ WeightedScore(HealthBreakdown) \in 0 .. 100

\* At least so many requests took no longer than this, and so many no less.
Between(cut, p) ==
    /\ 100 * Cardinality({i \in DOMAIN latencies : 100 * latencies[i] <= cut}) >= p * (requestsTotal - 1)
    /\ 100 * Cardinality({i \in DOMAIN latencies : 100 * latencies[i] >= cut}) >= (100 - p) * (requestsTotal - 1)

\* A percentile lies between requests that took no longer and requests that took no
\* less, as many as its name says, and a higher one is never less (collector.go:263-279).
PercentilesAreOrdered ==
    LET cut == [p \in {50, 95, 99} |-> percentile(sorted(latencies), p)]
    IN  latencies # <<>> =>
            /\ cut[50] <= cut[95] /\ cut[95] <= cut[99]
            /\ \A p \in {50, 95, 99} : Between(cut[p], p)

\* A score moves the way of what has happened: a failure or a restart never raises its
\* score, a success never lowers that of the errors, a request or a wait as long as any
\* never raises that of the latency or the queue, and after the first ten seconds time
\* alone lowers none (collector.go:164-260).
ScoresFollow ==
    LET failed == requestsFailed' > requestsFailed
        asked == requestsTotal' > requestsTotal
    IN  /\ failed => calculateErrorScore' <= calculateErrorScore
        /\ asked /\ ~failed => calculateErrorScore' >= calculateErrorScore
        /\ asked /\ (\A i \in DOMAIN latencies : latencies[i] <= Last(latencies'))
                => calculateLatencyScore' <= calculateLatencyScore
        /\ queueWaits' # queueWaits /\ queueWaits' # <<>> /\ (\A i \in DOMAIN queueWaits : queueWaits[i] <= Last(queueWaits'))
                => calculateQueueScore' <= calculateQueueScore
        /\ restartsTotal' > restartsTotal
                => calculateRestartScore' <= calculateRestartScore /\ calculateUptimeScore' <= calculateUptimeScore
        /\ uptime' > uptime /\ uptime >= 10
                => /\ calculateUptimeScore' >= calculateUptimeScore /\ calculateRestartScore' >= calculateRestartScore
                   /\ calculateErrorScore' >= calculateErrorScore /\ calculateLatencyScore' >= calculateLatencyScore
                   /\ calculateQueueScore' >= calculateQueueScore
ScoresFollowEvents == [][ScoresFollow]_tuneVars

\* A limit of restarts that tune has lowered still lets through as many as the server
\* needed, and three at least; and it stays: from the same files no second tune lowers
\* it again (learner.go:97-113, tune.go:124-135).
TunedLimitHasRoom ==
    [][behavior'["max_restarts"] # behavior["max_restarts"] =>
        /\ behavior'["max_restarts"] < behavior["max_restarts"]
        /\ behavior'["max_restarts"] >= saved /\ behavior'["max_restarts"] >= 3
        /\ analyzeRestartThreshold' = <<>>]_tuneVars

(***************************************************************************)
(* What the comments say and the code does not do                          *)
(***************************************************************************)
\* collector.go:210 and 225: "50 score if P95 = 1000ms", "0 score if avg wait >= 1000ms".
ScoresMatchTheComments ==
    /\ latencies # <<>> /\ percentile(sorted(latencies), 95) = 100000 => calculateLatencyScore = 50
    /\ queueWaits # <<>> /\ total(queueWaits) >= 1000 * Len(queueWaits) => calculateQueueScore = 0
===============================================================================
