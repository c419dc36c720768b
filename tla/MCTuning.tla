------------------------------ MODULE MCTuning ------------------------------
(* Constants of the TLC runs of Tuning. *)
EXTENDS Tuning

Durations == {99, 1000, 5000}
SomeWaits == {9, 1000}

\* Before and at the ten seconds that the scores ask for, at the end of the first hour
\* and half an hour later.
Clock == <<1, 10, 3600, 5400>>

Counts(r, q, l, c) ==
    [e \in Events |-> CASE e = "restart" -> r [] e = "queue_full" -> q [] e = "high_latency" -> l [] OTHER -> c]

\* On both sides of the thresholds of each rule.
SomeLearned == {Counts(5, 18, 10, 12), Counts(4, 19, 9, 13)}

SomeBehaviors ==
    {[max_restarts |-> 0, debounce_ms |-> 0], [max_restarts |-> 10, debounce_ms |-> 500]}
===============================================================================
