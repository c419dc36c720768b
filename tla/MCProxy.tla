------------------------------- MODULE MCProxy -------------------------------
(* Constants of the TLC runs of Proxy. *)
EXTENDS Proxy, TLC

CONSTANTS u1, u2, hydra_restart, other_tool

OneUri == {u1}
TwoUris == {u1, u2}

\* The client begins with initialize, or has begun before hydra was restarted.
OfSession == [i \in 1 .. MaxRequests |->
                IF i = 1 THEN {"initialize", "subscribe"} ELSE {"list", "subscribe", "unsubscribe"}]

Hydra == <<hydra_restart>>
AnyTools == {<<other_tool>>, <<other_tool, hydra_restart>>}
AnyUri == Permutations(Uris)
==============================================================================
