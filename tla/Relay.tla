-------------------------------- MODULE Relay --------------------------------
(***************************************************************************)
(* What `hydra run` is to its two ends: a line each way.  What an end says *)
(* reaches the other in the order in which it was said, once, and nothing  *)
(* else does.  A line may break, and then loses what was last said on it.  *)
(***************************************************************************)
EXTENDS Sequences, SequencesExt

CONSTANTS
    Ends,       \* the two ends
    Messages    \* what may be said

VARIABLES
    flow,       \* flow[e] was said by e and not yet heard by the other end
    heard,      \* heard[e] is what e has heard
    broken      \* the ends whose line is broken

relayVars == <<flow, heard, broken>>

Init ==
    /\ flow = [e \in Ends |-> <<>>]
    /\ heard = [e \in Ends |-> <<>>]
    /\ broken = {}

\* On a broken line nothing is taken any more.
Say(e, m) ==
    /\ e \notin broken
    /\ flow' = [flow EXCEPT ![e] = Append(@, m)]
    /\ UNCHANGED <<heard, broken>>

Hear(e) ==
    \E from \in Ends \ {e} :
        /\ flow[from] # <<>>
        /\ heard' = [heard EXCEPT ![e] = Append(@, Head(flow[from]))]
        /\ flow' = [flow EXCEPT ![from] = Tail(@)]
        /\ UNCHANGED broken

Break ==
    /\ broken \subseteq broken' /\ broken' \subseteq Ends
    /\ DOMAIN flow' = Ends
    /\ \A e \in Ends :
        \/ flow'[e] = flow[e]
        \/ e \in broken' /\ IsPrefix(flow'[e], flow[e])
    /\ UNCHANGED heard

Next ==
    \/ \E e \in Ends, m \in Messages : Say(e, m)
    \/ \E e \in Ends : Hear(e)
    \/ Break

Spec == Init /\ [][Next]_relayVars
==============================================================================
