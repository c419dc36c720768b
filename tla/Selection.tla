------------------------------ MODULE Selection ------------------------------
(***************************************************************************)
(* Elements of a sequence, in their order: SelectSeq for a set instead of  *)
(* a predicate, defined so that it can be reasoned about.                  *)
(***************************************************************************)
EXTENDS Integers, Sequences

\* What is selected of the first i elements, for every i.
SelectedUpTo(s, K) ==
    LET upTo[i \in 0 .. Len(s)] ==
            IF i = 0 THEN <<>>
            ELSE IF s[i] \in K THEN Append(upTo[i - 1], s[i]) ELSE upTo[i - 1]
    IN  upTo

Selected(s, K) == SelectedUpTo(s, K)[Len(s)]
==============================================================================
