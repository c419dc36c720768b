------------------------------ MODULE MCWatcher ------------------------------
(* Constants of the TLC runs of Watcher and WatchTree. *)
EXTENDS WatchTree, TLC

CONSTANTS py, sub, deep, tmp, top

AllPaths == {py} \cup {sub, deep, tmp}
OnlySource == {py}
Nested == {sub, deep, tmp}
Places == (py :> sub) @@ (sub :> top) @@ (deep :> sub) @@ (tmp :> top)
OnlyTmp == {tmp}
==============================================================================
