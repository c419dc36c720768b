----------------------------- MODULE MCStateFiles -----------------------------
(* Constants of the TLC runs of StateFiles: a server that is started twice *)
(* and one beside it.                                                      *)
EXTENDS StateFiles, TLC

CONSTANTS i1, i2, j1, l1

ThreeInstances == {i1, i2, j1}
OneList == {l1}
NameOf == i1 :> 1 @@ i2 :> 1 @@ j1 :> 2
===============================================================================
