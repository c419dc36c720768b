---------------------------- MODULE MCMessagePath ----------------------------
(* Constants of the TLC runs of MessagePath. *)
EXTENDS MessagePath

PerEnd(client, child) == [e \in Ends |-> IF e = "client" THEN client ELSE child]

Noisy == PerEnd({"rpc"}, {"rpc", "text"})
TwoAndThree == PerEnd(2, 3)
TwoAndFour == PerEnd(2, 4)
BothRead == Ends
OnlyClientReads == {"client"}
LspChild == PerEnd({"rpc"}, {"text", "glued"})
ListingChild == PerEnd({"rpc"}, {"rpc", "array"})
===============================================================================
