--------------------------- MODULE MCMcpRequests ----------------------------
(* Instances of McpRequests for TLC. *)
EXTENDS McpRequests, TLC

CONSTANTS c1, c2, c3, gw1, gw2, d1, d2

\* Two calls reach one isolate, the third another one.
TwoIsolates == [c \in Calls |-> IF c = c3 THEN gw2 ELSE gw1]
OtherContent == (c1 :> d1) @@ (c2 :> d2) @@ (c3 :> d1)

\* One isolate runs ahead of the repository, the other behind it.
SkewApart == (gw1 :> 1) @@ (gw2 :> -1)
=============================================================================
