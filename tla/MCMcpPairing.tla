---------------------------- MODULE MCMcpPairing ----------------------------
(* Instances of McpPairing for TLC. *)
EXTENDS McpPairing, TLC

CONSTANTS a1, a2, a3

\* One worker's clock is ahead of the repository's, one behind, one exact.
SkewApart == [c \in Calls |-> CASE c = a1 -> 1 [] c = a2 -> -1 [] OTHER -> 0]
=============================================================================
