--------------------------- MODULE MCMcpDelivery ----------------------------
(* Instances of McpDelivery for TLC. *)
EXTENDS McpDelivery, TLC

CONSTANTS c1, c2, c3, d1, d2, x, y, k1, k2

\* c1 and c2 send one request id with different content; c3 has another read.
TwoReads == [c \in Callers |-> IF c = c3 THEN d2 ELSE d1]
OtherContent == [c \in Callers |-> IF c = c2 THEN y ELSE x]

\* c3's read is the younger one; its clock is ahead of the mailbox's.
Created == [c \in Callers |-> IF c = c3 THEN 1 ELSE 0]
Expires == [c \in Callers |-> IF c = c3 THEN 3 ELSE 2]
RankOf == [d \in Deliveries |-> IF d = d1 THEN 2 ELSE 1]

\* The route's consumers are alike.
AnyConsumer == Permutations(Consumers)
=============================================================================
