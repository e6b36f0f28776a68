---------------------------- MODULE MCKernelHost ----------------------------
(* Instances of KernelHost for TLC. *)
EXTENDS KernelHost, TLC

CONSTANTS c1, c2, c3, c4, g1, p, q, id1, id2, open, install, export

\* c1 and c2 are one request sent twice, c3 reuses its id, c4 has its own.
SharedIds == [c \in Calls |-> IF c = c4 THEN id2 ELSE id1]
Sent == [c \in Calls |-> CASE c \in {c1, c2} -> open [] c = c3 -> install [] OTHER -> export]
Senders == [c \in Calls |-> IF c \in {c1, c2} THEN p ELSE q]

\* apps/open opens a tab or a surface, apps/install only saves.
Plans == (open :> {"tab", "surface"}) @@ (install :> {"none"}) @@ (export :> {"export"})
=============================================================================
