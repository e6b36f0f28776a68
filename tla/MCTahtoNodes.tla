---------------------------- MODULE MCTahtoNodes ----------------------------
(* Small instances of TahtoNodes: one surface in each of two tabs.           *)
EXTENDS TahtoNodes, TLC

CONSTANTS n1, n2, t1, t2, w1, w2

OneEach == [w \in Tasks |-> IF w = w1 THEN t1 ELSE t2]

\* The two tabs, each with its surface, and the two nodes are interchangeable.
Alike == Permutations(Nodes) \cup {(t1 :> t2) @@ (t2 :> t1) @@ (w1 :> w2) @@ (w2 :> w1)}
=============================================================================
