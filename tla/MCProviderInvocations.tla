----------------------- MODULE MCProviderInvocations -----------------------
(* Instances of ProviderInvocations for TLC. *)
EXTENDS ProviderInvocations, TLC

CONSTANTS p, q, s, t, id1, id2

\* Two provider calls, and an ordinary request that reuses the id of each.
SharedIds == [r \in Requests |-> IF r \in {q, t} THEN id2 ELSE id1]
=============================================================================
