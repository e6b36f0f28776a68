------------------------------ MODULE MCHomeLink ------------------------------
(* A small instance of HomeLink: two browsers, two devices. *)
EXTENDS HomeLink, TLC

\* The clock of one browser is ahead of the node's.
CONSTANTS b1, b2
MCOffset == (b1 :> 1) @@ (b2 :> 0)
MCNumbers == 1 .. 4
=============================================================================
