--------------------------- MODULE MCPersonalChain ---------------------------
(* A small instance of PersonalChain: two tabs, one launcher, four actions. *)
EXTENDS PersonalChain, TLC

CONSTANTS a1, a2, a3, a4
MCOldActs == <<a1, a2>>
MCProfiles == {"new", "legacy", "signed"}
=============================================================================
