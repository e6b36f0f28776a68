---------------------------- MODULE MCAiService ----------------------------
(* Small instances of AiService. *)
EXTENDS AiService
=============================================================================
