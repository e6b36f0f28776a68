--------------------------- MODULE MCDaemonBridge ---------------------------
(* Small instances of DaemonBridge.                                          *)
EXTENDS DaemonBridge
=============================================================================
