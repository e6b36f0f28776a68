---------------------------- MODULE MCRemoteHost ----------------------------
(* Small instances of RemoteHost.                                          *)
EXTENDS RemoteHost

CONSTANTS r1, r2, o1

=============================================================================
