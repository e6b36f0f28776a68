---------------------------- MODULE MCKernelMirror ----------------------------
(* A small instance of KernelMirror: p1 is open, p2 is opened while it works.  *)
EXTENDS KernelMirror

CONSTANTS p1, p2, a1
=============================================================================
