---------------------------- MODULE MCEventLoop ----------------------------
(* EventLoop for TLC: connections are model values. *)
EXTENDS EventLoop

CONSTANTS c1, c2
=============================================================================
