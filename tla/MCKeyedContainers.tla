------------------------- MODULE MCKeyedContainers -------------------------
(* KeyedContainers for TLC: processes are model values. *)
EXTENDS KeyedContainers

CONSTANTS c1, c2
=============================================================================
