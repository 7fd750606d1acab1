----------------------------- MODULE MCSharedLog -----------------------------
(* SharedLog for TLC: two or three processes on one file. *)
EXTENDS SharedLog, TLC

CONSTANTS p1, p2, p3, l1, l2, r1

\* Everyone signs with the same identity, so every chain can be taken over.
OneUser == [p \in Proc |-> "user"]

Processes == Permutations(Proc)
=============================================================================
