-------------------------- MODULE MCDirectoryTree --------------------------
(* DirectoryTree for TLC: keys, values and bundlers are interchangeable. *)
EXTENDS DirectoryTree, TLC

CONSTANTS k1, k2, v1, b1, b2

Symmetric == Permutations(Key) \cup Permutations(Value) \cup Permutations(Bundler)
=============================================================================
