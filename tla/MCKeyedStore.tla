---------------------------- MODULE MCKeyedStore ----------------------------
(* KeyedStore for TLC: an instance with a memory store and one with LMDB. *)
EXTENDS KeyedStore, TLC

CONSTANTS mem, lmdb, k1, k2

OneOfEach == mem :> "memory" @@ lmdb :> "lmdb"

Keys == Permutations(Key)
=============================================================================
