-------------------------- MODULE MCSequenceStore --------------------------
(* SequenceStore for TLC: an instance with a memory store and one with LMDB. *)
EXTENDS SequenceStore

CONSTANTS x, y

\* An entry is appended, appended with an expiry, or inserted without one.
Some == {<<0, 0>>, <<0, 3>>, <<2, 0>>}
=============================================================================
