------------------------------- MODULE HasMap -------------------------------
(***************************************************************************)
(* What one gink instance knows about the chains it, or a peer, holds      *)
(* (python/gink/impl/has_map.py, and is_needed of utilities.py).           *)
(*                                                                         *)
(* A chain is the sequence of bundles one writer signs.  The code names a  *)
(* bundle by its timestamp and carries the timestamp of the bundle before  *)
(* it ("previous"); only their order along the chain matters, so here      *)
(* bundle i of a chain is the number i: its previous is i - 1, the chain   *)
(* start is bundle 1, and a chain that is absent from the map has been     *)
(* seen through 0 (the default of _data.get(chain, 0)).                    *)
(***************************************************************************)
EXTENDS Naturals

CONSTANT Chain      \* the chains, i.e. (medallion, chain_start) pairs

HasMaps == [Chain -> Nat]

EmptyMap == [c \in Chain |-> 0]

has(map, c, i) == i <= map[c]

is_valid_extension(map, c, i) == i = 1 \/ map[c] = i - 1

mark_as_having(map, c, i) ==
    IF map[c] < i THEN [map EXCEPT ![c] = i] ELSE map

(***************************************************************************)
(* utilities.is_needed: a bundle already seen is not needed; one whose     *)
(* previous bundle is not the last one seen makes the call raise; any      *)
(* other bundle is needed.                                                 *)
(***************************************************************************)
AlreadySeen(seen, i) == seen >= i

MissingPrior(seen, i) == ~AlreadySeen(seen, i) /\ i - 1 # seen

is_needed(seen, i) == ~AlreadySeen(seen, i) /\ ~MissingPrior(seen, i)
=============================================================================
