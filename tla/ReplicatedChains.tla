-------------------------- MODULE ReplicatedChains --------------------------
(***************************************************************************)
(* What gink's synchronisation promises, with no connections in it: every  *)
(* instance holds a prefix of every chain, a chain is extended only by the *)
(* instance that writes it, and any other instance only ever moves to the  *)
(* next bundle of a chain, a bundle some instance already holds.           *)
(***************************************************************************)
EXTENDS Naturals

CONSTANTS Instance,     \* gink instances, each with its own store
          Chain,        \* chains
          Writer        \* Writer[c] is the instance that extends chain c

VARIABLE store          \* store[p][c]: p holds bundles 1 .. store[p][c] of c

Init == store = [p \in Instance |-> [c \in Chain |-> 0]]

\* The writer of a chain signs its next bundle.
Extend(p, c) ==
    /\ Writer[c] = p
    /\ store' = [store EXCEPT ![p][c] = @ + 1]

\* An instance obtains the next bundle of a chain from one that holds it.
Learn(p, c) ==
    /\ \E q \in Instance : store[p][c] < store[q][c]
    /\ store' = [store EXCEPT ![p][c] = @ + 1]

Next == \E p \in Instance, c \in Chain : Extend(p, c) \/ Learn(p, c)

Spec == Init /\ [][Next]_store
=============================================================================
