--------------------------- MODULE MCBraidServer ---------------------------
(* BraidServer for TLC: two braids, one of them empty at first. *)
EXTENDS BraidServer, TLC

CONSTANTS ann, bob, cat,    \* clients
          ca,               \* a chain that ann writes
          kb, kb2, kc,      \* their connections
          x, y              \* braids

OneWriter == ca :> ann

\* The chain is in braid x up to a limit, and not in y.
Limits == (x :> (ca :> 1)) @@ (y :> (ca :> 0))

\* ann reaches the server's data relay only.
Clients == (kb :> bob) @@ (kb2 :> bob) @@ (kc :> cat)
Braids == (kb :> y) @@ (kb2 :> x) @@ (kc :> y)
=============================================================================
