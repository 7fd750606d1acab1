----------------------------- MODULE MCPeerSync -----------------------------
(* PeerSync for TLC: small networks of two and three instances. *)
EXTENDS PeerSync, TLC

CONSTANTS ann, bob, cat,    \* instances
          ca, cc,           \* chains: ann writes ca, cat writes cc
          k1, k2, k3        \* connections

OneWriter == ca :> ann
TwoWriters == (ca :> ann) @@ (cc :> cat)

\* ann dials bob, and cat dials bob: bob relays between them.
RelayDialer == (k1 :> ann) @@ (k2 :> cat)
RelayListener == (k1 :> bob) @@ (k2 :> bob)

\* ann dials bob, bob dials cat and cat dials ann: bundles have two paths.
RingDialer == (k1 :> ann) @@ (k2 :> bob) @@ (k3 :> cat)
RingListener == (k1 :> bob) @@ (k2 :> cat) @@ (k3 :> ann)
=============================================================================
