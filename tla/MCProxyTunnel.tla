--------------------------- MODULE MCProxyTunnel ----------------------------
(***************************************************************************)
(* The tunnel on small instances.                                          *)
(***************************************************************************)
EXTENDS ProxyTunnel

\* Public clients of either kind are interchangeable.  Proxy and local connections
\* are not: the specification takes them in a fixed order.
Symmetry == Permutations(Closers) \cup Permutations(Pub \ Closers)
============================================================================
