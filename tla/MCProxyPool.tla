---------------------------- MODULE MCProxyPool ----------------------------
(***************************************************************************)
(* ProxyPool on a small instance.  It is finite as it stands.              *)
(***************************************************************************)
EXTENDS ProxyPool, TLC

Symmetry == Permutations(Tasks) \cup Permutations(Workers) \cup Permutations(Proxies)
=============================================================================
