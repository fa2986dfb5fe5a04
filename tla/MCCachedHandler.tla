-------------------------- MODULE MCCachedHandler --------------------------
(***************************************************************************)
(* Two keys; a purge drops one key or everything.                          *)
(***************************************************************************)
EXTENDS CachedHandler, TLC

MCPurgeSets == {{k} : k \in Keys} \cup {Keys}
Symmetry == Permutations(Requests)
=============================================================================
