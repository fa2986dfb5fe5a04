-------------------------- MODULE MCMemoryBackend --------------------------
(***************************************************************************)
(* Three keys: k1 and k2 share a path (they differ in the encoding), k3    *)
(* lives elsewhere; "root" is a prefix of both paths, "dir" of one.        *)
(***************************************************************************)
EXTENDS MemoryBackend

CONSTANTS k1, k2, k3, pa, pb

MCPathOf == (k1 :> pa) @@ (k2 :> pa) @@ (k3 :> pb)
MCPrefixesOf == (pa :> {"root", "dir"}) @@ (pb :> {"root"})
=============================================================================
