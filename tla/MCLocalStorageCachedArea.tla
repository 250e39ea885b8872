---------------------- MODULE MCLocalStorageCachedArea ----------------------
(***************************************************************************)
(* LocalStorageCachedArea for TLC: the renderers are each as good as any   *)
(* other, and so are the keys.                                             *)
(***************************************************************************)
EXTENDS LocalStorageCachedArea, TLC

Symmetry == Permutations(Renderer) \cup Permutations(Key)
=============================================================================
