--------------------------- MODULE MCCachedUpdates ---------------------------
(* Small instances of CachedUpdates: workers and pairs are interchangeable. *)
EXTENDS CachedUpdates, TLC

Symmetry == Permutations(Callers) \cup Permutations(Pairs)

=============================================================================
