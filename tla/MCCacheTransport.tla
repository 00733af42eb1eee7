--------------------------- MODULE MCCacheTransport --------------------------
(* CacheTransport for TLC. *)
EXTENDS CacheTransport, TLC

\* Nothing tells one task from another.
Alike == Permutations(Calls)

=============================================================================
