---------------------------- MODULE MCExtrinsics -----------------------------
(* Extrinsics for TLC. *)
EXTENDS Extrinsics, TLC

\* Nothing tells one extrinsic from another.
Alike == Permutations(Txs)

=============================================================================
