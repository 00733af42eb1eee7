--------------------------- MODULE MCBlockContext ----------------------------
(* BlockContext for TLC: head, a block that exists and one that does not yet. *)
EXTENDS BlockContext, TLC

CONSTANTS best, number, object

MCRefs   == {best, number, object}
MCNumber == best :> -1 @@ number :> 2 @@ object :> 0

\* Nothing tells one task from another.
Alike == Permutations(Tasks)

=============================================================================
