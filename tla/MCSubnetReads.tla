--------------------------- MODULE MCSubnetReads ---------------------------
(* SubnetReads for TLC. *)
EXTENDS SubnetReads, TLC

\* Two neurons, of uid 0 and 1, with equal stake, one of whom may validate; a
\* third hotkey that has no slot yet.
Subnet == [exists |-> TRUE,
           owner  |-> (0 :> 3) @@ (1 :> 1),
           stake  |-> [h \in Hotkeys |-> 1],
           threshold |-> 1, max |-> 1,
           entry  |-> [h \in Hotkeys |-> IF h = 1 THEN 1 ELSE 0]]

\* The same on a chain whose StakeThreshold was never set.
Subnets == {Subnet, [Subnet EXCEPT !.threshold = Unset]}

\* That one has two blocks: one before the change that sets it, or any other, and
\* one after.
TwoWithoutThreshold == chain[1].threshold = Unset => Len(chain) <= 2

=============================================================================
