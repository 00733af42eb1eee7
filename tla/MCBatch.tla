------------------------------- MODULE MCBatch -------------------------------
(* Batch for TLC. *)
EXTENDS Batch, TLC

\* Nothing tells one job, or one batch, from another.
Alike == Permutations(Jobs) \cup Permutations(Batches)

\* Every method with the client's wallet; and with another, one of each key.
OncePerSigner ==
    {op \in Operations :
        \/ op.wallet = None
        \/ op.wallet = Own /\ op.call \notin HighLevel
        \/ op.call \in {AddStake, SetCommitment} /\ op.wallet # Own}

\* What the other job does: a call of the coldkey whose Extrinsic may be waited for
\* more than once, one of the hotkey for another wallet, and one that is waited
\* for once.
Others ==
    {op \in OncePerSigner :
        \/ op.call = SetCommitReveal
        \/ op.call = SetCommitment /\ op.wallet # None
        \/ op.call = AddStake /\ op.wallet = None}

AnyAndOther == \E j \in Jobs : job[j].op \in Others

\* One of the two is waited for twice at most.
OneTwice == \A i, j \in Jobs : i # j => job[i].waits + job[j].waits < 2 * MaxWaits

=============================================================================
