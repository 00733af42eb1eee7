---------------------------- MODULE BlockContext ----------------------------
(***************************************************************************)
(* turbobt/block.py: `async with` a block makes the reads inside it go to  *)
(* that block.  The block is a context variable of the task; the token     *)
(* that undoes the assignment is kept on the reference.                    *)
(***************************************************************************)
EXTENDS Integers, Sequences

CONSTANTS
    Tasks,
    Refs,       \* BlockReference (and Block) objects
    Number,     \* the block number of each, -1 for head
    ByHash,     \* those that know their block's hash: Block objects too
    Shared,     \* those that are entered again before they are left
    MaxDepth,   \* bound: blocks a task is inside of
    MaxHead     \* bound: the height of the chain

ASSUME BlockContextAssumption ==
    /\ "nobody" \notin Tasks
    /\ "none" \notin Refs
    /\ MaxHead \in Nat \ {0}
    /\ Number \in [Refs -> -1 .. MaxHead]
    /\ ByHash \subseteq {r \in Refs : Number[r] # -1}
    /\ Shared \subseteq Refs
    /\ MaxDepth \in Nat

VARIABLES
    head,      \* the chain's best block
    ctx,       \* _block_hash in each task's context: a block, or Latest
    token,     \* _token of each reference
    inside,    \* the references each task is inside of, with what they set
    entering,  \* the reference each task is entering, if any
    raised     \* the tasks that reset() has raised in

vars == <<head, ctx, token, inside, entering, raised>>

\* None, with which reads go to the latest block.
Latest  == -1
Blocks  == 0 .. MaxHead
NoToken == [by |-> "nobody", old |-> Latest, used |-> FALSE]
Nothing == [ref |-> "none", number |-> Latest]

\* Every variable has its type.
TypeOK ==
    /\ head \in Blocks
    /\ ctx \in [Tasks -> {Latest} \cup Blocks]
    /\ token \in [Refs -> [by : Tasks \cup {"nobody"}, old : {Latest} \cup Blocks,
                           used : BOOLEAN]]
    /\ raised \subseteq Tasks
    /\ inside \in [Tasks -> Seq([ref : Refs, hash : {Latest} \cup Blocks])]
    /\ entering \in [Tasks -> [ref : Refs, number : -1 .. MaxHead] \cup {Nothing}]

Init ==
    /\ head = 1
    /\ ctx = [t \in Tasks |-> Latest]
    /\ token = [r \in Refs |-> NoToken]
    /\ inside = [t \in Tasks |-> <<>>]
    /\ entering = [t \in Tasks |-> Nothing]
    /\ raised = {}

InUse(r) == \E t \in Tasks : \/ entering[t].ref = r
                             \/ \E i \in 1 .. Len(inside[t]) : inside[t][i].ref = r

MayEnter(t, r) ==
    /\ entering[t] = Nothing
    /\ Len(inside[t]) < MaxDepth
    /\ r \in Shared \/ ~ InUse(r)

\* Mutant of Set: one token for all references.
SetForAll(t, r, hash) ==
    /\ token' = [s \in Refs |-> [by |-> t, old |-> ctx[t], used |-> FALSE]]
    /\ ctx' = [ctx EXCEPT ![t] = hash]
    /\ inside' = [inside EXCEPT ![t] = Append(@, [ref |-> r, hash |-> hash])]

\* `self._token = _block_hash.set(block_hash)`, and the body begins.
Set(t, r, hash) ==
    /\ token' = [token EXCEPT ![r] = [by |-> t, old |-> ctx[t], used |-> FALSE]]
    /\ ctx' = [ctx EXCEPT ![t] = hash]
    /\ inside' = [inside EXCEPT ![t] = Append(@, [ref |-> r, hash |-> hash])]

\* A reference with a hash awaits nothing.
EnterByHash(t, r) ==
    /\ MayEnter(t, r)
    /\ r \in ByHash
    /\ Number[r] <= head
    /\ Set(t, r, Number[r])
    /\ UNCHANGED <<head, entering, raised>>

\* One with a number, or for head, asks for what it lacks.
Enter(t, r) ==
    /\ MayEnter(t, r)
    /\ r \notin ByHash
    /\ entering' = [entering EXCEPT ![t] = [ref |-> r, number |-> Number[r]]]
    /\ UNCHANGED <<head, ctx, token, inside, raised>>

\* Mutant of BestNumber: the block after it.
NextNumber == head + 1

\* getHeader()["number"].
BestNumber == head

GetHeader(t) ==
    /\ entering[t] # Nothing
    /\ entering[t].number = -1
    /\ entering' = [entering EXCEPT ![t].number = BestNumber]
    /\ UNCHANGED <<head, ctx, token, inside, raised>>

\* getBlockHash(number), which is None for a block there is not yet.
Hash(number) == IF number <= head THEN number ELSE Latest

GetBlockHash(t) ==
    /\ entering[t] # Nothing
    /\ entering[t].number # -1
    /\ Set(t, entering[t].ref, Hash(entering[t].number))
    /\ entering' = [entering EXCEPT ![t] = Nothing]
    /\ UNCHANGED <<head, raised>>

\* The request for either raises, or the task is cancelled.
EnterFails(t) ==
    /\ entering[t] # Nothing
    /\ entering' = [entering EXCEPT ![t] = Nothing]
    /\ UNCHANGED <<head, ctx, token, inside, raised>>

Leaves(t) == inside[t] # <<>> /\ entering[t] = Nothing

Left(t) == inside' = [inside EXCEPT ![t] = SubSeq(@, 1, Len(@) - 1)]

Last(t) == inside[t][Len(inside[t])]

\* Mutant of Restored: `_block_hash.set(None)` in place of reset().
RestoredToNone(tk) == Latest

\* What reset() puts back.
Restored(tk) == tk.old

\* __aexit__, normally or with an exception: reset() takes a token once, and
\* in the task that made it.
Leave(t) ==
    LET r == Last(t).ref IN
    /\ Leaves(t)
    /\ token[r].by = t
    /\ ~ token[r].used
    /\ ctx' = [ctx EXCEPT ![t] = Restored(token[r])]
    /\ token' = [token EXCEPT ![r].used = TRUE]
    /\ Left(t)
    /\ UNCHANGED <<head, entering, raised>>

\* Otherwise it raises: ValueError for a token of another task, RuntimeError
\* for one that has been used.
LeaveRaises(t) ==
    LET r == Last(t).ref IN
    /\ Leaves(t)
    /\ token[r].by # t \/ token[r].used
    /\ Left(t)
    /\ raised' = raised \cup {t}
    /\ UNCHANGED <<head, ctx, token, entering>>

NewBlock ==
    /\ head < MaxHead
    /\ head' = head + 1
    /\ UNCHANGED <<ctx, token, inside, entering, raised>>

Next ==
    \/ \E t \in Tasks, r \in Refs : EnterByHash(t, r) \/ Enter(t, r)
    \/ \E t \in Tasks : \/ GetHeader(t) \/ GetBlockHash(t) \/ EnterFails(t)
                        \/ Leave(t) \/ LeaveRaises(t)
    \/ NewBlock

Spec == Init /\ [][Next]_vars

-----------------------------------------------------------------------------
(* Properties                                                              *)

Expected(t) == IF inside[t] = <<>> THEN Latest ELSE Last(t).hash

\* Reads go to the block the task entered last and has not left, and to the
\* latest block outside all, whatever other tasks enter and leave.  A task of
\* which this is not true has seen an __aexit__ raise: reset() never succeeds
\* with the token of another task or of another entry.
ReadsFollowNesting == \A t \in Tasks \ raised : ctx[t] = Expected(t)

\* Two things go wrong with blocks, and only so.  Leaving one raises in a
\* reference that was entered again while it was in use; those of other tasks,
\* and of the same, are not affected.  Reads inside one are of the latest block
\* if its number was ahead of the chain (getBlockHash() answers None, and
\* nothing is raised); `head` never is.
OnlySharedOrFutureGoWrong ==
    [][\A t \in Tasks :
         /\ LeaveRaises(t) => Last(t).ref \in Shared
         /\ GetBlockHash(t) /\ ctx'[t] = Latest => Number[entering[t].ref] > head]_vars

=============================================================================
