----------------------------- MODULE Extrinsics -----------------------------
(***************************************************************************)
(* turbobt/substrate/pallets/author.py and substrate/extrinsic.py: tasks   *)
(* sign extrinsics of one account, submit them and wait for their outcome. *)
(*                                                                         *)
(* Each extrinsic is prepared, submitted and waited for by a task of its   *)
(* own.  The node is the environment: its transaction pool, its chain with *)
(* a finalized part, and the statuses it sends for the extrinsics it       *)
(* watches.                                                                *)
(***************************************************************************)
EXTENDS Integers, Sequences, FiniteSets

CONSTANTS
    Txs,          \* the extrinsics
    Nonces,       \* the nonces a caller may give
    Mortal,       \* whether extrinsics have an era: a subset of BOOLEAN
    Losses,       \* whether subscribers are told of a lost connection: a subset
                  \* of BOOLEAN
    None,         \* no nonce given, none read yet
    Period,       \* the period of DEFAULT_ERA
    MaxHead,      \* bound: the height of the chain
    MaxReorgs     \* bound: times that best blocks are replaced

ASSUME ExtrinsicsAssumption ==
    /\ Nonces \subseteq Nat
    /\ None \notin Nat
    /\ Mortal \subseteq BOOLEAN
    /\ Losses \subseteq BOOLEAN
    /\ Period \in Nat \ {0}
    /\ MaxHead \in Nat \ {0}
    /\ MaxReorgs \in Nat

VARIABLES
    task,       \* the task of each extrinsic
    watch,      \* its subscription: none yet; live; cut, its connection lost and
                \* its queue still in _subscriptions; or gone
    unwatching, \* the extrinsics whose unwatchExtrinsic() has been started
    queue,      \* the statuses in the subscription's queue
    head,       \* the node's best block
    final,      \* its latest finalized block
    reorgs,     \* times that best blocks were replaced so far
    version,    \* how often the block at each height was replaced
    fate,       \* what the node has made of each extrinsic
    block,      \* the block it is in, 0 for none
    outcome     \* how each extrinsic in a block ended: "ok" or "failed"

clientVars == <<task, unwatching>>
nodeVars   == <<head, final, reorgs, version, fate, block, outcome>>
vars == <<clientVars, watch, queue, nodeVars>>

Stages == {"idle", "header", "sent", "rejected", "lost", "late", "watching",
           "inclusion", "included", "finalization", "reading", "ok", "failed",
           "raised", "timedout"}

Ended == {"rejected", "lost", "included", "ok", "failed", "raised", "timedout"}

\* A block is told from the others, and its hash from theirs, by its height and
\* how many there were at that height before.
BlockHash == [number : 0 .. MaxHead, version : 0 .. MaxReorgs]

\* Every variable has its type.
TypeOK ==
    /\ task \in [Txs -> [stage  : Stages,
                         given  : Nonces \cup {None},  \* the parameter nonce
                         mortal : Mortal,              \* an era, or None
                         start  : 0 .. MaxHead,        \* era.current
                         nonce  : Nat \cup {None},     \* the nonce signed
                         birth  : BlockHash]]          \* block_hash signed
    /\ watch \in [Txs -> {"none", "live", "cut", "gone"}]
    /\ unwatching \subseteq Txs
    /\ queue \in [Txs -> Seq({"other", "inBlock", "finalized", "error"})]
    /\ head \in 0 .. MaxHead
    /\ final \in 0 .. head
    /\ reorgs \in 0 .. MaxReorgs
    /\ version \in [0 .. MaxHead -> 0 .. MaxReorgs]
    /\ fate \in [Txs -> {"unknown", "pool", "included", "final", "dropped"}]
    /\ block \in [Txs -> 0 .. MaxHead]
    /\ outcome \in [Txs -> {"ok", "failed"}]

Init ==
    /\ task \in [Txs -> [stage : {"idle"}, given : Nonces \cup {None},
                         mortal : Mortal, start : {0}, nonce : {None},
                         birth : {[number |-> 0, version |-> 0]}]]
    /\ watch = [t \in Txs |-> "none"]
    /\ unwatching = {}
    /\ queue = [t \in Txs |-> <<>>]
    /\ head = 1
    /\ final = 1
    /\ reorgs = 0
    /\ version = [n \in 0 .. MaxHead |-> 0]
    /\ fate = [t \in Txs |-> "unknown"]
    /\ block = [t \in Txs |-> 0]
    /\ outcome = [t \in Txs |-> "ok"]

Goes(t, stage) == task' = [task EXCEPT ![t].stage = stage]

-----------------------------------------------------------------------------
(* The node                                                                *)

Included == {t \in Txs : fate[t] \in {"included", "final"}}
Pending  == {t \in Txs : fate[t] = "pool"}

\* The account's nonce on the chain: how many of its extrinsics are in blocks.
ChainNonce == Cardinality(Included)

\* system_accountNextIndex counts what waits in the pool as well, up to the
\* first gap.
NextIndex ==
    CHOOSE n \in ChainNonce .. ChainNonce + Cardinality(Pending) :
        /\ \A m \in ChainNonce .. n - 1 : \E t \in Pending : task[t].nonce = m
        /\ ~ \E t \in Pending : task[t].nonce = n

\* The block an era starts at, as Substrate's Era::birth and scalecodec's
\* compute it from the phase that is signed.
Birth(phase, current) ==
    (((IF current > phase THEN current ELSE phase) - phase) \div Period) * Period
    + phase

Phase(t) == task[t].start % Period

\* chain_getBlockHash.
Hash(n) == [number |-> n, version |-> version[n]]

\* The node checks the signature against the hash of the block the era starts at,
\* for the block after its best one, and the nonce against the chain and the
\* pool.
GoodSignature(t) ==
    LET first == IF task[t].mortal THEN Birth(Phase(t), head + 1) ELSE 0
    IN first <= head /\ task[t].birth = Hash(first)

GoodNonce(t) ==
    /\ task[t].nonce >= ChainNonce
    /\ \A s \in Pending : task[s].nonce # task[t].nonce

\* A status for extrinsics that are watched; one that nobody has subscribed to is
\* dropped.
Tell(txs, status) ==
    queue' = [t \in Txs |-> IF t \in txs /\ watch[t] = "live"
                            THEN Append(queue[t], status) ELSE queue[t]]

\* A new best block, with some of what waits in the pool and is still valid, in
\* the order of its nonces.
NewBlock ==
    /\ head < MaxHead
    /\ head' = head + 1
    /\ \E n \in 0 .. Cardinality(Pending), how \in [Txs -> {"ok", "failed"}] :
         LET in == {t \in Pending : task[t].nonce < ChainNonce + n} IN
         /\ Cardinality(in) = n
         /\ \A t \in in : GoodSignature(t)
         /\ fate' = [t \in Txs |-> IF t \in in THEN "included" ELSE fate[t]]
         /\ block' = [t \in Txs |-> IF t \in in THEN head' ELSE block[t]]
         /\ outcome' = [t \in Txs |-> IF t \in in THEN how[t] ELSE outcome[t]]
         /\ Tell(in, "inBlock")
    /\ UNCHANGED <<clientVars, watch, final, reorgs, version>>

\* The best blocks from `first` on, none of them final, are replaced by empty
\* ones: "retracted".
Reorg(first) ==
    /\ reorgs < MaxReorgs
    /\ reorgs' = reorgs + 1
    /\ version' = [n \in 0 .. MaxHead |-> IF n \in first .. head THEN version[n] + 1
                                          ELSE version[n]]
    /\ LET out == {t \in Txs : block[t] >= first} IN
       /\ fate' = [t \in Txs |-> IF t \in out THEN "pool" ELSE fate[t]]
       /\ block' = [t \in Txs |-> IF t \in out THEN 0 ELSE block[t]]
       /\ Tell(out, "other")
    /\ UNCHANGED <<clientVars, watch, head, final, outcome>>

Finalize ==
    /\ final < head
    /\ final' = final + 1
    /\ LET in == {t \in Txs : block[t] = final'} IN
       /\ fate' = [t \in Txs |-> IF t \in in THEN "final" ELSE fate[t]]
       /\ Tell(in, "finalized")
    /\ UNCHANGED <<clientVars, watch, head, reorgs, version, block, outcome>>

\* The pool gives an extrinsic up: dropped, invalid, usurped.
Drop(t) ==
    /\ fate[t] = "pool"
    /\ fate' = [fate EXCEPT ![t] = "dropped"]
    /\ Tell({t}, "other")
    /\ UNCHANGED <<clientVars, watch, head, final, reorgs, version, block, outcome>>

\* The connection is lost, and with it what the node sends for the extrinsics it
\* watched.  ConnectionClosedError is put on every queue of _subscriptions, also
\* those of connections lost before; but nothing is when the connection was
\* closed in order, or its receiver had crashed or was cancelled.
Disconnect(told) ==
    /\ \E t \in Txs : \/ watch[t] = "live"
                      \/ task[t].stage = "late"
                      \/ watch[t] = "cut" /\ queue[t] = <<>>
    /\ queue' = [t \in Txs |-> IF /\ told
                                  /\ watch[t] \in {"live", "cut"}
                                  /\ task[t].stage # "late"
                               THEN Append(queue[t], "error") ELSE queue[t]]
    /\ watch' = [t \in Txs |-> IF watch[t] = "live" \/ task[t].stage = "late"
                               THEN "cut" ELSE watch[t]]
    /\ UNCHANGED <<clientVars, nodeVars>>

-----------------------------------------------------------------------------
(* submitAndWatchExtrinsic()                                               *)

\* A caller that does not want an immortal extrinsic: the era starts at the best
\* block's number.
GetHeader(t) ==
    /\ task[t].stage = "idle"
    /\ task[t].mortal
    /\ task' = [task EXCEPT ![t] = [@ EXCEPT !.start = head, !.stage = "header"]]
    /\ UNCHANGED <<watch, unwatching, queue, nodeVars>>

\* Mutants of Nonce: System.Account's nonce; the last nonce used.
NonceOnChain == ChainNonce

LastIndex == NextIndex - 1

\* accountNextIndex(), whatever the parameter nonce is.
Nonce == NextIndex

\* Mutant of SignedBlock: the hash of the best block.
SignedLatest(t) == Hash(head)

\* getBlockHash(era_obj.birth(era.current if era else None)): of the block that
\* is at that height now, which need not be the one whose header was read.
SignedBlock(t) ==
    Hash(IF task[t].mortal THEN Birth(Phase(t), task[t].start) ELSE 0)

\* The answers of the gather, as if the node gave them all at once: no property
\* is about two of them.  The extrinsic is signed and sent.
Gather(t) ==
    /\ task[t].stage = IF task[t].mortal THEN "header" ELSE "idle"
    /\ task' = [task EXCEPT ![t] = [@ EXCEPT !.nonce = Nonce,
                                            !.birth = SignedBlock(t),
                                            !.stage = "sent"]]
    /\ UNCHANGED <<watch, unwatching, queue, nodeVars>>

\* The extrinsic enters the pool.  The caller has the subscription's id, and has
\* subscribed, before the first status is read; or its answer overtakes the end
\* of its write, and it subscribes later; or the call raises, without an answer
\* or for its write.
Accept(t) ==
    /\ task[t].stage = "sent"
    /\ GoodSignature(t)
    /\ GoodNonce(t)
    /\ fate' = [fate EXCEPT ![t] = "pool"]
    /\ \/ /\ watch' = [watch EXCEPT ![t] = "live"]
          /\ Goes(t, "watching")
       \/ /\ \E stage \in {"late", "lost"} : Goes(t, stage)
          /\ UNCHANGED watch
    /\ UNCHANGED <<unwatching, queue, head, final, reorgs, version, block, outcome>>

\* The write has ended: subscribe().  The statuses that came before are lost.
Subscribe(t) ==
    /\ task[t].stage = "late"
    /\ Goes(t, "watching")
    /\ watch' = [watch EXCEPT ![t] = IF @ = "cut" THEN "cut" ELSE "live"]
    /\ UNCHANGED <<unwatching, queue, nodeVars>>

\* Error 1010 or 1014: rpc() raises.
Reject(t) ==
    /\ task[t].stage = "sent"
    /\ ~ (GoodSignature(t) /\ GoodNonce(t))
    /\ Goes(t, "rejected")
    /\ UNCHANGED <<watch, unwatching, queue, nodeVars>>

-----------------------------------------------------------------------------
(* ExtrinsicResult                                                         *)

Wait(t) ==
    /\ \/ /\ task[t].stage = "watching"
          /\ \E stage \in {"inclusion", "finalization"} : Goes(t, stage)
       \/ /\ task[t].stage = "included"
          /\ Goes(t, "finalization")
    /\ UNCHANGED <<watch, unwatching, queue, nodeVars>>

\* The status each of the two waits looks for.
Wanted(t) == IF task[t].stage = "inclusion" THEN "inBlock" ELSE "finalized"

\* Mutant of Unwatches: unwatch on every status.
UnwatchAlways(t, status) == TRUE

\* create_task(unwatchExtrinsic(...)).
Unwatches(t, status) == status = Wanted(t)

\* One turn of `async for status in self.subscription`.
TakeStatus(t) ==
    /\ task[t].stage \in {"inclusion", "finalization"}
    /\ queue[t] # <<>>
    /\ LET status == Head(queue[t]) IN
       /\ Goes(t, IF status = "error" THEN "raised"
                  ELSE IF status # Wanted(t) THEN task[t].stage
                  ELSE IF task[t].stage = "inclusion" THEN "included"
                  ELSE "reading")
       /\ unwatching' = IF Unwatches(t, status) THEN unwatching \cup {t}
                        ELSE unwatching
    /\ queue' = [queue EXCEPT ![t] = Tail(@)]
    /\ UNCHANGED <<watch, nodeVars>>

\* The task of unwatchExtrinsic(): the subscription is removed, and the node
\* told so.
Unwatch(t) ==
    /\ t \in unwatching
    /\ unwatching' = unwatching \ {t}
    /\ watch' = [watch EXCEPT ![t] = "gone"]
    /\ UNCHANGED <<task, queue, nodeVars>>

\* The events of a block, each with the extrinsic it is about.
Events(b) == {[extrinsic |-> t, failed |-> outcome[t] = "failed"] :
              t \in {s \in Txs : block[s] = b}}

\* Mutant of OwnEvents: events of the whole block.
AllEvents(t) == Events(block[t])

\* `event["extrinsic_idx"] == extrinsic_idx`, in the finalized block.
OwnEvents(t) == {e \in Events(block[t]) : e.extrinsic = t}

\* getBlock() and Events of the finalized block, which both may raise.
ReadOutcome(t) ==
    /\ task[t].stage = "reading"
    /\ \/ Goes(t, IF \E e \in OwnEvents(t) : e.failed THEN "failed" ELSE "ok")
       \/ Goes(t, "raised")
    /\ UNCHANGED <<watch, unwatching, queue, nodeVars>>

\* asyncio.timeout() of the caller around a wait.
Timeout(t) ==
    /\ task[t].stage \in {"inclusion", "finalization", "reading"}
    /\ Goes(t, "timedout")
    /\ UNCHANGED <<watch, unwatching, queue, nodeVars>>

-----------------------------------------------------------------------------

Advance(t) ==
    \/ GetHeader(t) \/ Gather(t) \/ Accept(t) \/ Subscribe(t) \/ Reject(t)
    \/ TakeStatus(t) \/ Unwatch(t) \/ ReadOutcome(t)

Next ==
    \/ \E t \in Txs : Advance(t) \/ Wait(t) \/ Timeout(t) \/ Drop(t)
    \/ NewBlock \/ Finalize
    \/ \E first \in final + 1 .. head : Reorg(first)
    \/ \E told \in Losses : Disconnect(told)

Spec == Init /\ [][Next]_vars

\* The event loop runs what is ready, the node answers, and what is in a block
\* becomes final.  That the pool ever empties is not assumed.
FairSpec ==
    /\ Spec
    /\ \A t \in Txs : WF_vars(Advance(t))
    /\ WF_vars(Finalize)

-----------------------------------------------------------------------------
(* Properties                                                              *)

\* wait_for_finalization() ends normally only when the extrinsic is in a
\* finalized block and succeeded there, and reports a failure only when it is
\* its own, whatever else is in the block and whichever blocks were retracted.
OutcomeIsOwn ==
    \A t \in Txs : task[t].stage \in {"ok", "failed"} =>
        /\ fate[t] = "final"
        /\ outcome[t] = task[t].stage

\* The nonce of an extrinsic is one that no extrinsic of the account in the
\* pool or in a block has: two get the same only if both read it before either
\* was submitted, or if one was dropped or its block retracted.
NonceIsFree ==
    [][\A t \in Txs : Gather(t) =>
         \A s \in Pending \cup Included : task[s].nonce # task'[t].nonce]_vars

\* The block whose hash was signed is not on the chain any more.
Replaced(t) == task[t].birth # Hash(task[t].birth.number)

\* The signature of an extrinsic without an era is never refused.  With one it is
\* refused only when the next block is `period` blocks or more after the header
\* that was read first, or when the block at that height, which was not final,
\* has been replaced since its hash was signed: not because of blocks that came,
\* or a reorganisation, while it was prepared.
EraHolds ==
    [][\A t \in Txs : Reject(t) /\ ~ GoodSignature(t) =>
         /\ task[t].mortal
         /\ \/ head + 1 >= task[t].start + Period
            \/ Replaced(t)]_vars

\* A status or an error that ends the wait for finalization is in the queue.
EndIsQueued(t) ==
    \E i \in 1 .. Len(queue[t]) : queue[t][i] \in {"finalized", "error"}

\* The task is in its first wait, for finalization, its subscription works, and
\* its extrinsic is in a block whose finalization it has not missed.
WaitsInTime(t) ==
    /\ task[t].stage = "finalization"
    /\ watch[t] = "live"
    /\ t \notin unwatching
    /\ fate[t] = "included" \/ (fate[t] = "final" /\ EndIsQueued(t))

\* Who waits for finalization first, with a subscription that works, for an
\* extrinsic in a block gets an outcome or learns that the connection was lost,
\* however often the block changes.  The exceptions are all there are: the pool
\* has the extrinsic or has dropped it ("dropped", "invalid" and "usurped" are
\* statuses like any other to the loop), or the connection was lost in silence.
\* Nothing is promised to who waits for finalization after inclusion, whose
\* subscription is being ended, nor when the status "finalized" came before the
\* caller subscribed: those wait for ever.
FinalIsNoticed ==
    \A t \in Txs :
        WaitsInTime(t) ~> \/ task[t].stage \in Ended
                          \/ fate[t] \in {"pool", "dropped"}
                          \/ watch[t] = "cut" /\ ~ EndIsQueued(t)

\* "The nonce to use for this extrinsic" (author.py:56).
NonceIsHonoured ==
    \A t \in Txs : task[t].given # None /\ task[t].stage \notin {"idle", "header"}
                    => task[t].nonce = task[t].given

=============================================================================
