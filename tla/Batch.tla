------------------------------- MODULE Batch -------------------------------
(***************************************************************************)
(* turbobt/batch.py, Bittensor.batch() of client.py, and the Extrinsic of  *)
(* substrate/extrinsic.py: inside `async with` a batch, what would be      *)
(* submitted is collected, and submitted as one extrinsic at the end.      *)
(*                                                                         *)
(* A main task enters batches, in one another at most, and gathers jobs    *)
(* inside them.  A job is a task that makes one call to the chain, by one  *)
(* of the methods of PalletCalls; it runs in a copy of the context it was  *)
(* started in.  In a batch the call is added by waiting for the Extrinsic, *)
(* once by each wait, and not at all if nobody waits.  What the node makes *)
(* of the calls is the Utility pallet's.                                   *)
(***************************************************************************)
EXTENDS PalletCalls, Naturals, Sequences, FiniteSets

CONSTANTS
    Jobs,       \* the tasks given to asyncio.gather()
    Batches,    \* Batch objects, each entered once
    Tasks,      \* what jobs may do, of Operations
    MaxWaits    \* bound: how often an Extrinsic is waited for

ASSUME BatchAssumption ==
    /\ Jobs \cap Batches = {}
    /\ None \notin Batches
    /\ Tasks \subseteq Operations
    /\ MaxWaits \in Nat \ {0}

VARIABLES
    main,       \* what the main task does: body, gather, exit
    open,       \* the batches it is inside of, innermost last
    failing,    \* whether an exception is on its way out of them
    ctx,        \* _batch in the main task's context
    job,        \* each job: what it does, its stage, _batch in its context,
                \* how often its Extrinsic has been waited for
    class,      \* what each batch was made: Batch with or without force, or
                \* Transaction
    calls,      \* the calls list of each batch: jobs and batches
    closed,     \* the batches that have been encoded
    encoded,    \* what each of those was encoded with
    sent,       \* what was submitted by itself: jobs and batches
    took        \* the jobs whose calls have had an effect

vars == <<main, open, failing, ctx, job, class, calls, closed, encoded, sent, took>>

Classes == {"Batch", "forced Batch", "Transaction"}

Items == Jobs \cup Batches

\* Every variable has its type, and _batch is the innermost batch the main task
\* is inside of.
TypeOK ==
    /\ main \in {"body", "gather", "exit"}
    /\ open \in Seq(Batches)
    /\ failing \in BOOLEAN
    /\ ctx \in Batches \cup {None}
    /\ job \in [Jobs -> [op : Tasks,
                         stage : {"idle", "running", "done", "raised"},
                         ctx : Batches \cup {None},
                         waits : 0 .. MaxWaits]]
    /\ class \in [Batches -> Classes]
    /\ calls \in [Batches -> Seq(Items)]
    /\ closed \subseteq Batches
    /\ encoded \in [Batches -> Seq(Items)]
    /\ sent \subseteq Items
    /\ took \subseteq Jobs
    /\ main # "exit" => ctx = IF open = <<>> THEN None ELSE open[Len(open)]

Init ==
    /\ main = "body"
    /\ open = <<>>
    /\ failing = FALSE
    /\ ctx = None
    /\ \E ops \in [Jobs -> Tasks] :
         job = [j \in Jobs |-> [op |-> ops[j], stage |-> "idle", ctx |-> None,
                                waits |-> 0]]
    /\ class = [b \in Batches |-> "forced Batch"]
    /\ calls = [b \in Batches |-> <<>>]
    /\ closed = {}
    /\ encoded = [b \in Batches |-> <<>>]
    /\ sent = {}
    /\ took = {}

Innermost == open[Len(open)]

Elements(s) == {s[i] : i \in 1 .. Len(s)}

-----------------------------------------------------------------------------
(* What the chain does with an extrinsic                                   *)

\* Mutant of Function: Transaction does not override __aexit__.
NeverAll(made) == IF made = "Batch" THEN "batch" ELSE "force_batch"

\* The function of Utility that a batch is submitted as.
Function(made) == CASE made = "Transaction"  -> "batch_all"
                    [] made = "forced Batch" -> "force_batch"
                    [] made = "Batch"        -> "batch"

\* What the chain executes for a hotkey it refuses a coldkey, and the other way.
Takes(signer, j) == signer.key = RoleOf(job[j].op.call.function)

\* What a batch was encoded with, or is being.
List(b) == IF b \in closed THEN encoded[b] ELSE calls[b]

\* The least set that has the items of S and, with an item, what the links
\* lead to from it.
Reached(S, links) ==
    LET Sets == {T \in SUBSET Items : /\ S \subseteq T
                                      /\ \A l \in links : l[1] \in T => l[2] \in T}
    IN {x \in Items : \A T \in Sets : x \in T}

\* The items that fail, when the calls in bad do: a batch_all with any of its
\* items, the others never.
Failing(bad) ==
    Reached(bad, UNION {Elements(List(b)) \X {b} :
                        b \in {c \in Batches : Function(class[c]) = "batch_all"}})

\* The items a batch executes to the end: batch stops at the first failure, and
\* force_batch goes on.
Executes(b, failed) ==
    {List(b)[n] : n \in {k \in 1 .. Len(List(b)) :
        /\ List(b)[k] \notin failed
        /\ Function(class[b]) = "batch" => \A m \in 1 .. k - 1 : List(b)[m] \notin failed}}

\* The calls an item has the effect of: a batch_all that fails is reverted.
Effect(item, failed) ==
    Jobs \cap Reached({item} \ failed,
                      UNION {{b} \X Executes(b, failed) : b \in Batches})

\* An extrinsic becomes final, and does not fail.  Which calls fail is the
\* chain's.
Executed(item, signer) ==
    \E bad \in SUBSET Jobs :
        LET failed == Failing(bad) IN
        /\ \A j \in Jobs \ bad : Takes(signer, j)
        /\ item \notin failed
        /\ took' = took \cup Effect(item, failed)

\* It is submitted and waited for.  The wait raises when the extrinsic fails or
\* the node refuses it, and when the connection is lost, whatever becomes of it.
Submitted(item, signer, raised) ==
    /\ sent' = sent \cup {item}
    /\ \/ Executed(item, signer)
       \/ raised /\ UNCHANGED took

-----------------------------------------------------------------------------
(* The main task                                                           *)

\* Batch(), whose force is True unless given, or client.transaction();
\* `self._token = _batch.set(self)`.
Enter(b, made) ==
    /\ main = "body"
    /\ ~ failing
    /\ b \notin Elements(open) \cup closed
    /\ open' = Append(open, b)
    /\ ctx' = b
    /\ class' = [class EXCEPT ![b] = made]
    /\ UNCHANGED <<main, failing, job, calls, closed, encoded, sent, took>>

\* asyncio.gather(*jobs): each task copies the context.
Gather(jobs) ==
    /\ main = "body"
    /\ ~ failing
    /\ jobs # {}
    /\ \A j \in jobs : job[j].stage = "idle"
    /\ main' = "gather"
    /\ job' = [j \in Jobs |-> IF j \in jobs
                              THEN [job[j] EXCEPT !.stage = "running", !.ctx = ctx]
                              ELSE job[j]]
    /\ UNCHANGED <<open, failing, ctx, class, calls, closed, encoded, sent, took>>

Started == {j \in Jobs : job[j].stage # "idle"}

\* gather() returns when all are done ...
Gathered ==
    /\ main = "gather"
    /\ \A j \in Started : job[j].stage = "done"
    /\ main' = "body"
    /\ UNCHANGED <<open, failing, ctx, job, class, calls, closed, encoded, sent, took>>

\* ... and raises when one has, while the others go on.
GatherRaises ==
    /\ main = "gather"
    /\ \E j \in Started : job[j].stage = "raised"
    /\ main' = "body"
    /\ failing' = TRUE
    /\ UNCHANGED <<open, ctx, job, class, calls, closed, encoded, sent, took>>

\* Mutant of ContextOfSubmission: _batch is reset after the submission.
StillInside == ctx

\* What _batch is when __aexit__ submits: reset() comes first.
ContextOfSubmission == IF Len(open) = 1 THEN None ELSE open[Len(open) - 1]

\* __aexit__, also when the body has raised: reset, and into
\* submitAndWatchExtrinsic(), which first awaits the runtime.
Leave ==
    /\ main = "body"
    /\ open # <<>>
    /\ main' = "exit"
    /\ ctx' = ContextOfSubmission
    /\ UNCHANGED <<open, failing, job, class, calls, closed, encoded, sent, took>>

Encode(b) ==
    /\ closed' = closed \cup {b}
    /\ encoded' = [encoded EXCEPT ![b] = calls[b]]
    /\ main' = "body"
    /\ open' = SubSeq(open, 1, Len(open) - 1)

\* The list is encoded as it is now.  With no batch around, the extrinsic is
\* submitted and waited for ...
SubmitBatch ==
    /\ main = "exit"
    /\ ctx = None
    /\ Encode(Innermost)
    /\ \E raised \in BOOLEAN :
         /\ Submitted(Innermost, BatchSigner, raised)
         /\ failing' = (failing \/ raised)
    /\ UNCHANGED <<ctx, job, class, calls>>

\* ... and with one around, wait_for_finalization() adds it to that one.
AddBatch ==
    /\ main = "exit"
    /\ ctx # None
    /\ Encode(Innermost)
    /\ calls' = [calls EXCEPT ![ctx] = Append(@, Innermost)]
    /\ UNCHANGED <<failing, ctx, job, class, sent, took>>

\* A request before the submission raises: the batch is never sent.
LeaveRaises ==
    /\ main = "exit"
    /\ main' = "body"
    /\ open' = SubSeq(open, 1, Len(open) - 1)
    /\ failing' = TRUE
    /\ closed' = closed \cup {Innermost}
    /\ UNCHANGED <<ctx, job, class, calls, encoded, sent, took>>

-----------------------------------------------------------------------------
(* A job                                                                   *)

\* The methods of subnet.py and neuron.py wait for what they submit, once, and
\* do not return it; those of the pallets return it.  Only the former may be
\* given no wallet, and with one a job may use either.
WaitsItself(j) == job[j].op.wallet = None

MayWait(j) == job[j].waits < IF WaitsItself(j) THEN 1 ELSE MaxWaits

JobEnds(j, stage) == job' = [job EXCEPT ![j].stage = stage]

\* Mutant of AddCall: one wait adds the call twice.
AddCallTwice(j, b) == calls' = [calls EXCEPT ![b] = @ \o <<j, j>>]

\* Batch.add().
AddCall(j, b) == calls' = [calls EXCEPT ![b] = Append(@, j)]

\* wait_for_inclusion() or wait_for_finalization() in a batch: the call is added
\* to the batch of who waits, again if it has been, and nothing is awaited.
Waited(j, b) ==
    /\ b # None
    /\ MayWait(j)
    /\ AddCall(j, b)
    /\ job' = [job EXCEPT ![j].waits = @ + 1]
    /\ UNCHANGED <<main, open, failing, ctx, class, closed, encoded, sent, took>>

\* submitAndWatchExtrinsic() has returned an Extrinsic, and the job waits for it.
Add(j) ==
    /\ job[j].stage = "running"
    /\ Waited(j, job[j].ctx)

\* The job returns, maybe without having waited: then nothing has been added.
JobReturns(j) ==
    /\ job[j].stage = "running"
    /\ job[j].ctx # None
    /\ WaitsItself(j) => job[j].waits = 1
    /\ JobEnds(j, "done")
    /\ UNCHANGED <<main, open, failing, ctx, class, calls, closed, encoded, sent, took>>

\* The main task waits for the Extrinsic that a job has returned.  Outside every
\* batch get_ctx_batch() is None, and adding to it raises AttributeError.
AddLater(j) ==
    /\ main = "body"
    /\ ~ failing
    /\ job[j].stage = "done"
    /\ job[j].ctx # None
    /\ ~ WaitsItself(j)
    /\ \/ Waited(j, ctx)
       \/ /\ ctx = None
          /\ failing' = TRUE
          /\ UNCHANGED <<main, open, ctx, job, class, calls, closed, encoded, sent, took>>

\* Outside any batch the job submits its own extrinsic.  If it does not wait for
\* it, it is not told what becomes of it.
SubmitCall(j) ==
    /\ job[j].stage = "running"
    /\ job[j].ctx = None
    /\ \E waits, raised \in BOOLEAN :
         /\ WaitsItself(j) => waits
         /\ Submitted(j, Signer(job[j].op), raised \/ ~ waits)
         /\ job' = [job EXCEPT ![j].stage = IF raised THEN "raised" ELSE "done",
                               ![j].waits = IF waits THEN 1 ELSE 0]
    /\ UNCHANGED <<main, open, failing, ctx, class, calls, closed, encoded>>

\* What the job does besides its call raises.
JobRaises(j) ==
    /\ job[j].stage = "running"
    /\ JobEnds(j, "raised")
    /\ UNCHANGED <<main, open, failing, ctx, class, calls, closed, encoded, sent, took>>

Next ==
    \/ \E b \in Batches, made \in Classes : Enter(b, made)
    \/ \E jobs \in SUBSET Jobs : Gather(jobs)
    \/ Gathered \/ GatherRaises
    \/ Leave \/ SubmitBatch \/ AddBatch \/ LeaveRaises
    \/ \E j \in Jobs : \/ Add(j) \/ JobReturns(j) \/ AddLater(j)
                       \/ SubmitCall(j) \/ JobRaises(j)

Spec == Init /\ [][Next]_vars

-----------------------------------------------------------------------------
(* Properties                                                              *)

\* What the items of S are or hold, in however many batches.
Within(S) ==
    Reached(S, UNION {{b} \X Elements(encoded[b]) : b \in Batches})

\* A job that ended normally, and whose Extrinsic was waited for, has had its
\* call executed by the time the main task is out of every batch, alone or in
\* however many batches, unless that task fails: a job whose sibling failed goes
\* on, adds its call to a batch that has been submitted, and nobody is told.  Nor
\* is anybody told when a call fails in a batch that is not a Transaction.  A call
\* whose Extrinsic nobody waits for is in no batch, and nobody is told either.
LostOnlyAfterFailure ==
    open = <<>> /\ main = "body" /\ ~ failing
    => \A j \in Jobs : job[j].stage = "done" /\ job[j].waits > 0 =>
         \/ j \in took
         \/ /\ j \in Within(sent)
            /\ \E b \in closed : class[b] # "Transaction" /\ j \in Within({b})

\* The calls that a batch has, and no other batch has.
CallsOf(b) ==
    {j \in Jobs \cap Elements(encoded[b]) :
        \A c \in Batches : j \in Elements(encoded[c]) => c = b}

\* Of the calls of a Transaction all have an effect or none has, whatever it is
\* in and whatever is in it.  A call that was added to another batch as well may
\* have its effect there.
TransactionsAreWhole ==
    \A b \in closed : class[b] = "Transaction" =>
        CallsOf(b) \subseteq took \/ CallsOf(b) \cap took = {}

\* Who has signed for a call.
Origin(j) == IF j \in sent THEN Signer(job[j].op) ELSE BatchSigner

\* A call has its effect for the account it is meant for, the right key of the
\* wallet that was given or else of the client's, unless another wallet was
\* given and the call was batched; and alone it is never refused for its key.
CallsActForTheirOwn ==
    /\ \A j \in took : Origin(j) # Meant(job[j].op) =>
         j \notin sent /\ job[j].op.wallet \notin {None, Own}
    /\ \A j \in sent \cap Jobs : Takes(Origin(j), j)

\* Where in the lists of the batches an item is.
Places(item, lists) ==
    UNION {{<<b, n>> : n \in {k \in DOMAIN lists[b] : lists[b][k] = item}} : b \in Batches}

\* What is submitted alone is in no batch, and a batch is in one other at most,
\* once.  The call of a job is sent no more often than its Extrinsic was waited
\* for: once by the methods that wait themselves, but twice, and executed twice,
\* for a caller who awaits inclusion and then finalization.
SentOnce ==
    /\ \A item \in sent : Places(item, encoded) = {}
    /\ \A b \in Batches : Cardinality(Places(b, encoded)) <= 1
    /\ \A j \in Jobs : Cardinality(Places(j, encoded)) <= job[j].waits

=============================================================================
