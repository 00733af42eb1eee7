---------------------------- MODULE SubnetReads ----------------------------
(***************************************************************************)
(* turbobt/subnet.py, neuron.py and drand.py, as far as they read: a       *)
(* method is one or more requests, each with the hash of a block or with   *)
(* None, which the node takes for its latest block.  A method that makes   *)
(* several requests answers about one block only if it sees to it.         *)
(*                                                                         *)
(* One task reads one subnet, by one call after the other; the chain and   *)
(* the cache, which other tasks use too, move on between any two requests. *)
(* What the cache promises is CacheTransport's RightAnswer, and what       *)
(* get_ctx_block_hash() returns is BlockContext's ReadsFollowNesting.      *)
(***************************************************************************)
EXTENDS Integers, Sequences, FiniteSets

CONSTANTS
    Uids,       \* the slots of the subnet, numbers from 0
    Hotkeys,    \* numbers: hotkeys are compared when stakes are equal
    MaxStake,   \* bound: a stake, and the stake threshold
    Cachable,   \* the requests CacheControl.is_cachable() lists
    MaxHead,    \* bound: the height of the chain
    Starts      \* bound: the subnets the chain may start with

Latest == 0             \* block_hash=None
Blocks == 1 .. MaxHead
NoOne  == 0             \* the owner of a slot that nobody has
NoUid  == -1            \* Uids[hotkey] is None
Unset  == -1            \* StakeThreshold is None: nobody has ever set it

\* What the readers see of the chain at a block.  An entry of a storage map is
\* known by the block that set it, 0 when there is none.
Snapshot == [exists    : BOOLEAN,
             owner     : [Uids -> Hotkeys \cup {NoOne}],
             stake     : [Hotkeys -> 0 .. MaxStake],
             threshold : {Unset} \cup 0 .. MaxStake,
             max       : 0 .. Cardinality(Uids),
             entry     : [Hotkeys -> {Latest} \cup Blocks]]

Requests == {"get_neuron", "get_neurons_lite", "get_dynamic_info",
             "get_subnet_hyperparams", "get_subnet_hyperparams_v2",
             "get_subnet_state", "getStorage", "getKeys", "queryStorageAt",
             "Uids", "StakeThreshold"}

\* A hotkey has one slot at most, and a subnet that does not exist has nobody.
Possible(s) ==
    /\ \A u, v \in Uids : s.owner[u] = s.owner[v] /\ s.owner[u] # NoOne => u = v
    /\ ~ s.exists => \A u \in Uids : s.owner[u] = NoOne

ASSUME SubnetReadsAssumption ==
    /\ Uids \subseteq Nat /\ IsFiniteSet(Uids)
    /\ Hotkeys \subseteq Nat \ {0}
    /\ MaxStake \in Nat
    /\ Cachable \subseteq Requests
    /\ MaxHead \in Nat \ {0}
    /\ Starts \subseteq {s \in Snapshot : Possible(s)}

VARIABLES
    chain,     \* the state of the subnet at each block
    op         \* the reading method the task is in

vars == <<chain, op>>

head == Len(chain)

-----------------------------------------------------------------------------
(* The methods: the requests each makes, in steps, those of a step at once, *)
(* and whether without block_hash it looks at the context.                 *)

StorageGet == <<{"getStorage"}>>

\* StorageDoubleMap.fetch(): the keys, then their values.
StorageFetch == <<{"getKeys"}, {"queryStorageAt"}>>

CommitmentsGet       == [steps |-> StorageGet,   context |-> TRUE]
CommitmentsFetch     == [steps |-> StorageFetch, context |-> TRUE]
WeightsGet           == [steps |-> StorageGet,   context |-> TRUE]
WeightsFetch         == [steps |-> StorageFetch, context |-> TRUE]
WeightsFetchPending  == [steps |-> StorageFetch, context |-> TRUE]
EvmAddressesFetch    == [steps |-> StorageFetch, context |-> TRUE]
NeuronGetCertificate == [steps |-> StorageGet,   context |-> FALSE]
GetCertificates      == [steps |-> StorageFetch, context |-> FALSE]
LastStoredRound      == [steps |-> StorageGet,   context |-> TRUE]
SubnetsCount         == [steps |-> StorageGet,   context |-> FALSE]

SubnetGet         == [steps |-> <<{"get_dynamic_info"}>>, context |-> TRUE]
GetHyperparams    == [steps |-> <<{"get_subnet_hyperparams"}>>, context |-> TRUE]
GetHyperparamsV2  == [steps |-> <<{"get_subnet_hyperparams_v2"}>>, context |-> TRUE]
GetState          == [steps |-> <<{"get_subnet_state"}>>, context |-> TRUE]
NeuronsAll        == [steps |-> <<{"get_neurons_lite"}>>, context |-> TRUE]

\* get_neuron() by uid, and by hotkey; the latter for the wallet's own hotkey,
\* whose address is then served anew with a certificate.
NeuronByUid     == [steps |-> <<{"get_neuron"}>>, context |-> FALSE]
NeuronByHotkey  == [steps |-> <<{"Uids"}, {"get_neuron"}>>, context |-> TRUE]
GenerateKeypair == NeuronByHotkey

GetValidators == [steps |-> <<{"get_neurons_lite", "get_subnet_state",
                               "get_subnet_hyperparams", "StakeThreshold"}>>,
                  context |-> TRUE]
WeightsCommit == [steps |-> <<{"get_subnet_hyperparams"}>>, context |-> FALSE]

Method ==
    [commitments_get |-> CommitmentsGet, commitments_fetch |-> CommitmentsFetch,
     weights_get |-> WeightsGet, weights_fetch |-> WeightsFetch,
     fetch_pending |-> WeightsFetchPending, evm_addresses |-> EvmAddressesFetch,
     get_certificate |-> NeuronGetCertificate, get_certificates |-> GetCertificates,
     last_stored_round |-> LastStoredRound, count |-> SubnetsCount,
     get |-> SubnetGet, get_hyperparameters |-> GetHyperparams,
     get_hyperparameters_v2 |-> GetHyperparamsV2, get_state |-> GetState,
     all |-> NeuronsAll, neuron_by_uid |-> NeuronByUid,
     neuron_by_hotkey |-> NeuronByHotkey, generate_keypair |-> GenerateKeypair,
     validators |-> GetValidators, commit |-> WeightsCommit]

Methods  == DOMAIN Method
ByHotkey == {"neuron_by_hotkey", "generate_keypair"}
Maps     == {m \in Methods : Method[m].steps = StorageFetch}

\* These have no parameter block_hash.
NoArgument == {"commit", "count", "generate_keypair"}

\* Mutant of Named: the context is nobody's business.
NamedByArgument(method, arg, ctx) == arg

\* The block_hash of the requests: `block_hash or get_ctx_block_hash()`.
Named(method, arg, ctx) ==
    IF arg # Latest \/ ~ Method[method].context THEN arg ELSE ctx

\* Mutant of NeedsHash: validators() reads with None.
OnlyCommitNeedsHash(method, pin) == method = "commit"

\* validators() without a block asks for the hash of the latest first, and
\* commit() enters blocks[-1], whatever block it is called in.
NeedsHash(method, pin) ==
    \/ method = "commit"
    \/ method = "validators" /\ pin = Latest

Unread == [r \in Requests |-> 0]

Idle == [method |-> "all", key |-> NoOne, arg |-> Latest, ctx |-> Latest,
         pin |-> Latest, from |-> 1, at |-> Unread, stage |-> "idle"]

Stages == {"idle", "naming", "reading", "returned", "raised"}

\* A call: what it was given, the context, the hash it uses, the head when it
\* began, and the block each answer is about.
OpType == [method : Methods, key : Hotkeys \cup {NoOne},
           arg : 0 .. MaxHead, ctx : 0 .. MaxHead, pin : 0 .. MaxHead,
           from : Blocks, at : [Requests -> 0 .. MaxHead], stage : Stages]

Types ==
    /\ chain \in Seq(Snapshot)
    /\ head \in Blocks
    /\ op \in OpType

\* Every variable has its type, and no request of validators() or of commit()
\* goes without a block.
TypeOK ==
    /\ Types
    /\ op.method \in {"validators", "commit"} /\ op.stage # "naming" => op.pin \in Blocks

\* The task calls a method, with a block or without, inside a block or not.
Call(method, key, arg, ctx) ==
    /\ op.stage = "idle"
    /\ (method \in ByHotkey) <=> (key # NoOne)
    /\ arg <= head /\ ctx <= head
    /\ method \in NoArgument => arg = Latest
    /\ op' = [method |-> method, key |-> key, arg |-> arg, ctx |-> ctx,
              pin    |-> Named(method, arg, ctx),
              from   |-> head,
              at     |-> Unread,
              stage  |-> IF NeedsHash(method, Named(method, arg, ctx))
                         THEN "naming" ELSE "reading"]
    /\ UNCHANGED chain

\* getBlockHash(); for commit(), BlockReference.__aenter__().
GetBlockHash ==
    /\ op.stage = "naming"
    /\ op' = [op EXCEPT !.pin = head, !.stage = "reading"]
    /\ UNCHANGED chain

-----------------------------------------------------------------------------
(* What the node answers, at the state of a block.                         *)

Seen(r) == chain[op.at[r]]

Neuron(s, u) == [uid |-> u, hotkey |-> s.owner[u]]

\* get_neurons_lite(): None and [] are the same to all().
Neurons(s) == {Neuron(s, u) : u \in {v \in Uids : s.owner[v] # NoOne}}

\* get_neuron(), at most one.
NeuronAt(s, uid) == {n \in Neurons(s) : n.uid = uid}

\* getStorage() of the map Uids, None when there is no value.
UidOf(s, h) == IF \E u \in Uids : s.owner[u] = h
               THEN CHOOSE u \in Uids : s.owner[u] = h ELSE NoUid

\* get_subnet_state(): hotkeys and total_stake, None without a subnet.
State(s) == [hotkeys |-> {n.hotkey : n \in Neurons(s)}, total_stake |-> s.stake]

\* getKeys() and queryStorageAt(): a key that has no value any more has the
\* value None.
Keys(s)         == {h \in Hotkeys : s.entry[h] # 0}
Values(s, keys) == {[hotkey |-> h, block |-> s.entry[h]] : h \in keys}

-----------------------------------------------------------------------------
(* The requests                                                            *)

\* Mutant of Found: `if not uid`.
FoundIfTrue(uid) == uid \notin {NoUid, 0}

\* `if uid is None: return None`.
Found(uid) == uid # NoUid

Step(i) == Method[op.method].steps[i]

\* The steps the method takes: one without an uid has nothing else to ask.
Last == IF /\ op.method \in ByHotkey
           /\ op.at["Uids"] # 0
           /\ ~ Found(UidOf(Seen("Uids"), op.key))
        THEN 1 ELSE Len(Method[op.method].steps)

Answered(i) == \A r \in Step(i) : op.at[r] # 0

Due(r) ==
    /\ op.stage = "reading"
    /\ op.at[r] = 0
    /\ \E i \in 1 .. Last : r \in Step(i) /\ \A j \in 1 .. i - 1 : Answered(j)

\* The block_hash a request is made with.
HashOf(r) == op.pin

\* Mutant of MayBeCached: every request is answered from memory.
MayAllBeCached(r) == TRUE

\* is_cachable().
MayBeCached(r) == r \in Cachable

\* The request names its block; or it is about the node's latest; or the cache
\* has its answer, from when some task asked.
Ask(r) ==
    /\ Due(r)
    /\ \E n \in 1 .. head :
         /\ IF HashOf(r) # Latest THEN n = HashOf(r)
                                  ELSE n = head \/ MayBeCached(r)
         /\ op' = [op EXCEPT !.at = [@ EXCEPT ![r] = n]]
    /\ UNCHANGED chain

-----------------------------------------------------------------------------
(* The results                                                             *)

\* NeuronReference.get(): `if not neuron_info: return None`.
NeuronFound ==
    LET uid == UidOf(Seen("Uids"), op.key) IN
    IF Found(uid) THEN NeuronAt(Seen("get_neuron"), uid) ELSE {}

\* The values of one answer for the keys of another.
Fetched == Values(Seen("queryStorageAt"), Keys(Seen("getKeys")))

\* Those with `total_stake >= stake_threshold`, if there is a threshold.
Eligible == LET state == State(Seen("get_subnet_state")) IN
    {h \in state.hotkeys : state.total_stake[h] >= Seen("StakeThreshold").threshold}

Before(g, h) == LET stake == State(Seen("get_subnet_state")).total_stake IN
    \/ stake[g] < stake[h]
    \/ stake[g] = stake[h] /\ g < h

Sorted(S) == CHOOSE s \in [1 .. Cardinality(S) -> S] :
                \A i, j \in DOMAIN s : i < j => Before(s[i], s[j])

\* Mutant of FromEnd: `stakes[:n]`.
FromStart(s, n) == {s[i] : i \in {j \in DOMAIN s : j <= n}}

\* stakes[-n:], which for n = 0 is all of them.
FromEnd(s, n) == {s[i] : i \in {j \in DOMAIN s : n = 0 \/ j > Len(s) - n}}

\* The neurons whose hotkey is among the last max_validators.
Validators ==
    {n \in Neurons(Seen("get_neurons_lite")) :
        n.hotkey \in FromEnd(Sorted(Eligible), Seen("get_subnet_hyperparams").max)}

\* None has no items, no number is >= None, zip(*[]) has nothing to unpack, and
\* None is no value that could be decoded.
Unusable ==
    \/ /\ op.method = "validators"
       /\ \/ ~ Seen("get_subnet_state").exists
          \/ ~ Seen("get_subnet_hyperparams").exists
          \/ Seen("StakeThreshold").threshold = Unset
          \/ Eligible = {}
    \/ op.method = "commit" /\ ~ Seen("get_subnet_hyperparams").exists
    \/ op.method \in Maps /\ \E e \in Fetched : e.block = 0

Return ==
    /\ op.stage = "reading"
    /\ \A i \in 1 .. Last : Answered(i)
    /\ op' = [op EXCEPT !.stage = IF Unusable THEN "raised" ELSE "returned"]
    /\ UNCHANGED chain

\* The task has its answer, and goes on.
Done ==
    /\ op.stage \in {"returned", "raised"}
    /\ op' = Idle
    /\ UNCHANGED chain

-----------------------------------------------------------------------------
(* The chain                                                               *)

Becomes(s) == chain' = Append(chain, s)

\* Nobody is left, and nothing is stored.
Dissolved(s) == [s EXCEPT !.exists = FALSE,
                          !.owner = [u \in Uids |-> NoOne],
                          !.entry = [h \in Hotkeys |-> 0]]

\* A block changes one thing: a hotkey takes a slot, perhaps another's; a stake,
\* the threshold or max_validators; an entry, set or removed; or all there is.
NewBlock ==
    LET s == chain[head] IN
    /\ head < MaxHead
    /\ \/ \E u \in Uids, h \in Hotkeys :
            /\ s.exists /\ (\A v \in Uids : s.owner[v] # h)
            /\ Becomes([s EXCEPT !.owner = [@ EXCEPT ![u] = h]])
       \/ \E h \in Hotkeys, amount \in 0 .. MaxStake :
            Becomes([s EXCEPT !.stake = [@ EXCEPT ![h] = amount]])
       \/ \E t \in 0 .. MaxStake : Becomes([s EXCEPT !.threshold = t])
       \/ \E n \in 0 .. Cardinality(Uids) : Becomes([s EXCEPT !.max = n])
       \/ \E h \in Hotkeys, b \in {0, head + 1} :
            s.exists /\ Becomes([s EXCEPT !.entry = [@ EXCEPT ![h] = b]])
       \/ Becomes(Dissolved(s))
    /\ UNCHANGED op

Init ==
    /\ \E s \in Starts : chain = <<s>>
    /\ op = Idle

Next ==
    \/ \E method \in Methods, key \in Hotkeys \cup {NoOne}, arg, ctx \in 0 .. MaxHead :
         Call(method, key, arg, ctx)
    \/ GetBlockHash
    \/ \E r \in Requests : Ask(r)
    \/ Return \/ Done
    \/ NewBlock

Spec == Init /\ [][Next]_vars

-----------------------------------------------------------------------------
(* Properties                                                              *)

ReadAt(n) == \A r \in Requests : op.at[r] \in {0, n}

Unnamed == op.arg = Latest /\ (op.ctx = Latest \/ ~ Method[op.method].context)

\* However the chain moves while a method waits: with block_hash every request
\* is about that block; inside a block, without, about that one, a few methods
\* excepted that do not look; and validators() and commit() are about one block
\* whatever they are given.
ReadsAreSnapshots ==
    /\ op.arg # Latest => ReadAt(op.arg)
    /\ ~ Unnamed /\ op.arg = Latest => ReadAt(op.ctx)
    /\ op.method \in {"validators", "commit"} => \E n \in Blocks : ReadAt(n)

Ended == op.stage \in {"returned", "raised"}

\* The neuron a hotkey has at a block, and what a map holds.
NeuronAnswer(s)  == {n \in Neurons(s) : n.hotkey = op.key}
EntriesAnswer(s) == {e \in [hotkey : Hotkeys, block : Blocks] : s.entry[e.hotkey] = e.block}

RightAt(n) ==
    /\ op.method \in ByHotkey => NeuronFound = NeuronAnswer(chain[n])
    /\ op.method \in Maps => Fetched = EntriesAnswer(chain[n])

\* A neuron found by its hotkey is that hotkey's, uid 0 or not, and a fetched
\* map is that of a block, unless the two requests were made without a block
\* and the chain moved in between: then the neuron may be another's, and a
\* value may be missing, which fetch() cannot decode.
OnlyTornReadsGoWrong ==
    Ended /\ (\A n \in 1 .. head : ~ RightAt(n)) =>
        /\ Unnamed
        /\ \A n \in Blocks : ~ ReadAt(n)

\* validators() are the max_validators with the most stake of those with
\* enough, as the block it is about has them.  With max_validators 0 it is
\* everybody with enough stake.  When nobody has it raises, and also, whatever
\* stake they have, when the threshold was never set.
ValidatorsAreTheTop ==
    Ended /\ op.method = "validators" =>
        LET s      == chain[op.at["get_neurons_lite"]]
            Enough == {n \in Neurons(s) : s.stake[n.hotkey] >= s.threshold}
            Above(n) == {m \in Enough :
                            \/ s.stake[m.hotkey] > s.stake[n.hotkey]
                            \/ /\ s.stake[m.hotkey] = s.stake[n.hotkey]
                               /\ m.hotkey > n.hotkey}
        IN IF s.threshold = Unset \/ Enough = {} THEN op.stage = "raised"
           ELSE /\ op.stage = "returned"
                /\ Validators = {n \in Enough : \/ s.max = 0
                                               \/ Cardinality(Above(n)) < s.max}

\* What a call reads without a block is at least as new as the call, but for
\* the requests that are cached; validators() and commit(), which make some of
\* them, ask for a block of their own first.
OnlyCachedReadsGoBack ==
    \A r \in Requests : Unnamed /\ op.at[r] # 0 =>
        \/ op.at[r] >= op.from
        \/ r \in Cachable /\ op.method \notin {"validators", "commit"}

=============================================================================
