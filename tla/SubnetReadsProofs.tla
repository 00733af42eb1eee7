------------------------- MODULE SubnetReadsProofs -------------------------
(***************************************************************************)
(* Proofs about SubnetReads: whatever the chain and other tasks do between *)
(* two requests, reads that name a block are of that block, and only       *)
(* cached ones are older than the call; a method whose reads are of one    *)
(* block answers as that block has it, and validators() always does.       *)
(***************************************************************************)
EXTENDS SubnetReads, SequenceTheorems, FiniteSetTheorems,
        WellFoundedInduction, TLAPS

\* Nothing is of a block that does not exist yet.
Past == op.from <= head /\ op.pin <= head

Pinning == {"validators", "commit"}

\* The hash that the requests of a method carry once they are made.
PinnedAsNamed ==
    /\ op.arg # Latest => op.pin = op.arg
    /\ ~ Unnamed /\ op.arg = Latest => op.pin = op.ctx
    /\ Unnamed /\ op.method \notin Pinning => op.pin = Latest
    /\ op.method = "commit" => Unnamed
    /\ op.stage = "naming" => /\ op.method \in Pinning
                              /\ Unnamed
                              /\ op.at = Unread

\* validators() and commit() have a hash before they read, and theirs is new.
PinnedFirst ==
    op.method \in Pinning /\ op.stage # "naming" =>
        /\ op.pin # Latest
        /\ Unnamed => op.pin >= op.from

\* What has been read so far.
ReadAsPinned ==
    \A r \in Requests : op.at[r] # 0 =>
        IF op.pin # Latest THEN op.at[r] = op.pin
        ELSE op.at[r] >= op.from \/ r \in Cachable

ReadsInv == Types /\ Past /\ PinnedAsNamed /\ PinnedFirst /\ ReadAsPinned

\* The names that the proofs tell apart.
LEMMA MethodNames == "all" \in Methods /\ ~ Method["commit"].context
<1>1. "all" \in Methods
  BY DEF Methods, Method
<1>2. Method["commit"] = WeightsCommit
  BY DEF Method
<1>3. ~ WeightsCommit.context
  BY DEF WeightsCommit
<1> QED BY <1>1, <1>2, <1>3

\* Whatever a block changes, the subnet is a subnet.
LEMMA NewBlockType ==
    ASSUME Types, NewBlock
    PROVE  \E s \in Snapshot : Becomes(s)
<1> USE SubnetReadsAssumption
<1> DEFINE s == chain[head]
<1>1. s \in Snapshot /\ head + 1 \in Blocks
  BY DEF Types, head, NewBlock, Blocks
<1> HIDE DEF s
<1>2. ASSUME NEW u \in Uids, NEW h \in Hotkeys
      PROVE  [s EXCEPT !.owner = [@ EXCEPT ![u] = h]] \in Snapshot
  BY <1>1 DEF Snapshot
<1>3. ASSUME NEW h \in Hotkeys, NEW amount \in 0 .. MaxStake
      PROVE  [s EXCEPT !.stake = [@ EXCEPT ![h] = amount]] \in Snapshot
  BY <1>1 DEF Snapshot
<1>4. ASSUME NEW t \in 0 .. MaxStake PROVE [s EXCEPT !.threshold = t] \in Snapshot
  BY <1>1 DEF Snapshot
<1>5. ASSUME NEW n \in 0 .. Cardinality(Uids) PROVE [s EXCEPT !.max = n] \in Snapshot
  BY <1>1 DEF Snapshot
<1>6. ASSUME NEW h \in Hotkeys, NEW b \in {0, head + 1}
      PROVE  [s EXCEPT !.entry = [@ EXCEPT ![h] = b]] \in Snapshot
  BY <1>1 DEF Snapshot, Latest
<1>7. Dissolved(s) \in Snapshot
  BY <1>1 DEF Snapshot, Dissolved, Latest
<1> QED BY <1>2, <1>3, <1>4, <1>5, <1>6, <1>7 DEF NewBlock, s

\* Between two calls there is nothing to show.
LEMMA IdleReads ==
    ASSUME chain' \in Seq(Snapshot), head' \in Blocks, op' = Idle
    PROVE  ReadsInv'
<1> USE SubnetReadsAssumption
<1>1. op' \in OpType
  BY MethodNames DEF Idle, OpType, Latest, Blocks, NoOne, Unread, Stages
<1>2. Types'
  BY <1>1 DEF Types
<1>3. Past'
  BY DEF Past, Idle, Latest, Blocks
<1>4. PinnedAsNamed' /\ PinnedFirst' /\ ReadAsPinned'
  BY DEF Idle, Pinning, PinnedAsNamed, PinnedFirst, ReadAsPinned, Unnamed, Unread
<1> QED BY <1>2, <1>3, <1>4 DEF ReadsInv

LEMMA InitReads == Init => ReadsInv
<1> SUFFICES ASSUME Init PROVE ReadsInv
  OBVIOUS
<1> USE SubnetReadsAssumption
<1>1. PICK s \in Starts : chain = <<s>>
  BY DEF Init
<1>2. chain \in Seq(Snapshot) /\ head = 1 /\ head \in Blocks
  BY <1>1 DEF head, Blocks
<1>3. op \in OpType
  BY MethodNames DEF Init, Idle, OpType, Latest, Blocks, NoOne, Unread, Stages
<1>4. Past
  BY <1>2 DEF Init, Past, Idle, Latest, Blocks
<1>5. PinnedAsNamed /\ PinnedFirst /\ ReadAsPinned
  BY DEF Init, Idle, Pinning, PinnedAsNamed, PinnedFirst, ReadAsPinned, Unnamed, Unread
<1> QED BY <1>2, <1>3, <1>4, <1>5 DEF ReadsInv, Types

\* A call starts with nothing read.
LEMMA CallReads ==
    ASSUME ReadsInv, NEW method \in Methods, NEW key \in Hotkeys \cup {NoOne},
           NEW arg \in 0 .. MaxHead, NEW ctx \in 0 .. MaxHead,
           Call(method, key, arg, ctx)
    PROVE  ReadsInv'
<1> USE SubnetReadsAssumption
<1>1. chain' = chain /\ head' = head /\ head \in Blocks /\ chain \in Seq(Snapshot)
  BY DEF Call, head, ReadsInv, Types
<1> DEFINE pin == Named(method, arg, ctx)
           unnamed == arg = Latest /\ (ctx = Latest \/ ~ Method[method].context)
<1>2. pin \in 0 .. MaxHead /\ pin <= head
  BY <1>1 DEF Named, Call, Blocks
<1>3. /\ op'.method = method /\ op'.arg = arg /\ op'.ctx = ctx /\ op'.pin = pin
      /\ op'.from = head /\ op'.at = Unread
      /\ op'.stage = IF NeedsHash(method, pin) THEN "naming" ELSE "reading"
      /\ Unnamed' = unnamed
  BY DEF Call, Unnamed
<1>4. op' \in OpType
  BY <1>1, <1>2 DEF Call, OpType, Unread, Stages
<1>5. Types' /\ Past'
  BY <1>1, <1>2, <1>3, <1>4 DEF Types, Past, Blocks
<1>6. /\ arg # Latest => pin = arg
      /\ ~ unnamed /\ arg = Latest => pin = ctx
      /\ unnamed => pin = Latest
      /\ ~ unnamed => pin # Latest
  BY DEF Named
<1>7. method = "commit" => unnamed
  BY MethodNames DEF Call, NoArgument
<1>8. (op'.stage = "naming") <=> (method \in Pinning /\ pin = Latest)
  BY <1>3, <1>6, <1>7 DEF NeedsHash, Pinning
<1> HIDE DEF pin, unnamed
<1>9. PinnedAsNamed'
  BY <1>3, <1>6, <1>7, <1>8 DEF PinnedAsNamed
<1>10. PinnedFirst'
  BY <1>3, <1>6, <1>8 DEF PinnedFirst
<1>11. ReadAsPinned'
  BY <1>3 DEF ReadAsPinned, Unread
<1> QED BY <1>5, <1>9, <1>10, <1>11 DEF ReadsInv

LEMMA GetBlockHashReads == ReadsInv /\ GetBlockHash => ReadsInv'
<1> SUFFICES ASSUME ReadsInv, GetBlockHash PROVE ReadsInv'
  OBVIOUS
<1> USE SubnetReadsAssumption
<1>1. chain' = chain /\ head' = head /\ head \in Blocks
  BY DEF GetBlockHash, head, ReadsInv, Types
<1>2. /\ op'.method = op.method /\ op'.arg = op.arg /\ op'.ctx = op.ctx
      /\ op'.pin = head /\ op'.from = op.from /\ op'.at = op.at
      /\ op'.stage = "reading" /\ op.stage = "naming"
      /\ op' \in OpType
  <2> DEFINE h == head
  <2>1. h \in 0 .. MaxHead
    BY <1>1 DEF Blocks
  <2>2. op \in OpType /\ op.stage = "naming"
    BY DEF ReadsInv, Types, GetBlockHash
  <2>3. op' = [op EXCEPT !.pin = h, !.stage = "reading"]
    BY DEF GetBlockHash
  <2> HIDE DEF h
  <2>4. op' \in OpType
    BY <2>1, <2>2, <2>3 DEF OpType, Stages
  <2>5. /\ op'.method = op.method /\ op'.arg = op.arg /\ op'.ctx = op.ctx
        /\ op'.pin = h /\ op'.from = op.from /\ op'.at = op.at
        /\ op'.stage = "reading"
    BY <2>2, <2>3 DEF OpType
  <2> QED BY <2>2, <2>4, <2>5 DEF h
<1>3. op.arg = Latest /\ op.at = Unread /\ Unnamed
  BY <1>2 DEF ReadsInv, PinnedAsNamed, Unnamed
<1>4. Types' /\ Past'
  BY <1>1, <1>2 DEF Types, Past, ReadsInv, Blocks
<1>5. PinnedAsNamed'
  BY <1>2, <1>3 DEF ReadsInv, PinnedAsNamed, Unnamed
<1>6. PinnedFirst'
  BY <1>1, <1>2 DEF ReadsInv, Past, PinnedFirst, OpType, Latest, Blocks
<1>7. ReadAsPinned'
  BY <1>2, <1>3 DEF ReadAsPinned, Unread
<1> QED BY <1>4, <1>5, <1>6, <1>7 DEF ReadsInv

\* Reading one more answer.
LEMMA AnswerReads ==
    ASSUME ReadsInv, NEW r \in Requests, NEW n \in Blocks,
           chain' = chain,
           op' = [op EXCEPT !.at = [@ EXCEPT ![r] = n]],
           op.stage = "reading",
           op.pin # Latest => n = op.pin,
           op.pin = Latest => n = head \/ r \in Cachable
    PROVE  ReadsInv'
<1> USE SubnetReadsAssumption
<1>1. op \in OpType /\ op.at \in [Requests -> 0 .. MaxHead] /\ head \in Blocks
  BY DEF ReadsInv, Types, OpType
<1>2. /\ op'.method = op.method /\ op'.arg = op.arg /\ op'.ctx = op.ctx
      /\ op'.pin = op.pin /\ op'.from = op.from /\ op'.stage = op.stage
      /\ op'.at = [op.at EXCEPT ![r] = n]
  BY <1>1 DEF OpType
<1>3. op' \in OpType
  BY <1>1 DEF OpType, Blocks
<1>4. Types' /\ Past'
  BY <1>1, <1>2, <1>3 DEF Types, Past, ReadsInv, head
<1>5. PinnedAsNamed'
  BY <1>2, Zenon DEF ReadsInv, PinnedAsNamed, Unnamed
<1>6. PinnedFirst'
  BY <1>2 DEF ReadsInv, PinnedFirst, Unnamed
<1>7. ReadAsPinned'
  <2> SUFFICES ASSUME NEW q \in Requests, op'.at[q] # 0
               PROVE  IF op'.pin # Latest THEN op'.at[q] = op'.pin
                      ELSE op'.at[q] >= op'.from \/ q \in Cachable
    BY DEF ReadAsPinned
  <2>1. CASE q = r
    BY <1>1, <1>2, <2>1 DEF ReadsInv, Past, OpType, Blocks
  <2>2. CASE q # r
    BY <1>1, <1>2, <2>2 DEF ReadsInv, ReadAsPinned
  <2> QED BY <2>1, <2>2
<1> QED BY <1>4, <1>5, <1>6, <1>7 DEF ReadsInv

LEMMA AskReads == ASSUME ReadsInv, NEW r \in Requests, Ask(r) PROVE ReadsInv'
<1> USE SubnetReadsAssumption
<1>1. PICK n \in 1 .. head :
        /\ IF op.pin # Latest THEN n = op.pin ELSE n = head \/ r \in Cachable
        /\ op' = [op EXCEPT !.at = [@ EXCEPT ![r] = n]]
  BY DEF Ask, HashOf, MayBeCached
<1>2. n \in Blocks
  BY <1>1 DEF ReadsInv, Types, Blocks
<1>3. chain' = chain /\ op.stage = "reading"
  BY DEF Ask, Due
<1> QED BY <1>1, <1>2, <1>3, AnswerReads

LEMMA ReturnReads == ReadsInv /\ Return => ReadsInv'
<1> SUFFICES ASSUME ReadsInv, Return PROVE ReadsInv'
  OBVIOUS
<1>1. chain' = chain /\ head' = head /\ op \in OpType /\ op.stage = "reading"
  BY DEF Return, head, ReadsInv, Types
<1>2. PICK stage \in {"raised", "returned"} : op' = [op EXCEPT !.stage = stage]
  BY DEF Return
<1>3. /\ op'.method = op.method /\ op'.arg = op.arg /\ op'.ctx = op.ctx
      /\ op'.pin = op.pin /\ op'.from = op.from /\ op'.at = op.at
      /\ op'.stage = stage /\ op' \in OpType
  BY <1>1, <1>2 DEF OpType, Stages
<1>4. Types' /\ Past'
  BY <1>1, <1>3 DEF Types, Past, ReadsInv
<1>5. PinnedAsNamed'
  BY <1>3, Zenon DEF ReadsInv, PinnedAsNamed, Unnamed
<1>6. PinnedFirst' /\ ReadAsPinned'
  BY <1>1, <1>3 DEF ReadsInv, PinnedFirst, ReadAsPinned, Unnamed
<1> QED BY <1>4, <1>5, <1>6 DEF ReadsInv

\* What the chain and the other tasks do.
LEMMA OthersReads ==
    ASSUME ReadsInv, op' = op, chain' \in Seq(Snapshot), head' \in Blocks, head' >= head
    PROVE  ReadsInv'
<1>1. Types'
  BY DEF ReadsInv, Types
<1>2. Past'
  BY SubnetReadsAssumption DEF ReadsInv, Types, OpType, Past, Blocks
<1>3. PinnedAsNamed' /\ PinnedFirst' /\ ReadAsPinned'
  BY DEF ReadsInv, PinnedAsNamed, PinnedFirst, ReadAsPinned, Unnamed
<1> QED BY <1>1, <1>2, <1>3 DEF ReadsInv

LEMMA NextReads == ReadsInv /\ [Next]_vars => ReadsInv'
<1> SUFFICES ASSUME ReadsInv, [Next]_vars PROVE ReadsInv'
  OBVIOUS
<1> USE SubnetReadsAssumption
<1>0. chain \in Seq(Snapshot) /\ head \in Blocks
  BY DEF ReadsInv, Types
<1>1. ASSUME NEW method \in Methods, NEW key \in Hotkeys \cup {NoOne},
             NEW arg \in 0 .. MaxHead, NEW ctx \in 0 .. MaxHead,
             Call(method, key, arg, ctx)
      PROVE  ReadsInv'
  BY <1>1, CallReads
<1>2. CASE GetBlockHash
  BY <1>2, GetBlockHashReads
<1>3. ASSUME NEW r \in Requests, Ask(r) PROVE ReadsInv'
  BY <1>3, AskReads
<1>4. CASE Return
  BY <1>4, ReturnReads
<1>5. CASE NewBlock
  <2>1. PICK s \in Snapshot : chain' = Append(chain, s)
    BY <1>5, NewBlockType DEF ReadsInv, Becomes
  <2>2. chain' \in Seq(Snapshot) /\ head' = head + 1
    BY <1>0, <2>1 DEF head
  <2> QED BY <1>0, <1>5, <2>2, OthersReads DEF NewBlock, Blocks
<1>6. CASE Done
  BY <1>0, <1>6, IdleReads DEF Done, head
<1>7. CASE UNCHANGED vars
  <2>1. op' = op /\ chain' = chain /\ head' = head /\ head' >= head
    BY <1>0, <1>7 DEF vars, head, Blocks
  <2> QED BY <1>0, <2>1, OthersReads
<1> QED BY <1>1, <1>2, <1>3, <1>4, <1>5, <1>6, <1>7 DEF Next

\* What is promised of any call follows from what it has read so far.
LEMMA ReadsInvImplies ==
    ReadsInv => TypeOK /\ ReadsAreSnapshots /\ OnlyCachedReadsGoBack
<1> SUFFICES ASSUME ReadsInv PROVE TypeOK /\ ReadsAreSnapshots /\ OnlyCachedReadsGoBack
  OBVIOUS
<1> USE SubnetReadsAssumption
<1>1. /\ op.pin \in 0 .. MaxHead /\ op.from \in Blocks
      /\ op.stage = "naming" => op.at = Unread
  BY DEF ReadsInv, Types, OpType, PinnedAsNamed
<1>2. op.pin # Latest => ReadAt(op.pin)
  BY DEF ReadAt, ReadsInv, ReadAsPinned
<1>3. ReadsAreSnapshots
  <2>1. op.arg # Latest => ReadAt(op.arg)
    BY <1>2 DEF ReadsInv, PinnedAsNamed
  <2>2. ~ Unnamed /\ op.arg = Latest => ReadAt(op.ctx)
    BY <1>2, MethodNames DEF ReadsInv, PinnedAsNamed, Unnamed
  <2>3. ASSUME op.method \in {"validators", "commit"}
        PROVE  \E n \in Blocks : ReadAt(n)
    <3>1. CASE op.stage = "naming"
      BY <1>1, <2>3, <3>1 DEF ReadAt, Unread
    <3>2. CASE op.stage # "naming"
      <4>1. op.pin \in Blocks
        BY <1>1, <2>3, <3>2 DEF ReadsInv, PinnedFirst, Pinning, Blocks, Latest
      <4> QED BY <1>2, <4>1 DEF Blocks, Latest
    <3> QED BY <3>1, <3>2
  <2> QED BY <2>1, <2>2, <2>3 DEF ReadsAreSnapshots
<1>4. OnlyCachedReadsGoBack
  <2> SUFFICES ASSUME NEW r \in Requests, Unnamed, op.at[r] # 0
               PROVE  \/ op.at[r] >= op.from
                      \/ r \in Cachable /\ op.method \notin {"validators", "commit"}
    BY DEF OnlyCachedReadsGoBack
  <2>1. CASE op.method \in {"validators", "commit"}
    <3>1. op.stage # "naming"
      BY <1>1, <2>1 DEF Unread
    <3> QED BY <2>1, <3>1 DEF ReadsInv, PinnedFirst, Pinning, ReadAsPinned
  <2>2. CASE op.method \notin {"validators", "commit"}
    BY <2>2 DEF ReadsInv, PinnedAsNamed, Pinning, ReadAsPinned, Unnamed
  <2> QED BY <2>1, <2>2
<1>5. TypeOK
  BY <1>1 DEF ReadsInv, TypeOK, PinnedFirst, Pinning, Blocks, Latest
<1> QED BY <1>3, <1>4, <1>5

\* subnet.py, neuron.py: every call keeps its type, and reads are of the block
\* they name, of one block for validators() and commit(), and never older than
\* the call unless the request is one that is cached, for any chain, any set of
\* cachable requests and whatever other tasks store.
THEOREM ReadsCorrect ==
    Spec => [](TypeOK /\ ReadsAreSnapshots /\ OnlyCachedReadsGoBack)
<1>1. Init => ReadsInv
  BY InitReads
<1>2. ReadsInv /\ [Next]_vars => ReadsInv'
  BY NextReads
<1>3. ReadsInv => TypeOK /\ ReadsAreSnapshots /\ OnlyCachedReadsGoBack
  BY ReadsInvImplies DEF ReadsInv
<1> QED BY <1>1, <1>2, <1>3, PTL DEF Spec

-----------------------------------------------------------------------------
(* What the methods return.                                                *)

\* What a method has read when it ends.
Complete ==
    /\ op.method = "validators" =>
         /\ op.at["get_neurons_lite"] # 0
         /\ op.at["get_subnet_state"] # 0
         /\ op.at["get_subnet_hyperparams"] # 0
         /\ op.at["StakeThreshold"] # 0
    /\ op.method = "commit" => op.at["get_subnet_hyperparams"] # 0
    /\ op.method \in ByHotkey =>
         /\ op.at["Uids"] # 0
         /\ Found(UidOf(Seen("Uids"), op.key)) => op.at["get_neuron"] # 0
    /\ op.method \in Maps =>
         op.at["getKeys"] # 0 /\ op.at["queryStorageAt"] # 0

\* The chain stays one the pallet makes, a call by hotkey has a hotkey, and a
\* call that has ended has read what it needs and raised only for that.
AnswersInv ==
    /\ \A n \in 1 .. head : Possible(chain[n])
    /\ op.method \in ByHotkey => op.key # NoOne
    /\ \A r \in Requests : op.at[r] <= head
    /\ Ended => Complete /\ (op.stage = "raised" <=> Unusable)

LEMMA MethodSteps ==
    /\ Method["validators"].steps =
         <<{"get_neurons_lite", "get_subnet_state", "get_subnet_hyperparams",
            "StakeThreshold"}>>
    /\ Method["commit"].steps = <<{"get_subnet_hyperparams"}>>
    /\ \A m \in ByHotkey : Method[m].steps = <<{"Uids"}, {"get_neuron"}>>
    /\ \A m \in Maps : Method[m].steps = <<{"getKeys"}, {"queryStorageAt"}>>
<1>1. Method["validators"] = GetValidators /\ Method["commit"] = WeightsCommit
  BY DEF Method
<1>2. \A m \in ByHotkey : Method[m] = NeuronByHotkey
  BY DEF Method, ByHotkey, GenerateKeypair
<1>3. \A m \in Maps : Method[m].steps = StorageFetch
  BY DEF Maps
<1> QED
  BY <1>1, <1>2, <1>3 DEF GetValidators, WeightsCommit, NeuronByHotkey, StorageFetch

LEMMA KindsOfMethods ==
    /\ "validators" \notin ByHotkey \cup Maps /\ "commit" \notin ByHotkey \cup Maps
    /\ \A m \in Maps : m \notin ByHotkey
<1>1. /\ Method["validators"].steps # StorageFetch
      /\ Method["commit"].steps # StorageFetch
      /\ \A m \in ByHotkey : Method[m].steps # StorageFetch
  <2>1. /\ Len(Method["validators"].steps) = 1 /\ Len(Method["commit"].steps) = 1
        /\ \A m \in ByHotkey : "Uids" \in Method[m].steps[1]
    BY MethodSteps
  <2>2. Len(StorageFetch) = 2 /\ "Uids" \notin StorageFetch[1]
    BY DEF StorageFetch
  <2> QED BY <2>1, <2>2
<1> QED BY <1>1 DEF ByHotkey, Maps

\* The steps that are taken are the reads that are needed.
LEMMA AllAnswered ==
    ASSUME \A i \in 1 .. Last : Answered(i) PROVE Complete
<1>1. CASE op.method = "validators"
  <2>1. Last = 1
    BY <1>1, MethodSteps, KindsOfMethods DEF Last
  <2>2. Answered(1)
    BY <2>1
  <2>3. Step(1) = {"get_neurons_lite", "get_subnet_state",
                   "get_subnet_hyperparams", "StakeThreshold"}
    BY <1>1, MethodSteps DEF Step
  <2> QED
    BY <1>1, <2>2, <2>3, KindsOfMethods DEF Answered, Complete
<1>2. CASE op.method = "commit"
  <2>1. Last = 1
    BY <1>2, MethodSteps, KindsOfMethods DEF Last
  <2>2. Answered(1)
    BY <2>1
  <2>3. Step(1) = {"get_subnet_hyperparams"}
    BY <1>2, MethodSteps DEF Step
  <2> QED
    BY <1>2, <2>2, <2>3, KindsOfMethods DEF Answered, Complete
<1>3. CASE op.method \in ByHotkey
  <2>1. Len(Method[op.method].steps) = 2
    <3>1. Method[op.method].steps = <<{"Uids"}, {"get_neuron"}>>
      BY <1>3, MethodSteps, Zenon
    <3> QED BY <3>1
  <2>2. Last \in {1, 2}
    BY <2>1 DEF Last
  <2>3. Step(1) = {"Uids"} /\ Step(2) = {"get_neuron"}
    BY SMTT(30), <1>3, MethodSteps DEF Step
  <2>4. op.at["Uids"] # 0
    BY <2>2, <2>3 DEF Answered
  <2>5. ASSUME Found(UidOf(Seen("Uids"), op.key)) PROVE op.at["get_neuron"] # 0
    <3>1. Last = 2
      BY <2>1, <2>5 DEF Last
    <3> QED BY <2>3, <3>1 DEF Answered
  <2> QED
    BY <1>3, <2>4, <2>5, KindsOfMethods DEF Complete
<1>4. CASE op.method \in Maps
  <2>1. Len(Method[op.method].steps) = 2 /\ op.method \notin ByHotkey
    <3>1. Method[op.method].steps = <<{"getKeys"}, {"queryStorageAt"}>>
      BY <1>4, MethodSteps, Zenon
    <3> QED BY <1>4, <3>1, KindsOfMethods
  <2>2. Last = 2
    BY <2>1 DEF Last
  <2>3. Step(1) = {"getKeys"} /\ Step(2) = {"queryStorageAt"}
    BY <1>4, MethodSteps DEF Step
  <2> QED
    BY <1>4, <2>2, <2>3, KindsOfMethods DEF Answered, Complete
<1> QED
  BY <1>1, <1>2, <1>3, <1>4 DEF Complete

\* What has been read stays as it was read.
LEMMA SameAnswers ==
    ASSUME Complete, op'.method = op.method, op'.key = op.key, op'.at = op.at,
           \A r \in Requests : op.at[r] # 0 => Seen(r)' = Seen(r)
    PROVE  Complete' /\ (Unusable' <=> Unusable)
<1>1. {"get_subnet_state", "get_subnet_hyperparams", "StakeThreshold", "Uids",
       "getKeys", "queryStorageAt"} \subseteq Requests
  BY DEF Requests
<1>2. op.method \in ByHotkey => Seen("Uids")' = Seen("Uids")
  BY <1>1 DEF Complete
<1>3. Complete'
  BY <1>2 DEF Complete
<1>4. CASE op.method = "validators"
  <2>1. /\ Seen("get_subnet_state")' = Seen("get_subnet_state")
        /\ Seen("get_subnet_hyperparams")' = Seen("get_subnet_hyperparams")
        /\ Seen("StakeThreshold")' = Seen("StakeThreshold")
    BY <1>1, <1>4 DEF Complete
  <2>2. Eligible' = Eligible
    BY <2>1, Zenon DEF Eligible
  <2> QED BY <1>3, <1>4, <2>1, <2>2, KindsOfMethods DEF Unusable
<1>5. CASE op.method = "commit"
  <2>1. Seen("get_subnet_hyperparams")' = Seen("get_subnet_hyperparams")
    BY <1>1, <1>5 DEF Complete
  <2> QED BY <1>3, <1>5, <2>1, KindsOfMethods DEF Unusable
<1>6. CASE op.method \in Maps
  <2>1. /\ Seen("getKeys")' = Seen("getKeys")
        /\ Seen("queryStorageAt")' = Seen("queryStorageAt")
    BY <1>1, <1>6 DEF Complete
  <2>2. Fetched' = Fetched
    BY <2>1, Zenon DEF Fetched
  <2> QED BY <1>3, <1>6, <2>2, KindsOfMethods DEF Unusable
<1> QED
  BY <1>3, <1>4, <1>5, <1>6 DEF Unusable

\* The pallet keeps a hotkey to one slot.
LEMMA PossibleNext ==
    ASSUME Types, AnswersInv, NewBlock, NEW s, Becomes(s)
    PROVE  Possible(s)
<1> USE SubnetReadsAssumption
<1> DEFINE o == chain[head]
<1>1. o \in Snapshot /\ Possible(o)
  BY DEF Types, head, AnswersInv, Blocks
<1>2. chain \in Seq(Snapshot)
  BY DEF Types
<1>3. \A t : Becomes(t) => t = s
  <2>1. ASSUME NEW t, Append(chain, t) = Append(chain, s) PROVE t = s
    <3>1. Append(chain, t)[Len(chain) + 1] = t /\ Append(chain, s)[Len(chain) + 1] = s
      BY <1>2
    <3> QED BY <2>1, <3>1
  <2> QED BY <2>1 DEF Becomes
<1> HIDE DEF o
<1>4. ASSUME NEW u \in Uids, NEW h \in Hotkeys, o.exists,
             \A v \in Uids : o.owner[v] # h
      PROVE  Possible([o EXCEPT !.owner = [@ EXCEPT ![u] = h]])
  BY <1>1, <1>4 DEF Possible, Snapshot
<1>5. ASSUME NEW h \in Hotkeys, NEW amount \in 0 .. MaxStake
      PROVE  Possible([o EXCEPT !.stake = [@ EXCEPT ![h] = amount]])
  BY <1>1 DEF Possible, Snapshot
<1>6. ASSUME NEW t \in 0 .. MaxStake PROVE Possible([o EXCEPT !.threshold = t])
  BY <1>1 DEF Possible, Snapshot
<1>7. ASSUME NEW n \in 0 .. Cardinality(Uids) PROVE Possible([o EXCEPT !.max = n])
  BY <1>1 DEF Possible, Snapshot
<1>8. ASSUME NEW h \in Hotkeys, NEW b \in {0, head + 1}
      PROVE  Possible([o EXCEPT !.entry = [@ EXCEPT ![h] = b]])
  BY <1>1 DEF Possible, Snapshot
<1>9. Possible(Dissolved(o))
  BY <1>1 DEF Possible, Snapshot, Dissolved
<1> QED
  BY <1>3, <1>4, <1>5, <1>6, <1>7, <1>8, <1>9 DEF NewBlock, o

LEMMA AnswersInit == Init => AnswersInv
<1> SUFFICES ASSUME Init PROVE AnswersInv
  OBVIOUS
<1>1. PICK s \in Starts : chain = <<s>>
  BY DEF Init
<1>2. head = 1 /\ chain[1] = s /\ Possible(s)
  BY <1>1, SubnetReadsAssumption DEF head
<1>3. /\ op.method = "all" /\ op.stage = "idle"
      /\ \A r \in Requests : op.at[r] = 0
  BY DEF Init, Idle, Unread
<1> QED
  BY <1>2, <1>3 DEF AnswersInv, ByHotkey, Ended

LEMMA AnswersNext ==
    ReadsInv /\ AnswersInv /\ [Next]_vars => AnswersInv'
<1> SUFFICES ASSUME ReadsInv, AnswersInv, [Next]_vars PROVE AnswersInv'
  OBVIOUS
<1> USE SubnetReadsAssumption
<1>0. chain \in Seq(Snapshot) /\ head \in Blocks /\ op \in OpType
  BY DEF ReadsInv, Types
<1>1. ASSUME NEW method \in Methods, NEW key \in Hotkeys \cup {NoOne},
             NEW arg \in 0 .. MaxHead, NEW ctx \in 0 .. MaxHead,
             Call(method, key, arg, ctx)
      PROVE  AnswersInv'
  <2>1. /\ chain' = chain /\ head' = head /\ op'.method = method /\ op'.key = key
        /\ op'.at = Unread /\ op'.stage \in {"naming", "reading"}
        /\ method \in ByHotkey => key # NoOne
    BY <1>1 DEF Call, head
  <2> QED
    BY <1>0, <2>1 DEF AnswersInv, Ended, Unread, Blocks
<1>2. CASE GetBlockHash
  <2>1. /\ chain' = chain /\ head' = head /\ op'.method = op.method
        /\ op'.key = op.key /\ op'.at = op.at /\ op'.stage = "reading"
    BY <1>0, <1>2 DEF GetBlockHash, head, OpType
  <2> QED
    BY <2>1 DEF AnswersInv, Ended
<1>3. ASSUME NEW r \in Requests, Ask(r) PROVE AnswersInv'
  <2>1. PICK n \in 1 .. head : op' = [op EXCEPT !.at = [@ EXCEPT ![r] = n]]
    BY <1>3 DEF Ask
  <2>2. /\ chain' = chain /\ head' = head /\ op'.method = op.method
        /\ op'.key = op.key /\ op'.at = [op.at EXCEPT ![r] = n]
        /\ op'.stage = "reading"
    BY <1>0, <1>3, <2>1 DEF Ask, Due, head, OpType
  <2>3. \A q \in Requests : op'.at[q] <= head
    BY <1>0, <2>2 DEF AnswersInv, OpType, Blocks
  <2> QED
    BY <2>2, <2>3 DEF AnswersInv, Ended
<1>4. CASE Return
  <2>1. /\ chain' = chain /\ head' = head /\ op'.method = op.method
        /\ op'.key = op.key /\ op'.at = op.at
        /\ op'.stage = IF Unusable THEN "raised" ELSE "returned"
    BY <1>0, <1>4 DEF Return, head, OpType
  <2>2. Complete
    BY <1>4, AllAnswered DEF Return
  <2>3. \A r \in Requests : Seen(r)' = Seen(r)
    BY <2>1 DEF Seen
  <2>4. Complete' /\ (Unusable' <=> Unusable)
    BY <2>1, <2>2, <2>3, SameAnswers
  <2> QED
    BY <2>1, <2>4 DEF AnswersInv
<1>5. CASE NewBlock
  <2>1. PICK s \in Snapshot : Becomes(s)
    BY <1>5, NewBlockType DEF ReadsInv
  <2>2. /\ chain' = Append(chain, s) /\ head' = head + 1 /\ op' = op
        /\ Possible(s)
    <3>1. chain' = Append(chain, s)
      BY <2>1 DEF Becomes
    <3>2. op' = op
      BY <1>5 DEF NewBlock
    <3>3. head' = head + 1
      BY <1>0, <3>1 DEF head
    <3>4. Possible(s)
      BY <1>5, <2>1, PossibleNext DEF ReadsInv
    <3> QED BY <3>1, <3>2, <3>3, <3>4
  <2>3. /\ \A n \in 1 .. head : chain'[n] = chain[n]
        /\ chain'[head + 1] = s /\ head \in Nat
    BY <1>0, <2>2 DEF head
  <2>4. \A n \in 1 .. head' : Possible(chain'[n])
    <3> TAKE n \in 1 .. head'
    <3>1. head' = head + 1
      BY <2>2
    <3>2. CASE n \in 1 .. head
      <4>1. Possible(chain[n])
        BY <3>2 DEF AnswersInv
      <4> QED BY <2>3, <3>2, <4>1
    <3>3. CASE n = head + 1
      BY <2>2, <2>3, <3>3
    <3> QED BY <1>0, <3>1, <3>2, <3>3 DEF Blocks
  <2>5. \A r \in Requests : op.at[r] # 0 => Seen(r)' = Seen(r)
    <3>1. ASSUME NEW r \in Requests, op.at[r] # 0 PROVE Seen(r)' = Seen(r)
      <4>1. op.at[r] \in 1 .. head
        BY <1>0, <2>3, <3>1 DEF AnswersInv, OpType
      <4>2. chain'[op.at[r]] = chain[op.at[r]]
        BY <2>3, <4>1
      <4> QED BY <2>2, <4>2, Zenon DEF Seen
    <3> QED BY <3>1
  <2>6. Ended => Complete' /\ (Unusable' <=> Unusable)
    BY <2>2, <2>5, SameAnswers DEF AnswersInv
  <2>7. \A r \in Requests : op.at[r] <= head'
    BY <1>0, <2>2, <2>3 DEF AnswersInv, OpType
  <2> QED
    BY <2>2, <2>4, <2>6, <2>7 DEF AnswersInv, Ended
<1>6. CASE Done
  <2>1. /\ chain' = chain /\ head' = head /\ op' = Idle
    BY <1>6 DEF Done, head
  <2>2. /\ op'.method = "all" /\ op'.stage = "idle"
        /\ \A r \in Requests : op'.at[r] = 0
    BY <2>1 DEF Idle, Unread
  <2> QED
    BY <1>0, <2>1, <2>2 DEF AnswersInv, ByHotkey, Ended, Blocks
<1>7. CASE UNCHANGED vars
  <2>1. op' = op /\ chain' = chain /\ head' = head
    BY <1>7 DEF vars, head
  <2>2. \A r \in Requests : Seen(r)' = Seen(r)
    BY <2>1 DEF Seen
  <2>3. Ended => Complete' /\ (Unusable' <=> Unusable)
    BY <2>1, <2>2, SameAnswers DEF AnswersInv
  <2> QED BY <2>1, <2>3 DEF AnswersInv, Ended
<1> QED BY <1>1, <1>2, <1>3, <1>4, <1>5, <1>6, <1>7 DEF Next

\* A slot has one neuron, and a hotkey one slot.
LEMMA OneSlot ==
    ASSUME NEW s \in Snapshot, Possible(s), NEW h \in Hotkeys
    PROVE  /\ UidOf(s, h) = NoUid => {n \in Neurons(s) : n.hotkey = h} = {}
           /\ UidOf(s, h) # NoUid =>
                NeuronAt(s, UidOf(s, h)) = {n \in Neurons(s) : n.hotkey = h}
<1> USE SubnetReadsAssumption
<1>1. h # NoOne /\ NoUid \notin Uids
  BY DEF NoOne, NoUid
<1>2. \A n \in Neurons(s) : /\ n.uid \in Uids /\ s.owner[n.uid] = n.hotkey
                            /\ n = Neuron(s, n.uid)
  BY DEF Neurons, Neuron
<1>3. CASE \E u \in Uids : s.owner[u] = h
  <2>1. PICK u \in Uids : u = UidOf(s, h) /\ s.owner[u] = h
    BY <1>3 DEF UidOf
  <2>2. \A v \in Uids : s.owner[v] = h => v = u
    BY <1>1, <2>1 DEF Possible
  <2>3. \A n \in Neurons(s) : n.uid = u <=> n.hotkey = h
    BY <1>2, <2>1, <2>2
  <2> QED
    BY <1>1, <2>1, <2>3 DEF NeuronAt
<1>4. CASE ~ \E u \in Uids : s.owner[u] = h
  <2>1. UidOf(s, h) = NoUid
    BY <1>4 DEF UidOf
  <2> QED
    BY <1>2, <1>4, <2>1
<1> QED BY <1>3, <1>4

\* From one block the parts fit together.
LEMMA SnapshotsAreRight ==
    ASSUME ReadsInv, AnswersInv, Ended, NEW n \in Blocks, ReadAt(n)
    PROVE  \E k \in 1 .. head : RightAt(k)
<1> USE SubnetReadsAssumption
<1>1. /\ chain \in Seq(Snapshot) /\ head \in Blocks /\ op \in OpType
      /\ \A r \in Requests : op.at[r] # 0 => op.at[r] = n /\ n \in 1 .. head
  <2>1. chain \in Seq(Snapshot) /\ head \in Blocks /\ op \in OpType
    BY DEF ReadsInv, Types
  <2> QED BY <2>1 DEF AnswersInv, ReadAt, Blocks
<1>2. {"Uids", "get_neuron", "getKeys", "queryStorageAt"} \subseteq Requests
  BY DEF Requests
<1>3. Complete
  BY DEF AnswersInv
<1>4. CASE op.method \in ByHotkey
  <2>1. n \in 1 .. head /\ op.at["Uids"] = n
    BY <1>1, <1>2, <1>3, <1>4 DEF Complete
  <2>2. chain[n] \in Snapshot /\ Possible(chain[n]) /\ Seen("Uids") = chain[n]
    BY <1>1, <2>1 DEF AnswersInv, Seen, head
  <2>3. op.key \in Hotkeys
    BY <1>1, <1>4 DEF AnswersInv, OpType
  <2>4. NeuronFound = NeuronAnswer(chain[n])
    <3>1. CASE UidOf(chain[n], op.key) = NoUid
      <4>1. NeuronFound = {}
        BY <2>2, <3>1, Zenon DEF NeuronFound, Found
      <4>2. NeuronAnswer(chain[n]) = {}
        BY <2>2, <2>3, <3>1, OneSlot DEF NeuronAnswer
      <4> QED BY <4>1, <4>2
    <3>2. CASE UidOf(chain[n], op.key) # NoUid
      <4>1. Found(UidOf(Seen("Uids"), op.key))
        BY <2>2, <3>2, Zenon DEF Found
      <4>2. Seen("get_neuron") = chain[n]
        BY <1>1, <1>2, <1>3, <1>4, <4>1 DEF Complete, Seen
      <4>3. NeuronFound = NeuronAt(chain[n], UidOf(chain[n], op.key))
        BY <2>2, <4>1, <4>2, Zenon DEF NeuronFound
      <4>4. NeuronAnswer(chain[n]) = NeuronAt(chain[n], UidOf(chain[n], op.key))
        BY <2>2, <2>3, <3>2, OneSlot DEF NeuronAnswer
      <4> QED BY <4>3, <4>4
    <3> QED BY <3>1, <3>2
  <2>5. op.method \notin Maps
    BY <1>4, KindsOfMethods
  <2> QED
    BY <2>1, <2>4, <2>5 DEF RightAt
<1>5. CASE op.method \in Maps
  <2>1. n \in 1 .. head /\ op.at["getKeys"] = n /\ op.at["queryStorageAt"] = n
    BY <1>1, <1>2, <1>3, <1>5 DEF Complete
  <2>2. chain[n] \in Snapshot
    BY <1>1, <2>1 DEF head
  <2>3. Fetched = Values(chain[n], Keys(chain[n]))
    BY <2>1 DEF Fetched, Seen
  <2>4. Values(chain[n], Keys(chain[n])) = EntriesAnswer(chain[n])
    <3> DEFINE s == chain[n]
    <3>1. \A h \in Hotkeys : s.entry[h] \in {0} \cup Blocks
      BY <2>2 DEF Snapshot, Latest
    <3> HIDE DEF s
    <3>2. ASSUME NEW e \in Values(s, Keys(s)) PROVE e \in EntriesAnswer(s)
      BY <3>1, <3>2 DEF Values, Keys, EntriesAnswer
    <3>3. ASSUME NEW e \in EntriesAnswer(s) PROVE e \in Values(s, Keys(s))
      <4>1. /\ e \in [hotkey : Hotkeys, block : Blocks]
            /\ s.entry[e.hotkey] = e.block
        BY <3>3 DEF EntriesAnswer
      <4>2. e = [hotkey |-> e.hotkey, block |-> s.entry[e.hotkey]]
        BY <4>1
      <4>3. e.hotkey \in Keys(s)
        BY <4>1 DEF Keys, Blocks
      <4> QED BY <4>2, <4>3 DEF Values
    <3> QED BY <3>2, <3>3 DEF s
  <2>5. op.method \notin ByHotkey
    BY <1>5, KindsOfMethods
  <2> QED
    BY <2>1, <2>3, <2>4, <2>5 DEF RightAt
<1>6. CASE op.method \notin ByHotkey \cup Maps
  <2>1. 1 \in 1 .. head
    BY <1>1 DEF Blocks
  <2> QED BY <1>6, <2>1 DEF RightAt
<1> QED BY <1>4, <1>5, <1>6

LEMMA OnlyTorn ==
    ReadsInv /\ AnswersInv => OnlyTornReadsGoWrong
<1> SUFFICES ASSUME ReadsInv, AnswersInv, Ended,
                    \A n \in 1 .. head : ~ RightAt(n)
             PROVE  Unnamed /\ \A n \in Blocks : ~ ReadAt(n)
  BY DEF OnlyTornReadsGoWrong
<1>1. \A n \in Blocks : ~ ReadAt(n)
  BY SnapshotsAreRight
<1>2. op.arg \in 0 .. MaxHead /\ op.ctx \in 0 .. MaxHead
  BY DEF ReadsInv, Types, OpType
<1>3. ReadsAreSnapshots
  BY ReadsInvImplies
<1>4. op.arg = Latest
  BY <1>1, <1>2, <1>3, SubnetReadsAssumption DEF ReadsAreSnapshots, Blocks, Latest
<1>5. ~ Unnamed => op.ctx # Latest
  BY <1>4 DEF Unnamed
<1>6. Unnamed
  BY <1>1, <1>2, <1>3, <1>4, <1>5, SubnetReadsAssumption
  DEF ReadsAreSnapshots, Blocks, Latest
<1> QED BY <1>1, <1>6

\* Whatever the chain does between the two requests of get() or of fetch(), the
\* neuron is that of the hotkey and the map is that of a block, unless the
\* requests were made without a block and answered about two of them.
THEOREM TornCorrect == Spec => []OnlyTornReadsGoWrong
<1>1. Init => ReadsInv /\ AnswersInv
  BY InitReads, AnswersInit
<1>2. ReadsInv /\ AnswersInv /\ [Next]_vars => ReadsInv' /\ AnswersInv'
  BY NextReads, AnswersNext
<1> QED BY <1>1, <1>2, OnlyTorn, PTL DEF Spec

-----------------------------------------------------------------------------
(* Sorting                                                                 *)

Orders(R, E) ==
    /\ \A g \in E : <<g, g>> \notin R
    /\ \A f, g, h \in E : <<f, g>> \in R /\ <<g, h>> \in R => <<f, h>> \in R
    /\ \A g, h \in E : g = h \/ <<g, h>> \in R \/ <<h, g>> \in R

Ascending(s, R) == \A i, j \in DOMAIN s : i < j => <<s[i], s[j]>> \in R

After(h, R, E) == {g \in E : <<h, g>> \in R}

\* A finite set that is ordered can be sorted.
LEMMA SortedExists ==
    ASSUME NEW E, IsFiniteSet(E), NEW R, Orders(R, E)
    PROVE  \E s \in [1 .. Cardinality(E) -> E] : Ascending(s, R)
<1>1. PICK k \in Nat : k = Cardinality(E)
  BY FS_CardinalityType
<1>2. ASSUME NEW h \in E
      PROVE  /\ IsFiniteSet(After(h, R, E)) /\ Cardinality(After(h, R, E)) \in 0 .. k - 1
  <2>1. After(h, R, E) \in SUBSET (E \ {h})
    BY DEF After, Orders
  <2>2. IsFiniteSet(E \ {h}) /\ Cardinality(E \ {h}) = k - 1
    BY <1>1, FS_RemoveElement
  <2>3. IsFiniteSet(After(h, R, E)) /\ Cardinality(After(h, R, E)) <= k - 1
    BY <2>1, <2>2, FS_Subset
  <2> QED BY <2>3, FS_CardinalityType
<1> DEFINE f == [h \in E |-> k - Cardinality(After(h, R, E))]
<1>3. f \in [E -> 1 .. k]
  BY <1>2
<1>4. ASSUME NEW g \in E, NEW h \in E, <<g, h>> \in R PROVE f[g] < f[h]
  <2>1. After(h, R, E) \cup {h} \in SUBSET After(g, R, E) /\ h \notin After(h, R, E)
    BY <1>4 DEF After, Orders
  <2>2. /\ IsFiniteSet(After(h, R, E) \cup {h})
        /\ Cardinality(After(h, R, E) \cup {h}) = Cardinality(After(h, R, E)) + 1
    BY <1>2, <2>1, FS_AddElement
  <2>3. Cardinality(After(h, R, E)) + 1 <= Cardinality(After(g, R, E))
    BY <1>2, <2>1, <2>2, FS_Subset
  <2> QED BY <1>2, <2>3
<1> HIDE DEF f
<1>5. f \in Injection(E, 1 .. k)
  <2>1. \A g, h \in E : f[g] = f[h] => g = h
    <3>1. SUFFICES ASSUME NEW g \in E, NEW h \in E, f[g] = f[h], g # h PROVE FALSE
      OBVIOUS
    <3>2. f[g] < f[h] \/ f[h] < f[g]
      BY <1>4, <3>1 DEF Orders
    <3>3. f[g] \in Int
      BY <1>3
    <3> QED BY <3>1, <3>2, <3>3
  <2> QED BY <1>3, <2>1 DEF Injection, IsInjective
<1>6. f \in Surjection(E, 1 .. k)
  <2>1. IsFiniteSet(1 .. k) /\ Cardinality(1 .. k) = k
    <3>1. IsFiniteSet(1 .. k) /\ Cardinality(1 .. k) = IF 1 > k THEN 0 ELSE k - 1 + 1
      BY FS_Interval
    <3> QED BY <3>1
  <2> QED BY <1>1, <1>5, <2>1, FS_Injection
<1> DEFINE s == [i \in 1 .. k |-> CHOOSE h \in E : f[h] = i]
<1>7. \A i \in 1 .. k : s[i] \in E /\ f[s[i]] = i
  BY <1>6 DEF Surjection
<1>8. s \in [1 .. k -> E] /\ DOMAIN s = 1 .. k
  BY <1>7
<1> HIDE DEF s
<1>9. ASSUME NEW i \in 1 .. k, NEW j \in 1 .. k, i < j PROVE <<s[i], s[j]>> \in R
  <2>1. s[i] # s[j]
    BY <1>7, <1>9
  <2>2. <<s[j], s[i]>> \notin R
    <3>1. SUFFICES ASSUME <<s[j], s[i]>> \in R PROVE FALSE
      OBVIOUS
    <3>2. f[s[j]] < f[s[i]]
      BY <1>4, <1>7, <3>1
    <3> QED BY <1>7, <1>9, <3>2
  <2> QED BY <1>7, <2>1, <2>2 DEF Orders
<1> QED BY <1>1, <1>8, <1>9 DEF Ascending

\* Sorted, a set is all there, and as many are after an element as in the set.
LEMMA SortedRank ==
    ASSUME NEW E, IsFiniteSet(E), NEW R, Orders(R, E),
           NEW s \in [1 .. Cardinality(E) -> E], Ascending(s, R)
    PROVE  /\ \A h \in E : \E i \in 1 .. Cardinality(E) : s[i] = h
           /\ \A i \in 1 .. Cardinality(E) :
                Cardinality(After(s[i], R, E)) = Cardinality(E) - i
<1>1. PICK k \in Nat : k = Cardinality(E)
  BY FS_CardinalityType
<1>2. s \in [1 .. k -> E] /\ DOMAIN s = 1 .. k
  BY <1>1
<1>3. ASSUME NEW i \in 1 .. k, NEW j \in 1 .. k
      PROVE  <<s[i], s[j]>> \in R <=> i < j
  <2>1. i < j => <<s[i], s[j]>> \in R
    BY <1>2 DEF Ascending
  <2>2. j < i => <<s[j], s[i]>> \in R
    BY <1>2 DEF Ascending
  <2>3. s[i] \in E /\ s[j] \in E
    BY <1>2
  <2>4. i = j => <<s[i], s[j]>> \notin R
    BY <2>3 DEF Orders
  <2>5. j < i => <<s[i], s[j]>> \notin R
    BY <2>2, <2>3 DEF Orders
  <2> QED BY <2>1, <2>4, <2>5
<1>4. s \in Injection(1 .. k, E)
  <2>1. \A i, j \in 1 .. k : s[i] = s[j] => i = j
    <3>1. ASSUME NEW i \in 1 .. k, NEW j \in 1 .. k, s[i] = s[j] PROVE i = j
      <4>1. s[i] \in E /\ <<s[i], s[i]>> \notin R
        BY <1>2 DEF Orders
      <4>2. ~ (i < j) /\ ~ (j < i)
        BY <1>3, <3>1, <4>1
      <4> QED BY <4>2
    <3> QED BY <3>1
  <2> QED BY <1>2, <2>1 DEF Injection, IsInjective
<1>5. s \in Surjection(1 .. k, E)
  <2>1. IsFiniteSet(1 .. k) /\ Cardinality(1 .. k) = k
    <3>1. IsFiniteSet(1 .. k) /\ Cardinality(1 .. k) = IF 1 > k THEN 0 ELSE k - 1 + 1
      BY FS_Interval
    <3> QED BY <3>1
  <2> QED BY <1>1, <1>4, <2>1, FS_Injection
<1>6. \A h \in E : \E i \in 1 .. k : s[i] = h
  BY <1>5 DEF Surjection
<1>7. ASSUME NEW i \in 1 .. k PROVE Cardinality(After(s[i], R, E)) = k - i
  <2> DEFINE A == After(s[i], R, E)
             I == i + 1 .. k
             f == [j \in I |-> s[j]]
  <2>1. \A j \in I : j \in 1 .. k /\ i < j
    OBVIOUS
  <2>2. f \in [I -> A]
    BY <1>2, <1>3, <2>1 DEF After
  <2>3. \A j, m \in I : f[j] = f[m] => j = m
    BY <1>4, <2>1 DEF Injection, IsInjective
  <2>4. \A g \in A : \E j \in I : f[j] = g
    <3>1. ASSUME NEW g \in A PROVE \E j \in I : f[j] = g
      <4>1. g \in E /\ <<s[i], g>> \in R
        BY DEF After
      <4>2. PICK j \in 1 .. k : s[j] = g
        BY <1>6, <4>1
      <4>3. i < j
        BY <1>3, <4>1, <4>2
      <4> QED BY <4>2, <4>3
    <3> QED BY <3>1
  <2> HIDE DEF f
  <2>5. f \in Bijection(I, A)
    BY <2>2, <2>3, <2>4 DEF Bijection, Injection, Surjection, IsInjective
  <2>6. IsFiniteSet(I) /\ Cardinality(I) = k - i
    <3>1. IsFiniteSet(I) /\ Cardinality(I) = IF i + 1 > k THEN 0 ELSE k - (i + 1) + 1
      BY FS_Interval
    <3> QED BY <3>1
  <2> QED BY <2>5, <2>6, FS_Bijection DEF ExistsBijection
<1> QED BY <1>1, <1>6, <1>7

-----------------------------------------------------------------------------
(* The validators                                                          *)

\* A slot's neuron, and a hotkey's.
LEMMA NeuronsOf ==
    ASSUME NEW s \in Snapshot, Possible(s)
    PROVE  /\ \A n \in Neurons(s) : n.hotkey \in Hotkeys /\ n.uid \in Uids
                                    /\ s.owner[n.uid] = n.hotkey
           /\ \A m, n \in Neurons(s) : m.hotkey = n.hotkey => m = n
           /\ ~ s.exists => Neurons(s) = {}
<1> USE SubnetReadsAssumption
<1>1. \A n \in Neurons(s) : /\ n.uid \in Uids /\ s.owner[n.uid] = n.hotkey
                            /\ n = Neuron(s, n.uid) /\ n.hotkey # NoOne
  BY DEF Neurons, Neuron
<1>2. \A n \in Neurons(s) : n.hotkey \in Hotkeys
  BY <1>1 DEF Snapshot
<1>3. ASSUME NEW m \in Neurons(s), NEW n \in Neurons(s), m.hotkey = n.hotkey
      PROVE  m = n
  <2>1. \A u, v \in Uids : s.owner[u] = s.owner[v] /\ s.owner[u] # NoOne => u = v
    BY DEF Possible
  <2>2. m.uid \in Uids /\ n.uid \in Uids
    BY <1>1
  <2>3. s.owner[m.uid] = m.hotkey /\ s.owner[n.uid] = n.hotkey /\ m.hotkey # NoOne
    BY <1>1
  <2>4. m.uid = n.uid
    BY <1>3, <2>1, <2>2, <2>3
  <2>5. m = Neuron(s, m.uid) /\ n = Neuron(s, n.uid)
    BY <1>1
  <2> QED BY <2>4, <2>5
<1>4. ~ s.exists => Neurons(s) = {}
  BY <1>1 DEF Possible
<1> QED BY <1>1, <1>2, <1>3, <1>4

\* Everything validators() has read is of one block.
LEMMA ValidatorsRead ==
    ASSUME ReadsInv, AnswersInv, Ended, op.method = "validators"
    PROVE  \E s \in Snapshot :
             /\ Possible(s)
             /\ chain[op.at["get_neurons_lite"]] = s
             /\ Seen("get_neurons_lite") = s /\ Seen("get_subnet_state") = s
             /\ Seen("get_subnet_hyperparams") = s /\ Seen("StakeThreshold") = s
<1>1. /\ chain \in Seq(Snapshot) /\ op \in OpType
  BY DEF ReadsInv, Types
<1>2. PICK n \in Blocks : ReadAt(n)
  BY ReadsInvImplies DEF ReadsAreSnapshots
<1>3. {"get_neurons_lite", "get_subnet_state", "get_subnet_hyperparams",
       "StakeThreshold"} \subseteq Requests
  BY DEF Requests
<1>4. /\ op.at["get_neurons_lite"] = n /\ op.at["get_subnet_state"] = n
      /\ op.at["get_subnet_hyperparams"] = n /\ op.at["StakeThreshold"] = n
  BY <1>2, <1>3 DEF ReadAt, AnswersInv, Complete
<1>5. n \in 1 .. head
  BY <1>3, <1>4, SubnetReadsAssumption DEF AnswersInv, Blocks
<1>6. chain[n] \in Snapshot /\ Possible(chain[n])
  BY <1>1, <1>5 DEF AnswersInv, head
<1> QED BY <1>4, <1>6 DEF Seen

\* validators() is who has the most stake of those with enough.
LEMMA Top == ReadsInv /\ AnswersInv => ValidatorsAreTheTop
<1> SUFFICES ASSUME ReadsInv, AnswersInv, Ended, op.method = "validators"
             PROVE  ValidatorsAreTheTop
  BY Zenon DEF ValidatorsAreTheTop
<1> USE SubnetReadsAssumption
<1>1. PICK s \in Snapshot :
        /\ Possible(s)
        /\ chain[op.at["get_neurons_lite"]] = s
        /\ Seen("get_neurons_lite") = s /\ Seen("get_subnet_state") = s
        /\ Seen("get_subnet_hyperparams") = s /\ Seen("StakeThreshold") = s
  BY ValidatorsRead
<1>2. /\ \A h \in Hotkeys : s.stake[h] \in Nat
      /\ s.threshold \in Int /\ s.max \in Nat
  <2>1. Cardinality(Uids) \in Nat
    BY FS_CardinalityType
  <2> QED BY <2>1 DEF Snapshot, Unset
<1> DEFINE E == Eligible
           R == {p \in E \X E : Before(p[1], p[2])}
           t == Sorted(E)
           Enough == {n \in Neurons(s) : s.stake[n.hotkey] >= s.threshold}
           Above(n) == {m \in Enough : \/ s.stake[m.hotkey] > s.stake[n.hotkey]
                                       \/ /\ s.stake[m.hotkey] = s.stake[n.hotkey]
                                          /\ m.hotkey > n.hotkey}
<1>3. \A h : h \in E <=> /\ \E n \in Neurons(s) : n.hotkey = h
                         /\ s.stake[h] >= s.threshold
  <2>1. E = {h \in State(s).hotkeys : State(s).total_stake[h] >= s.threshold}
    BY <1>1, Zenon DEF Eligible
  <2>2. State(s).hotkeys = {n.hotkey : n \in Neurons(s)} /\ State(s).total_stake = s.stake
    BY DEF State
  <2> HIDE DEF E
  <2> QED BY <2>1, <2>2
<1>4. E \subseteq Hotkeys
  BY <1>1, <1>3, NeuronsOf
<1>5. \A g, h \in E : Before(g, h) <=> \/ s.stake[g] < s.stake[h]
                                       \/ s.stake[g] = s.stake[h] /\ g < h
  <2>1. State(Seen("get_subnet_state")).total_stake = s.stake
    BY <1>1 DEF State
  <2> QED BY <2>1, Zenon DEF Before
<1>6. \A g, h \in E : <<g, h>> \in R <=> Before(g, h)
  <2> HIDE DEF E
  <2> QED OBVIOUS
<1>7. IsFiniteSet(E)
  <2> DEFINE f == [h \in E |-> CHOOSE u \in Uids : s.owner[u] = h]
  <2>1. ASSUME NEW h \in E PROVE \E u \in Uids : s.owner[u] = h
    <3>1. PICK n \in Neurons(s) : n.hotkey = h
      BY <1>3
    <3>2. n.uid \in Uids /\ s.owner[n.uid] = n.hotkey
      BY <1>1, NeuronsOf
    <3> QED BY <3>1, <3>2
  <2> HIDE DEF E
  <2>2. \A h \in E : f[h] \in Uids /\ s.owner[f[h]] = h
    BY <2>1
  <2>3. f \in [E -> Uids]
    BY <2>2
  <2> HIDE DEF f
  <2>4. f \in Injection(E, Uids)
    BY <2>2, <2>3 DEF Injection, IsInjective
  <2> QED BY <2>4, FS_Injection
<1> HIDE DEF E
<1>8. Orders(R, E)
  <2>1. \A h \in E : h \in Nat /\ s.stake[h] \in Nat
    BY <1>2, <1>4
  <2> HIDE DEF R
  <2> QED BY <1>5, <1>6, <2>1 DEF Orders
<1>9. t \in [1 .. Cardinality(E) -> E] /\ Ascending(t, R)
  <2>1. \A q \in [1 .. Cardinality(E) -> E] :
          Ascending(q, R) <=> \A i, j \in DOMAIN q : i < j => Before(q[i], q[j])
    <3> HIDE DEF R
    <3> QED BY <1>6 DEF Ascending
  <2>2. PICK q \in [1 .. Cardinality(E) -> E] : Ascending(q, R)
    <3> HIDE DEF R
    <3> QED BY <1>7, <1>8, SortedExists
  <2>3. t \in [1 .. Cardinality(E) -> E]
        /\ \A i, j \in DOMAIN t : i < j => Before(t[i], t[j])
    <3> HIDE DEF R
    <3> QED BY <2>1, <2>2, Zenon DEF Sorted
  <2> HIDE DEF R, t
  <2> QED BY <2>1, <2>3
<1> HIDE DEF t, R
<1>10. PICK k \in Nat : k = Cardinality(E)
  BY <1>7, FS_CardinalityType
<1>11. /\ \A h \in E : \E i \in 1 .. k : t[i] = h
       /\ \A i \in 1 .. k : Cardinality(After(t[i], R, E)) = k - i
  <2>1. /\ \A h \in E : \E i \in 1 .. Cardinality(E) : t[i] = h
        /\ \A i \in 1 .. Cardinality(E) :
             Cardinality(After(t[i], R, E)) = Cardinality(E) - i
    BY <1>7, <1>8, <1>9, SortedRank
  <2> QED BY <1>10, <2>1
<1>12. \A h : h \in FromEnd(t, s.max) <=>
         h \in E /\ (s.max = 0 \/ Cardinality(After(h, R, E)) < s.max)
  <2>1. t \in [1 .. k -> E] /\ DOMAIN t = 1 .. k /\ t \in Seq(E) /\ Len(t) = k
    <3>1. t \in [1 .. k -> E]
      BY <1>9, <1>10
    <3> QED BY <3>1
  <2>2. \A i \in 1 .. k : i > k - s.max <=> k - i < s.max
    BY <1>2
  <2>3. FromEnd(t, s.max) = {t[i] : i \in {j \in 1 .. k : s.max = 0 \/ j > k - s.max}}
    BY <2>1 DEF FromEnd
  <2>4. \A i \in 1 .. k : t[i] \in E
    BY <2>1
  <2>5. ASSUME NEW h \in FromEnd(t, s.max)
        PROVE  h \in E /\ (s.max = 0 \/ Cardinality(After(h, R, E)) < s.max)
    <3>1. PICK i \in 1 .. k : (s.max = 0 \/ i > k - s.max) /\ h = t[i]
      BY <2>3, <2>5
    <3> QED BY <1>11, <2>2, <2>4, <3>1
  <2>6. ASSUME NEW h \in E, s.max = 0 \/ Cardinality(After(h, R, E)) < s.max
        PROVE  h \in FromEnd(t, s.max)
    <3>1. PICK i \in 1 .. k : t[i] = h
      BY <1>11
    <3>2. s.max = 0 \/ i > k - s.max
      BY <1>11, <2>2, <2>6, <3>1
    <3> QED BY <2>3, <3>1, <3>2
  <2> QED BY <2>5, <2>6
<1>13. \A n \in Neurons(s) : n \in Enough <=> n.hotkey \in E
  BY <1>3
<1>14. ASSUME NEW n \in Enough
       PROVE  Cardinality(Above(n)) = Cardinality(After(n.hotkey, R, E))
  <2> DEFINE A == After(n.hotkey, R, E)
             f == [g \in A |-> CHOOSE m \in Neurons(s) : m.hotkey = g]
  <2>1. n \in Neurons(s) /\ n.hotkey \in E /\ n.hotkey \in Hotkeys
    BY <1>4, <1>13
  <2>2. A \in SUBSET E
    BY DEF After
  <2>3. \A g \in A : g \in E /\ \E m \in Neurons(s) : m.hotkey = g
    BY <1>3, <2>2
  <2> HIDE DEF A
  <2>4. \A g \in A : f[g] \in Neurons(s) /\ f[g].hotkey = g
    BY <2>3
  <2>5. DOMAIN f = A /\ f = [g \in A |-> f[g]]
    OBVIOUS
  <2> HIDE DEF f
  <2>6. \A m \in Enough : m \in Above(n) <=> m.hotkey \in A
    <3>1. ASSUME NEW m \in Enough PROVE m \in Above(n) <=> m.hotkey \in A
      <4>1. m.hotkey \in E /\ m.hotkey \in Hotkeys
        BY <1>4, <1>13
      <4>2. m.hotkey \in A <=> Before(n.hotkey, m.hotkey)
        BY <1>6, <2>1, <4>1 DEF A, After
      <4>3. /\ s.stake[n.hotkey] \in Nat /\ s.stake[m.hotkey] \in Nat
            /\ n.hotkey \in Nat /\ m.hotkey \in Nat
        BY <1>2, <2>1, <4>1
      <4> QED BY <1>5, <2>1, <4>1, <4>2, <4>3
    <3> QED BY <3>1
  <2>7. \A g \in A : f[g] \in Above(n)
    <3>1. \A g \in A : f[g] \in Enough
      BY <1>13, <2>3, <2>4
    <3> QED BY <2>4, <2>6, <3>1
  <2>8. f \in [A -> Above(n)]
    BY <2>5, <2>7
  <2>9. \A g, h \in A : f[g] = f[h] => g = h
    BY <2>4
  <2>10. \A m \in Above(n) : \E g \in A : f[g] = m
    <3>1. ASSUME NEW m \in Above(n) PROVE \E g \in A : f[g] = m
      <4>1. m \in Enough /\ m \in Neurons(s)
        OBVIOUS
      <4>2. m.hotkey \in A
        BY <2>6, <4>1
      <4>3. f[m.hotkey] = m
        BY <1>1, <2>4, <4>1, <4>2, NeuronsOf
      <4> QED BY <4>2, <4>3
    <3> QED BY <3>1
  <2> HIDE DEF Above
  <2>11. f \in Bijection(A, Above(n))
    BY <2>8, <2>9, <2>10 DEF Bijection, Injection, Surjection, IsInjective
  <2>12. IsFiniteSet(A)
    BY <1>7, <2>2, FS_Subset
  <2>13. Cardinality(Above(n)) = Cardinality(A)
    BY <2>11, <2>12, FS_Bijection DEF ExistsBijection
  <2> QED BY <2>13 DEF A
<1>15. Validators = {n \in Neurons(s) : n.hotkey \in FromEnd(t, s.max)}
  BY <1>1, Zenon DEF Validators, t, E
<1>16. Validators = {n \in Enough : s.max = 0 \/ Cardinality(Above(n)) < s.max}
  <2> HIDE DEF Above, Enough
  <2>1. Enough \subseteq Neurons(s)
    BY DEF Enough
  <2> QED BY <1>12, <1>13, <1>14, <1>15, <2>1
<1>17. Enough = {} <=> E = {}
  BY <1>3, <1>13
<1>18. op.stage = "raised" <=> s.threshold = Unset \/ Enough = {}
  <2>1. ~ s.exists => Enough = {}
    BY <1>1, NeuronsOf
  <2>2. Unusable <=> ~ s.exists \/ s.threshold = Unset \/ E = {}
    <3>1. op.method \notin Maps /\ op.method # "commit"
      BY KindsOfMethods
    <3> QED BY <1>1, <3>1, Zenon DEF Unusable, E
  <2> QED BY <1>17, <2>1, <2>2 DEF AnswersInv
<1>19. op.stage \in {"returned", "raised"}
  BY DEF Ended
<1> HIDE DEF Enough
<1> QED BY <1>1, <1>16, <1>18, <1>19 DEF ValidatorsAreTheTop, Enough

\* validators() are, in the block it is about, the max_validators with the most
\* stake of those with enough of it, and it raises exactly when nobody has or
\* there is no threshold.
THEOREM TopCorrect == Spec => []ValidatorsAreTheTop
<1>1. Init => ReadsInv /\ AnswersInv
  BY InitReads, AnswersInit
<1>2. ReadsInv /\ AnswersInv /\ [Next]_vars => ReadsInv' /\ AnswersInv'
  BY NextReads, AnswersNext
<1> QED BY <1>1, <1>2, Top, PTL DEF Spec

=============================================================================
