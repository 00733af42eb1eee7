-------------------------- MODULE ExtrinsicsProofs --------------------------
(***************************************************************************)
(* Proofs about Extrinsics, for any number of extrinsics, any chain and    *)
(* any period of the eras.                                                 *)
(***************************************************************************)
EXTENDS Extrinsics, FiniteSetTheorems, SequenceTheorems, WellFoundedInduction,
        TLAPS

Statuses == {"other", "inBlock", "finalized", "error"}

\* The extrinsics in the first b blocks, and what the chain's nonce was there.
Upto(b) == {t \in Txs : block[t] \in 1 .. b}

\* Whether the node has told of an extrinsic's finalized block.
ToldFinal(t) == \E i \in 1 .. Len(queue[t]) : queue[t][i] = "finalized"

\* Blocks and what is in them.
ChainInv ==
    \A t \in Txs :
        /\ fate[t] \in {"included", "final"} <=> block[t] \in 1 .. head
        /\ fate[t] = "included" => block[t] > final
        /\ fate[t] = "final" => block[t] <= final
        /\ block[t] <= head

\* What a task knows of its extrinsic is so, and stays so.
KnownInv ==
    \A t \in Txs :
        /\ task[t].stage \in {"idle", "header", "sent"} => fate[t] = "unknown"
        /\ ToldFinal(t) \/ task[t].stage = "reading" => fate[t] = "final"
        /\ task[t].stage \in {"ok", "failed"} =>
             fate[t] = "final" /\ outcome[t] = task[t].stage

\* The block whose hash is signed: the genesis block without an era.
FirstBlock(t) == IF task[t].mortal THEN task[t].start ELSE 0

\* What was signed: a nonce, and a hash that the block the era starts at has or
\* has had.
SignedInv ==
    \A t \in Txs :
        /\ task[t].start <= head
        /\ task[t].stage \notin {"idle", "header"} =>
             /\ task[t].nonce \in Nat
             /\ task[t].birth.number = FirstBlock(t)
             /\ task[t].birth.version <= version[FirstBlock(t)]

\* The first block is never replaced, and no other more often than there were
\* reorganisations.
VersionInv ==
    /\ version[0] = 0
    /\ \A n \in 0 .. MaxHead : version[n] <= reorgs

\* Finitely many extrinsics have come to the node, and those of the first blocks
\* have the first nonces, whatever is retracted.
NonceInv ==
    /\ IsFiniteSet(Pending)
    /\ IsFiniteSet(Included)
    /\ \A b \in 0 .. head : \A t \in Upto(b) : task[t].nonce < Cardinality(Upto(b))

IInv == TypeOK /\ ChainInv /\ KnownInv /\ SignedInv /\ VersionInv /\ NonceInv

-----------------------------------------------------------------------------
(* Eras                                                                    *)

\* An era that is signed at a block starts at that block until it ends.
LEMMA BirthIsStart ==
    ASSUME NEW s \in Nat, NEW h \in Nat, s <= h, h < s + Period
    PROVE  Birth(s % Period, h) = s
<1>1. Period \in Nat \ {0}
  BY ExtrinsicsAssumption
<1> DEFINE phase == s % Period
           q == s \div Period
<1>2. phase \in 0 .. Period - 1 /\ q \in Nat /\ s = Period * q + phase
  BY <1>1
<1>3. phase <= s /\ phase <= h
  <2>1. Period * q \in Nat
    BY <1>1, <1>2
  <2> QED
    BY <2>1, <1>1, <1>2
<1> HIDE DEF phase, q
<1>4. h - phase = Period * q + (h - s) /\ h - s \in 0 .. Period - 1
  <2>1. Period * q \in Nat
    BY <1>1, <1>2
  <2> QED
    BY <2>1, <1>1, <1>2
<1>5. (h - phase) \div Period = q
  BY <1>1, <1>2, <1>4
<1>6. q * Period + phase = s
  BY <1>1, <1>2
<1>7. Birth(phase, h) = ((h - phase) \div Period) * Period + phase
  BY <1>1, <1>2, <1>3 DEF Birth
<1> QED
  BY <1>5, <1>6, <1>7 DEF phase

-----------------------------------------------------------------------------
(* Nonces                                                                  *)

LEMMA LeastNatural ==
    ASSUME NEW S, S \subseteq Nat, S # {}
    PROVE  \E x \in S : \A y \in S : x <= y
<1> DEFINE R == OpToRel(<, Nat)
<1>1. IsWellFoundedOn(R, Nat)
  BY NatLessThanWellFounded
<1>2. \A x, y \in Nat : y < x => <<y, x>> \in R
  BY DEF OpToRel
<1> HIDE DEF R
<1>3. PICK x \in S : \A y \in S : ~ (<<y, x>> \in R)
  BY <1>1, WFMin
<1>4. \A y \in S : ~ (y < x)
  BY <1>2, <1>3
<1> QED
  BY <1>4

\* system_accountNextIndex finds a nonce: those of the pool are too few to take
\* all that it looks at.
LEMMA NextIndexIsFree ==
    ASSUME IsFiniteSet(Pending), IsFiniteSet(Included)
    PROVE  /\ NextIndex \in Nat
           /\ NextIndex >= ChainNonce
           /\ \A t \in Pending : task[t].nonce # NextIndex
<1> DEFINE c == ChainNonce
           p == Cardinality(Pending)
           taken == [n \in c .. c + p |-> CHOOSE t \in Pending : task[t].nonce = n]
           free == {n \in c .. c + p : ~ \E t \in Pending : task[t].nonce = n}
<1>1. c \in Nat /\ p \in Nat
  BY FS_CardinalityType DEF ChainNonce
<1> HIDE DEF c, p
<1>2. free # {}
  <2> SUFFICES ASSUME free = {} PROVE FALSE
    OBVIOUS
  <2>1. \A n \in c .. c + p : taken[n] \in Pending /\ task[taken[n]].nonce = n
    OBVIOUS
  <2>2. IsFiniteSet(c .. c + p) /\ Cardinality(c .. c + p) = p + 1
    <3>1. c \in Int /\ c + p \in Int /\ ~ (c > c + p) /\ (c + p) - c + 1 = p + 1
      BY <1>1
    <3> QED
      BY <3>1, FS_Interval
  <2>3. taken \in [c .. c + p -> Pending]
    BY <2>1
  <2> HIDE DEF taken
  <2>4. PICK x, y \in c .. c + p : x # y /\ taken[x] = taken[y]
    <3> DEFINE S == c .. c + p
               T == Pending
    <3>1. IsFiniteSet(S) /\ IsFiniteSet(T) /\ Cardinality(T) < Cardinality(S)
      BY <1>1, <2>2 DEF p
    <3>2. taken \in [S -> T]
      BY <2>3
    <3> SUFFICES \E x, y \in S : x # y /\ taken[x] = taken[y]
      OBVIOUS
    <3> HIDE DEF S, T
    <3> QED
      BY <3>1, <3>2, FS_PigeonHole
  <2> QED
    BY <2>1, <2>4
<1>3. PICK n \in free : \A m \in free : n <= m
  <2>1. free \subseteq Nat
    BY <1>1
  <2> QED
    BY <1>2, <2>1, LeastNatural
<1>4. \A m \in c .. n - 1 : \E t \in Pending : task[t].nonce = m
  <2> SUFFICES ASSUME NEW m \in c .. n - 1 PROVE m \notin free /\ m \in c .. c + p
    OBVIOUS
  <2> QED
    BY <1>1, <1>3
<1>5. \E i \in c .. c + p :
        /\ \A m \in c .. i - 1 : \E t \in Pending : task[t].nonce = m
        /\ ~ \E t \in Pending : task[t].nonce = i
  BY <1>3, <1>4
<1>6. NextIndex \in c .. c + p /\ ~ \E t \in Pending : task[t].nonce = NextIndex
  BY <1>5 DEF NextIndex, c, p
<1> QED
  BY <1>1, <1>6 DEF c

-----------------------------------------------------------------------------
(* What the steps have in common                                           *)

LEMMA InitEstablishes == Init => IInv
<1> SUFFICES ASSUME Init PROVE IInv
  OBVIOUS
<1>1. TypeOK
  BY ExtrinsicsAssumption, EmptySeq DEF Init, TypeOK, Stages, BlockHash
<1>2. KnownInv /\ ChainInv /\ SignedInv /\ VersionInv
  BY ExtrinsicsAssumption DEF Init, ChainInv, KnownInv, SignedInv, VersionInv, ToldFinal
<1>3. Pending = {} /\ Included = {} /\ \A b \in 0 .. head : Upto(b) = {}
  BY DEF Init, Pending, Included, Upto
<1> QED
  BY <1>1, <1>2, <1>3, FS_EmptySet DEF IInv, NonceInv

\* A status is added to the end of some queues.
LEMMA AppendSays ==
    ASSUME TypeOK, NEW txs, NEW status \in Statuses,
           queue' = [t \in Txs |-> IF t \in txs THEN Append(queue[t], status)
                                  ELSE queue[t]]
    PROVE  /\ queue' \in [Txs -> Seq(Statuses)]
           /\ \A t \in Txs : ToldFinal(t)' =>
                ToldFinal(t) \/ (status = "finalized" /\ t \in txs)
<1>1. queue \in [Txs -> Seq(Statuses)]
  BY DEF TypeOK, Statuses
<1>2. ASSUME NEW t \in Txs
      PROVE  /\ queue'[t] \in Seq(Statuses)
             /\ ToldFinal(t)' => ToldFinal(t) \/ (status = "finalized" /\ t \in txs)
  <2>1. CASE t \in txs
    <3>1. queue'[t] = Append(queue[t], status) /\ queue[t] \in Seq(Statuses)
      BY <1>1, <2>1
    <3>2. /\ Append(queue[t], status) \in Seq(Statuses)
          /\ Len(Append(queue[t], status)) = Len(queue[t]) + 1
          /\ \A i \in 1 .. Len(queue[t]) : Append(queue[t], status)[i] = queue[t][i]
          /\ Append(queue[t], status)[Len(queue[t]) + 1] = status
      BY <3>1, AppendProperties
    <3>3. Len(queue[t]) \in Nat
      BY <3>1
    <3>4. ASSUME ToldFinal(t)' PROVE ToldFinal(t) \/ status = "finalized"
      <4>1. PICK i \in 1 .. Len(queue[t]) + 1 : queue'[t][i] = "finalized"
        BY <3>1, <3>2, <3>4 DEF ToldFinal
      <4>2. i \in 1 .. Len(queue[t]) \/ i = Len(queue[t]) + 1
        BY <3>3
      <4> QED
        BY <3>1, <3>2, <4>1, <4>2 DEF ToldFinal
    <3> QED
      BY <2>1, <3>1, <3>2, <3>4
  <2>2. CASE t \notin txs
    BY <1>1, <2>2 DEF ToldFinal
  <2> QED
    BY <2>1, <2>2
<1>3. queue' = [t \in Txs |-> queue'[t]]
  OBVIOUS
<1> QED
  BY <1>2, <1>3

\* What the node tells is added for those with a subscription.
LEMMA TellSays ==
    ASSUME TypeOK, NEW txs, NEW status \in Statuses, Tell(txs, status)
    PROVE  /\ queue' \in [Txs -> Seq(Statuses)]
           /\ \A t \in Txs : ToldFinal(t)' =>
                ToldFinal(t) \/ (status = "finalized" /\ t \in txs)
<1> DEFINE heard == {t \in Txs : t \in txs /\ watch[t] = "live"}
<1>1. queue' = [t \in Txs |-> IF t \in heard THEN Append(queue[t], status) ELSE queue[t]]
  BY DEF Tell
<1>2. \A t \in heard : t \in txs
  OBVIOUS
<1> HIDE DEF heard
<1> QED
  BY <1>1, <1>2, AppendSays

LEMMA TypeOKNext ==
    ASSUME TypeOK,
           task' \in [Txs -> [stage : Stages, given : Nonces \cup {None},
                              mortal : Mortal, start : 0 .. MaxHead,
                              nonce : Nat \cup {None}, birth : BlockHash]],
           watch' \in [Txs -> {"none", "live", "cut", "gone"}],
           unwatching' \subseteq Txs,
           queue' \in [Txs -> Seq(Statuses)],
           UNCHANGED nodeVars
    PROVE  TypeOK'
BY DEF TypeOK, Statuses, nodeVars

\* What is in blocks, as long as no block and no nonce in one changes.
LEMMA FrameKeepsNonces ==
    ASSUME IInv, IsFiniteSet(Pending'), UNCHANGED <<head, block>>,
           \A t \in Txs : fate'[t] \in {"included", "final"}
                            <=> fate[t] \in {"included", "final"},
           \A t \in Txs : fate[t] # "unknown" => task'[t].nonce = task[t].nonce
    PROVE  NonceInv'
<1>1. Included' = Included /\ \A b \in 0 .. head : Upto(b)' = Upto(b)
  BY DEF Included, Upto
<1>2. ASSUME NEW b \in 0 .. head, NEW t \in Upto(b) PROVE task'[t].nonce = task[t].nonce
  <2>1. t \in Txs /\ block[t] \in 1 .. head
    BY DEF Upto, IInv, TypeOK
  <2> QED
    BY <2>1 DEF IInv, ChainInv
<1> QED
  BY <1>1, <1>2 DEF NonceInv, IInv

\* The extrinsics that have come to the node keep their nonces.
LEMMA ClientKeepsNonces ==
    ASSUME IInv, UNCHANGED nodeVars,
           \A t \in Txs : fate[t] # "unknown" => task'[t].nonce = task[t].nonce
    PROVE  NonceInv'
<1>1. Pending' = Pending
  BY DEF Pending, nodeVars
<1> QED
  BY <1>1, FrameKeepsNonces DEF IInv, NonceInv, nodeVars

-----------------------------------------------------------------------------
(* The steps of the node                                                   *)

\* The extrinsics of a new block have the nonces after those of the chain.
LEMMA NewBlockKeeps ==
    ASSUME IInv, NewBlock
    PROVE  IInv'
<1> PICK n \in 0 .. Cardinality(Pending), how \in [Txs -> {"ok", "failed"}] :
         LET in == {t \in Pending : task[t].nonce < ChainNonce + n} IN
         /\ Cardinality(in) = n
         /\ fate' = [t \in Txs |-> IF t \in in THEN "included" ELSE fate[t]]
         /\ block' = [t \in Txs |-> IF t \in in THEN head' ELSE block[t]]
         /\ outcome' = [t \in Txs |-> IF t \in in THEN how[t] ELSE outcome[t]]
         /\ Tell(in, "inBlock")
  BY DEF NewBlock
<1> DEFINE in == {t \in Pending : task[t].nonce < ChainNonce + n}
<1>1. /\ Cardinality(in) = n
      /\ fate' = [t \in Txs |-> IF t \in in THEN "included" ELSE fate[t]]
      /\ block' = [t \in Txs |-> IF t \in in THEN head + 1 ELSE block[t]]
      /\ outcome' = [t \in Txs |-> IF t \in in THEN how[t] ELSE outcome[t]]
      /\ Tell(in, "inBlock")
      /\ head' = head + 1 /\ head < MaxHead
      /\ UNCHANGED <<task, unwatching, watch, final, reorgs, version>>
  BY DEF NewBlock, clientVars
<1>2. in \subseteq Txs /\ \A t \in in : fate[t] = "pool" /\ task[t].nonce < ChainNonce + n
  BY DEF Pending
<1>3. TypeOK /\ ChainInv /\ KnownInv /\ SignedInv /\ VersionInv /\ NonceInv
  BY DEF IInv
<1>4. in \in SUBSET Pending
  OBVIOUS
<1> HIDE DEF in
<1>5. queue' \in [Txs -> Seq(Statuses)] /\ \A t \in Txs : ToldFinal(t)' => ToldFinal(t)
  <2>1. "inBlock" \in Statuses
    BY DEF Statuses
  <2> QED
    BY <1>1, <1>3, <2>1, TellSays
<1>6. head \in Nat /\ head + 1 \in 0 .. MaxHead /\ final \in 0 .. head + 1
  BY <1>1, <1>3, ExtrinsicsAssumption DEF TypeOK
<1>7. TypeOK'
  <2>1. /\ fate' \in [Txs -> {"unknown", "pool", "included", "final", "dropped"}]
        /\ block' \in [Txs -> 0 .. MaxHead]
        /\ outcome' \in [Txs -> {"ok", "failed"}]
    BY <1>1, <1>3, <1>6 DEF TypeOK
  <2> QED
    BY <1>1, <1>3, <1>5, <1>6, <2>1 DEF TypeOK, Statuses
<1>8. ChainInv'
  <2> SUFFICES ASSUME NEW t \in Txs
               PROVE  /\ fate'[t] \in {"included", "final"} <=> block'[t] \in 1 .. head + 1
                      /\ fate'[t] = "included" => block'[t] > final
                      /\ fate'[t] = "final" => block'[t] <= final
                      /\ block'[t] <= head + 1
    BY <1>1 DEF ChainInv
  <2>1. CASE t \in in
    <3>1. fate'[t] = "included" /\ block'[t] = head + 1
      BY <1>1, <2>1
    <3> QED
      BY <1>1, <1>3, <1>6, <3>1 DEF TypeOK
  <2>2. CASE t \notin in
    <3>1. fate'[t] = fate[t] /\ block'[t] = block[t] /\ block[t] \in Nat
          /\ block[t] # head + 1
      <4>1. block[t] \in 0 .. MaxHead /\ block[t] <= head
        BY <1>3 DEF TypeOK, ChainInv
      <4> QED
        BY <1>1, <1>6, <2>2, <4>1
    <3>2. block[t] \in 1 .. head + 1 <=> block[t] \in 1 .. head
      BY <1>6, <3>1
    <3> QED
      BY <1>3, <1>6, <3>1, <3>2 DEF ChainInv
  <2> QED
    BY <2>1, <2>2
<1>9. KnownInv'
  <2> SUFFICES ASSUME NEW t \in Txs
               PROVE  /\ task'[t].stage \in {"idle", "header", "sent"} => fate'[t] = "unknown"
                      /\ ToldFinal(t)' \/ task'[t].stage = "reading" => fate'[t] = "final"
                      /\ task'[t].stage \in {"ok", "failed"} =>
                           fate'[t] = "final" /\ outcome'[t] = task'[t].stage
    BY DEF KnownInv
  <2>1. task'[t] = task[t] /\ (ToldFinal(t)' => ToldFinal(t))
        /\ (fate[t] # "pool" => fate'[t] = fate[t] /\ outcome'[t] = outcome[t])
    BY <1>1, <1>2, <1>5
  <2> QED
    BY <1>3, <2>1 DEF KnownInv
<1>10. SignedInv' /\ VersionInv'
  BY <1>1, <1>3, <1>6 DEF SignedInv, VersionInv, FirstBlock, TypeOK
<1>11. NonceInv'
  <2> PICK h \in Nat : h = head
    BY <1>6
  <2>1. Pending' = Pending \ in /\ Included' = Included \cup in
        /\ Included \cap in = {}
    BY <1>1, <1>2 DEF Pending, Included
  <2>2. Included = Upto(head)
    BY <1>3 DEF ChainInv, Included, Upto
  <2>3. \A b \in 0 .. head : Upto(b)' = Upto(b)
    <3> SUFFICES ASSUME NEW b \in 0 .. head, NEW t \in Txs
                 PROVE  block'[t] \in 1 .. b <=> block[t] \in 1 .. b
      BY DEF Upto
    <3>1. CASE t \in in
      BY <1>1, <1>2, <1>3, <1>6, <3>1 DEF ChainInv
    <3>2. CASE t \notin in
      BY <1>1, <3>2
    <3> QED
      BY <3>1, <3>2
  <2>4. Upto(h + 1)' = Included \cup in
    <3>1. Upto(h + 1)' = Included'
      BY <1>1, <1>6, <1>8 DEF ChainInv, Included, Upto
    <3> QED
      BY <2>1, <3>1
  <2>5. IsFiniteSet(Pending \ in) /\ IsFiniteSet(in) /\ IsFiniteSet(Included \cup in)
        /\ Cardinality(Included \cup in) = ChainNonce + n /\ ChainNonce \in Nat
        /\ n \in Nat
    <3>1. IsFiniteSet(Pending) /\ IsFiniteSet(Included)
      BY <1>3 DEF NonceInv
    <3>2. IsFiniteSet(in) /\ IsFiniteSet(Pending \ in)
      BY <1>4, <3>1, FS_Subset, FS_Difference
    <3>3. /\ IsFiniteSet(Included \cup in)
          /\ Cardinality(Included \cup in)
               = Cardinality(Included) + Cardinality(in) - Cardinality(Included \cap in)
      BY <3>1, <3>2, FS_Union
    <3>4. Cardinality(Included \cap in) = 0 /\ Cardinality(Included) \in Nat
          /\ Cardinality(in) \in Nat
      BY <2>1, <3>1, <3>2, FS_EmptySet, FS_CardinalityType
    <3> QED
      BY <1>1, <3>2, <3>3, <3>4 DEF ChainNonce
  <2>6. ASSUME NEW b \in 0 .. head + 1, NEW t \in Upto(b)'
        PROVE  task'[t].nonce < Cardinality(Upto(b)')
    <3>1. CASE b \in 0 .. head
      BY <1>1, <1>3, <2>3, <3>1, <2>6 DEF NonceInv
    <3>2. CASE b = h + 1
      <4>0. Upto(b)' = Included \cup in /\ task' = task
        BY <1>1, <2>4, <3>2
      <4>1. CASE t \in in
        <5>1. task[t].nonce < ChainNonce + n
          BY <1>2, <4>1
        <5> QED
          BY <2>5, <4>0, <5>1
      <4>2. CASE t \in Included
        <5>1. task[t].nonce < ChainNonce /\ task[t].nonce \in Nat
          <6>1. head \in 0 .. head /\ t \in Txs /\ fate[t] # "unknown"
            BY <1>6, <4>2 DEF Included
          <6> QED
            BY <1>3, <2>2, <4>2, <6>1 DEF NonceInv, ChainNonce, KnownInv, SignedInv
        <5> QED
          BY <2>5, <4>0, <5>1
      <4> QED
        BY <2>4, <3>2, <2>6, <4>1, <4>2
    <3> QED
      BY <1>6, <3>1, <3>2
  <2> QED
    BY <1>1, <2>1, <2>5, <2>6 DEF NonceInv
<1> QED
  BY <1>7, <1>8, <1>9, <1>10, <1>11 DEF IInv

\* The nonces of the blocks that are replaced are those after the blocks before
\* them.
LEMMA ReorgKeeps ==
    ASSUME IInv, NEW first \in final + 1 .. head, Reorg(first)
    PROVE  IInv'
<1> DEFINE out == {t \in Txs : block[t] >= first}
<1>1. /\ fate' = [t \in Txs |-> IF t \in out THEN "pool" ELSE fate[t]]
      /\ block' = [t \in Txs |-> IF t \in out THEN 0 ELSE block[t]]
      /\ Tell(out, "other")
      /\ reorgs < MaxReorgs /\ reorgs' = reorgs + 1
      /\ version' = [n \in 0 .. MaxHead |-> IF n \in first .. head THEN version[n] + 1
                                            ELSE version[n]]
      /\ UNCHANGED <<task, unwatching, watch, head, final, outcome>>
  BY DEF Reorg, clientVars
<1>2. TypeOK /\ ChainInv /\ KnownInv /\ SignedInv /\ VersionInv /\ NonceInv
  BY DEF IInv
<1>3. /\ head \in Nat \ {0} /\ final \in Nat /\ first \in Nat \ {0}
      /\ final < first /\ first <= head
  BY <1>1, <1>2, ExtrinsicsAssumption DEF TypeOK
<1>4. \A t \in out : fate[t] = "included"
  <2> SUFFICES ASSUME NEW t \in Txs, block[t] >= first PROVE fate[t] = "included"
    OBVIOUS
  <2>1. block[t] \in 1 .. head
    BY <1>2, <1>3 DEF ChainInv, TypeOK
  <2>2. fate[t] \in {"included", "final"} /\ (fate[t] = "final" => block[t] <= final)
    BY <1>2, <2>1 DEF ChainInv
  <2> QED
    BY <1>3, <2>1, <2>2
<1>5. queue' \in [Txs -> Seq(Statuses)] /\ \A t \in Txs : ToldFinal(t)' => ToldFinal(t)
  <2>1. "other" \in Statuses
    BY DEF Statuses
  <2> QED
    BY <1>1, <1>2, <2>1, TellSays
<1>6. TypeOK'
  <2>1. /\ fate' \in [Txs -> {"unknown", "pool", "included", "final", "dropped"}]
        /\ block' \in [Txs -> 0 .. MaxHead]
        /\ reorgs' \in 0 .. MaxReorgs
        /\ version' \in [0 .. MaxHead -> 0 .. MaxReorgs]
    BY <1>1, <1>2, <1>3, ExtrinsicsAssumption DEF TypeOK, VersionInv
  <2> QED
    BY <1>1, <1>2, <1>5, <2>1 DEF TypeOK, Statuses
<1>7. ChainInv'
  BY <1>1, <1>2, <1>3 DEF ChainInv, TypeOK
<1>8. KnownInv'
  <2> SUFFICES ASSUME NEW t \in Txs
               PROVE  /\ task'[t].stage \in {"idle", "header", "sent"} => fate'[t] = "unknown"
                      /\ ToldFinal(t)' \/ task'[t].stage = "reading" => fate'[t] = "final"
                      /\ task'[t].stage \in {"ok", "failed"} =>
                           fate'[t] = "final" /\ outcome'[t] = task'[t].stage
    BY DEF KnownInv
  <2>1. task'[t] = task[t] /\ (ToldFinal(t)' => ToldFinal(t)) /\ outcome'[t] = outcome[t]
        /\ (fate[t] # "included" => fate'[t] = fate[t])
    BY <1>1, <1>4, <1>5
  <2> QED
    BY <1>2, <2>1 DEF KnownInv
<1>v. /\ \A n \in 0 .. MaxHead : version[n] \in Nat /\ version[n] <= version'[n]
                                  /\ version'[n] <= reorgs + 1
      /\ version'[0] = 0
  BY <1>1, <1>2, <1>3, ExtrinsicsAssumption DEF TypeOK, VersionInv
<1>9. SignedInv' /\ VersionInv'
  <2>1. VersionInv'
    BY <1>1, <1>v DEF VersionInv
  <2> SUFFICES ASSUME NEW t \in Txs, task[t].stage \notin {"idle", "header"}
               PROVE  task[t].birth.version <= version'[FirstBlock(t)]
    BY <1>1, <1>2, <2>1 DEF SignedInv, FirstBlock
  <2>2. FirstBlock(t) \in 0 .. MaxHead /\ task[t].birth.version \in Nat
    BY <1>2, ExtrinsicsAssumption DEF TypeOK, FirstBlock, BlockHash
  <2>3. task[t].birth.version <= version[FirstBlock(t)]
    BY <1>2 DEF SignedInv
  <2>4. version'[FirstBlock(t)] \in Nat
    BY <1>6, <2>2, ExtrinsicsAssumption DEF TypeOK
  <2> QED
    BY <1>v, <2>2, <2>3, <2>4
<1>10. NonceInv'
  <2>1. Included' = Included \ out /\ Pending' = Pending \cup out
    BY <1>1, <1>4 DEF Included, Pending
  <2>2. ASSUME NEW b \in 0 .. head
        PROVE  Upto(b)' = Upto(IF b < first THEN b ELSE first - 1)
    BY <1>1, <1>2, <1>3 DEF Upto, TypeOK
  <2>4. IsFiniteSet(Included \ out) /\ IsFiniteSet(Pending \cup out)
    <3>1. out \in SUBSET Included
      BY <1>4 DEF Included
    <3> QED
      BY <1>2, <3>1, FS_Subset, FS_Difference, FS_Union DEF NonceInv
  <2>5. ASSUME NEW b \in 0 .. head, NEW t \in Upto(b)'
        PROVE  task'[t].nonce < Cardinality(Upto(b)')
    <3>1. PICK c \in 0 .. head : Upto(b)' = Upto(c)
      <4>1. (IF b < first THEN b ELSE first - 1) \in 0 .. head
        BY <1>3
      <4> QED
        BY <2>2, <4>1
    <3> QED
      BY <1>1, <1>2, <2>5, <3>1 DEF NonceInv
  <2> QED
    BY <1>1, <2>1, <2>4, <2>5 DEF NonceInv
<1> QED
  BY <1>6, <1>7, <1>8, <1>9, <1>10 DEF IInv

LEMMA FinalizeKeeps ==
    ASSUME IInv, Finalize
    PROVE  IInv'
<1> DEFINE in == {t \in Txs : block[t] = final + 1}
<1>1. /\ fate' = [t \in Txs |-> IF t \in in THEN "final" ELSE fate[t]]
      /\ Tell(in, "finalized")
      /\ final < head /\ final' = final + 1
      /\ UNCHANGED <<task, unwatching, watch, head, reorgs, version, block, outcome>>
  BY DEF Finalize, clientVars
<1>2. TypeOK /\ ChainInv /\ KnownInv /\ SignedInv /\ VersionInv /\ NonceInv
  BY DEF IInv
<1>3. head \in Nat /\ final \in Nat /\ final + 1 \in 1 .. head
  BY <1>1, <1>2, ExtrinsicsAssumption DEF TypeOK
<1>4. \A t \in in : fate[t] = "included"
  <2> SUFFICES ASSUME NEW t \in Txs, block[t] = final + 1 PROVE fate[t] = "included"
    OBVIOUS
  <2>1. fate[t] \in {"included", "final"} /\ (fate[t] = "final" => block[t] <= final)
    BY <1>2, <1>3 DEF ChainInv
  <2> QED
    BY <1>3, <2>1
<1>5. queue' \in [Txs -> Seq(Statuses)]
      /\ \A t \in Txs : ToldFinal(t)' => ToldFinal(t) \/ t \in in
  <2>1. "finalized" \in Statuses
    BY DEF Statuses
  <2> QED
    BY <1>1, <1>2, <2>1, TellSays
<1>6. TypeOK'
  <2>1. /\ fate' \in [Txs -> {"unknown", "pool", "included", "final", "dropped"}]
        /\ final' \in 0 .. head
    BY <1>1, <1>2, <1>3 DEF TypeOK
  <2> QED
    BY <1>1, <1>2, <1>5, <2>1 DEF TypeOK, Statuses
<1>7. ChainInv'
  BY <1>1, <1>2, <1>3, <1>4 DEF ChainInv, TypeOK
<1>8. KnownInv'
  <2> SUFFICES ASSUME NEW t \in Txs
               PROVE  /\ task'[t].stage \in {"idle", "header", "sent"} => fate'[t] = "unknown"
                      /\ ToldFinal(t)' \/ task'[t].stage = "reading" => fate'[t] = "final"
                      /\ task'[t].stage \in {"ok", "failed"} =>
                           fate'[t] = "final" /\ outcome'[t] = task'[t].stage
    BY DEF KnownInv
  <2>1. task'[t] = task[t] /\ (ToldFinal(t)' => ToldFinal(t) \/ fate'[t] = "final")
        /\ outcome'[t] = outcome[t]
        /\ (fate[t] # "included" => fate'[t] = fate[t])
        /\ (fate[t] = "final" => fate'[t] = "final")
    BY <1>1, <1>4, <1>5
  <2> QED
    BY <1>2, <2>1 DEF KnownInv
<1>9. SignedInv' /\ VersionInv'
  BY <1>1, <1>2 DEF SignedInv, VersionInv, FirstBlock
<1>10. NonceInv'
  <2>1. \A t \in Txs : fate'[t] \in {"included", "final"} <=> fate[t] \in {"included", "final"}
    BY <1>1, <1>4
  <2>2. Pending' = Pending
    BY <1>1, <1>4 DEF Pending
  <2> QED
    BY <1>1, <1>2, <2>1, <2>2, FrameKeepsNonces DEF NonceInv
<1> QED
  BY <1>6, <1>7, <1>8, <1>9, <1>10 DEF IInv

LEMMA DropKeeps ==
    ASSUME IInv, NEW x \in Txs, Drop(x)
    PROVE  IInv'
<1>1. /\ fate[x] = "pool"
      /\ fate' = [fate EXCEPT ![x] = "dropped"]
      /\ Tell({x}, "other")
      /\ UNCHANGED <<task, unwatching, watch, head, final, reorgs, version, block,
                     outcome>>
  BY DEF Drop, clientVars
<1>2. TypeOK /\ ChainInv /\ KnownInv /\ SignedInv /\ VersionInv /\ NonceInv
  BY DEF IInv
<1>3. queue' \in [Txs -> Seq(Statuses)] /\ \A t \in Txs : ToldFinal(t)' => ToldFinal(t)
  <2>1. "other" \in Statuses
    BY DEF Statuses
  <2> QED
    BY <1>1, <1>2, <2>1, TellSays
<1>4. TypeOK'
  BY <1>1, <1>2, <1>3 DEF TypeOK, Statuses
<1>5. ChainInv'
  BY <1>1, <1>2 DEF ChainInv, TypeOK
<1>6. KnownInv'
  <2> SUFFICES ASSUME NEW t \in Txs
               PROVE  /\ task'[t].stage \in {"idle", "header", "sent"} => fate'[t] = "unknown"
                      /\ ToldFinal(t)' \/ task'[t].stage = "reading" => fate'[t] = "final"
                      /\ task'[t].stage \in {"ok", "failed"} =>
                           fate'[t] = "final" /\ outcome'[t] = task'[t].stage
    BY DEF KnownInv
  <2>1. task'[t] = task[t] /\ (ToldFinal(t)' => ToldFinal(t)) /\ outcome'[t] = outcome[t]
        /\ (fate[t] # "pool" => fate'[t] = fate[t])
    BY <1>1, <1>2, <1>3 DEF TypeOK
  <2> QED
    BY <1>2, <2>1 DEF KnownInv
<1>7. SignedInv' /\ VersionInv'
  BY <1>1, <1>2 DEF SignedInv, VersionInv, FirstBlock
<1>8. NonceInv'
  <2>1. \A t \in Txs : fate'[t] \in {"included", "final"} <=> fate[t] \in {"included", "final"}
    BY <1>1, <1>2 DEF TypeOK
  <2>2. Pending' \in SUBSET Pending
    BY <1>1, <1>2 DEF Pending, TypeOK
  <2>3. IsFiniteSet(Pending')
    BY <1>2, <2>2, FS_Subset DEF NonceInv
  <2> QED
    BY <1>1, <2>1, <2>3, FrameKeepsNonces
<1> QED
  BY <1>4, <1>5, <1>6, <1>7, <1>8 DEF IInv

\* An error is no status "finalized".
LEMMA DisconnectKeeps ==
    ASSUME IInv, NEW told \in BOOLEAN, Disconnect(told)
    PROVE  IInv'
<1> DEFINE in == {t \in Txs : told /\ watch[t] \in {"live", "cut"}
                                 /\ task[t].stage # "late"}
<1>1. /\ queue' = [t \in Txs |-> IF t \in in THEN Append(queue[t], "error") ELSE queue[t]]
      /\ watch' \in [Txs -> {"none", "live", "cut", "gone"}]
      /\ task' = task /\ unwatching' = unwatching /\ UNCHANGED nodeVars
  BY DEF Disconnect, clientVars, IInv, TypeOK
<1> HIDE DEF in
<1>2. TypeOK /\ ChainInv /\ KnownInv /\ SignedInv /\ VersionInv /\ NonceInv
  BY DEF IInv
<1>3. queue' \in [Txs -> Seq(Statuses)] /\ \A t \in Txs : ToldFinal(t)' => ToldFinal(t)
  <2>1. "error" \in Statuses
    BY DEF Statuses
  <2> QED
    BY <1>1, <1>2, <2>1, AppendSays
<1>4. TypeOK'
  BY <1>1, <1>2, <1>3, TypeOKNext DEF TypeOK, Statuses
<1>5. KnownInv'
  BY <1>1, <1>2, <1>3 DEF KnownInv, nodeVars
<1>6. ChainInv' /\ SignedInv' /\ VersionInv'
  BY <1>1, <1>2 DEF ChainInv, SignedInv, VersionInv, FirstBlock, nodeVars
<1>7. NonceInv'
  BY <1>1, ClientKeepsNonces
<1> QED
  BY <1>4, <1>5, <1>6, <1>7 DEF IInv

-----------------------------------------------------------------------------
(* The steps of the tasks                                                  *)

\* A step of one task that leaves the node alone.
LEMMA TaskKeeps ==
    ASSUME IInv, NEW x \in Txs, UNCHANGED nodeVars, TypeOK',
           \A t \in Txs : ToldFinal(t)' => ToldFinal(t),
           \A t \in Txs \ {x} : task'[t] = task[t],
           task'[x].stage \in {"idle", "header", "sent"} => fate[x] = "unknown",
           task'[x].stage = "reading" => fate[x] = "final",
           task'[x].stage \in {"ok", "failed"} =>
             fate[x] = "final" /\ outcome[x] = task'[x].stage,
           task'[x].start <= head,
           task'[x].stage \notin {"idle", "header"} =>
             /\ task'[x].nonce \in Nat
             /\ task'[x].birth.number = FirstBlock(x)'
             /\ task'[x].birth.version <= version[FirstBlock(x)'],
           fate[x] # "unknown" => task'[x].nonce = task[x].nonce
    PROVE  IInv'
<1>1. ChainInv'
  BY DEF IInv, ChainInv, nodeVars
<1>2. KnownInv'
  BY DEF IInv, KnownInv, nodeVars
<1>3. SignedInv' /\ VersionInv'
  BY DEF IInv, SignedInv, VersionInv, FirstBlock, nodeVars
<1>4. NonceInv'
  BY ClientKeepsNonces
<1> QED
  BY <1>1, <1>2, <1>3, <1>4 DEF IInv

\* A task that has signed goes on.
LEMMA GoesKeeps ==
    ASSUME IInv, NEW x \in Txs, NEW stage \in Stages \ {"idle", "header", "sent"},
           Goes(x, stage), UNCHANGED nodeVars,
           task[x].stage \notin {"idle", "header"},
           watch' \in [Txs -> {"none", "live", "cut", "gone"}],
           unwatching' \subseteq Txs,
           queue' \in [Txs -> Seq(Statuses)],
           \A t \in Txs : ToldFinal(t)' => ToldFinal(t),
           stage = "reading" => fate[x] = "final",
           stage \in {"ok", "failed"} => fate[x] = "final" /\ outcome[x] = stage
    PROVE  IInv'
<1>1. TypeOK /\ task' = [task EXCEPT ![x].stage = stage]
  BY DEF IInv, Goes
<1>2. /\ task'[x] = [task[x] EXCEPT !.stage = stage]
      /\ \A t \in Txs \ {x} : task'[t] = task[t]
      /\ task[x] \in [stage : Stages, given : Nonces \cup {None}, mortal : Mortal,
                      start : 0 .. MaxHead, nonce : Nat \cup {None},
                      birth : BlockHash]
  BY <1>1 DEF TypeOK
<1>3. TypeOK'
  BY ZenonT(40), <1>1, TypeOKNext DEF TypeOK
<1>4. /\ task'[x].stage = stage /\ task'[x].start = task[x].start
      /\ task'[x].nonce = task[x].nonce /\ task'[x].birth = task[x].birth
      /\ task'[x].mortal = task[x].mortal
  BY <1>2
<1>5. /\ task[x].start <= head
      /\ task[x].nonce \in Nat
      /\ task[x].birth.number = FirstBlock(x)
      /\ task[x].birth.version <= version[FirstBlock(x)]
  BY DEF IInv, SignedInv
<1>6. FirstBlock(x)' = FirstBlock(x)
  BY <1>4 DEF FirstBlock
<1>7. \A t \in Txs \ {x} : task'[t] = task[t]
  BY <1>2
<1> QED
  BY SMTT(30), <1>3, <1>4, <1>5, <1>6, <1>7, TaskKeeps

LEMMA GetHeaderKeeps ==
    ASSUME IInv, NEW x \in Txs, GetHeader(x)
    PROVE  IInv'
<1>1. /\ task[x].stage = "idle"
      /\ task' = [task EXCEPT ![x] = [task[x] EXCEPT !.start = head, !.stage = "header"]]
      /\ UNCHANGED <<watch, unwatching, queue, nodeVars>>
  BY DEF GetHeader
<1>2. TypeOK /\ KnownInv
  BY DEF IInv
<1>3. /\ task[x] \in [stage : Stages, given : Nonces \cup {None}, mortal : Mortal,
                      start : 0 .. MaxHead, nonce : Nat \cup {None},
                      birth : BlockHash]
      /\ task'[x] = [task[x] EXCEPT !.start = head, !.stage = "header"]
      /\ \A t \in Txs \ {x} : task'[t] = task[t]
      /\ head \in 0 .. MaxHead
  BY <1>1, <1>2 DEF TypeOK
<1>4. task'[x].stage = "header" /\ task'[x].start = head /\ task'[x].nonce = task[x].nonce
  BY <1>3
<1>5. TypeOK'
  BY <1>1, <1>2, <1>3, TypeOKNext DEF TypeOK, Statuses, Stages
<1>6. fate[x] = "unknown"
  BY <1>1, <1>2 DEF KnownInv
<1> QED
  BY <1>1, <1>3, <1>4, <1>5, <1>6, TaskKeeps DEF ToldFinal

\* The nonce is one that nothing in the pool or in a block has.
LEMMA GatherSigns ==
    ASSUME IInv, NEW x \in Txs, Gather(x)
    PROVE  /\ IInv'
           /\ \A s \in Pending \cup Included : task[s].nonce # task'[x].nonce
<1>1. /\ task[x].stage \in {"idle", "header"}
      /\ task' = [task EXCEPT ![x] = [task[x] EXCEPT !.nonce = NextIndex,
                                         !.birth = SignedBlock(x), !.stage = "sent"]]
      /\ UNCHANGED <<watch, unwatching, queue, nodeVars>>
  BY DEF Gather, Nonce
<1>2. TypeOK /\ ChainInv /\ KnownInv /\ SignedInv /\ VersionInv /\ NonceInv
  BY DEF IInv
<1>3. /\ NextIndex \in Nat /\ NextIndex >= ChainNonce
      /\ \A s \in Pending : task[s].nonce # NextIndex
  BY <1>2, NextIndexIsFree DEF NonceInv
<1>4. /\ task[x] \in [stage : Stages, given : Nonces \cup {None}, mortal : Mortal,
                      start : 0 .. MaxHead, nonce : Nat \cup {None},
                      birth : BlockHash]
      /\ task'[x] = [task[x] EXCEPT !.nonce = NextIndex,
                        !.birth = SignedBlock(x), !.stage = "sent"]
      /\ \A t \in Txs \ {x} : task'[t] = task[t]
  BY <1>1, <1>2 DEF TypeOK
<1>5. /\ task'[x].stage = "sent" /\ task'[x].start = task[x].start
      /\ task'[x].nonce = NextIndex /\ task'[x].mortal = task[x].mortal
      /\ task'[x].birth = SignedBlock(x)
  BY <1>4
<1>6. SignedBlock(x) = Hash(FirstBlock(x)) /\ FirstBlock(x) \in 0 .. MaxHead
  <2>1. task[x].start \in Nat /\ task[x].start < task[x].start + Period
    BY <1>4, ExtrinsicsAssumption
  <2>2. Birth(task[x].start % Period, task[x].start) = task[x].start
    BY <2>1, BirthIsStart
  <2> QED
    BY <1>4, <2>2, ExtrinsicsAssumption DEF SignedBlock, Phase, FirstBlock
<1>7. TypeOK'
  <2>1. SignedBlock(x) \in BlockHash
    BY <1>2, <1>6 DEF Hash, BlockHash, TypeOK
  <2> QED
    BY <1>1, <1>2, <1>3, <1>4, <2>1, TypeOKNext DEF TypeOK, Statuses, Stages
<1>8. fate[x] = "unknown" /\ task[x].start <= head
  BY <1>1, <1>2 DEF KnownInv, SignedInv
<1>b. /\ task'[x].birth.number = FirstBlock(x)'
      /\ task'[x].birth.version <= version[FirstBlock(x)']
  <2>1. FirstBlock(x)' = FirstBlock(x)
    BY <1>5 DEF FirstBlock
  <2>2. version[FirstBlock(x)] \in Nat
    BY <1>2, <1>6 DEF TypeOK
  <2> QED
    BY <1>5, <1>6, <2>1, <2>2 DEF Hash
<1>9. IInv'
  BY <1>1, <1>3, <1>4, <1>5, <1>7, <1>8, <1>b, TaskKeeps DEF ToldFinal
<1>10. ASSUME NEW s \in Included PROVE task[s].nonce # NextIndex
  <2> PICK h \in Nat : h = head
    BY <1>2 DEF TypeOK
  <2>1. s \in Upto(h) /\ Upto(h) = Included /\ fate[s] # "unknown" /\ s \in Txs
    BY <1>2 DEF Included, Upto, ChainInv
  <2>2. task[s].nonce < ChainNonce /\ task[s].nonce \in Nat
    BY <1>2, <2>1 DEF NonceInv, ChainNonce, SignedInv, KnownInv
  <2>3. ChainNonce \in Nat
    BY <1>2, FS_CardinalityType DEF NonceInv, ChainNonce
  <2> QED
    BY <1>3, <2>2, <2>3
<1> QED
  BY <1>3, <1>5, <1>9, <1>10

LEMMA AcceptKeeps ==
    ASSUME IInv, NEW x \in Txs, Accept(x)
    PROVE  IInv'
<1>1. PICK stage \in {"watching", "late", "lost"} : Goes(x, stage)
  BY DEF Accept
<1>2. /\ task[x].stage = "sent"
      /\ fate' = [fate EXCEPT ![x] = "pool"]
      /\ watch' = watch \/ watch' = [watch EXCEPT ![x] = "live"]
      /\ task' = [task EXCEPT ![x].stage = stage]
      /\ UNCHANGED <<unwatching, queue, head, final, reorgs, version, block, outcome>>
  BY <1>1 DEF Accept, Goes
<1>3. TypeOK /\ ChainInv /\ KnownInv /\ SignedInv /\ VersionInv /\ NonceInv
  BY DEF IInv
<1>4. /\ task[x] \in [stage : Stages, given : Nonces \cup {None}, mortal : Mortal,
                      start : 0 .. MaxHead, nonce : Nat \cup {None},
                      birth : BlockHash]
      /\ task'[x] = [task[x] EXCEPT !.stage = stage]
      /\ \A t \in Txs \ {x} : task'[t] = task[t] /\ fate'[t] = fate[t]
      /\ fate[x] = "unknown" /\ fate'[x] = "pool"
  BY <1>2, <1>3 DEF TypeOK, KnownInv
<1>5. /\ task'[x].stage = stage /\ task'[x].start = task[x].start
      /\ task'[x].nonce = task[x].nonce /\ task'[x].birth = task[x].birth
      /\ task'[x].mortal = task[x].mortal
  BY <1>4
<1>6. TypeOK'
  <2>1. task' \in [Txs -> [stage : Stages, given : Nonces \cup {None}, mortal : Mortal,
                           start : 0 .. MaxHead, nonce : Nat \cup {None},
                           birth : BlockHash]]
    BY <1>2, <1>3, <1>4 DEF TypeOK, Stages
  <2>2. watch' \in [Txs -> {"none", "live", "cut", "gone"}]
        /\ fate' \in [Txs -> {"unknown", "pool", "included", "final", "dropped"}]
    BY <1>2, <1>3 DEF TypeOK
  <2> QED
    BY <1>2, <1>3, <2>1, <2>2 DEF TypeOK
<1>7. ChainInv'
  BY <1>2, <1>3, <1>4 DEF ChainInv
<1>8. KnownInv'
  BY <1>2, <1>3, <1>4, <1>5 DEF KnownInv, ToldFinal
<1>9. SignedInv' /\ VersionInv'
  BY <1>2, <1>3, <1>4, <1>5 DEF SignedInv, VersionInv, FirstBlock
<1>10. NonceInv'
  <2>1. Pending' = Pending \cup {x}
    BY <1>4 DEF Pending
  <2>2. IsFiniteSet(Pending')
    BY <1>3, <2>1, FS_AddElement DEF NonceInv
  <2> QED
    BY <1>2, <1>4, <1>5, <2>2, FrameKeepsNonces
<1> QED
  BY <1>6, <1>7, <1>8, <1>9, <1>10 DEF IInv

\* Subscribing late puts nothing into the queue.
LEMMA SubscribeKeeps ==
    ASSUME IInv, NEW x \in Txs, Subscribe(x)
    PROVE  IInv'
<1>1. /\ task[x].stage = "late" /\ Goes(x, "watching")
      /\ UNCHANGED <<unwatching, queue, nodeVars>>
      /\ watch' \in [Txs -> {"none", "live", "cut", "gone"}]
  BY DEF Subscribe, IInv, TypeOK
<1>2. /\ unwatching' \subseteq Txs
      /\ queue' \in [Txs -> Seq(Statuses)]
      /\ \A t \in Txs : ToldFinal(t)' => ToldFinal(t)
  BY <1>1 DEF IInv, TypeOK, Statuses, ToldFinal
<1>3. "watching" \in Stages \ {"idle", "header", "sent", "reading", "ok", "failed"}
  BY DEF Stages
<1> QED
  BY <1>1, <1>2, <1>3, GoesKeeps

LEMMA TakeStatusKeeps ==
    ASSUME IInv, NEW x \in Txs, TakeStatus(x)
    PROVE  IInv'
<1> DEFINE status == Head(queue[x])
           stage  == IF status = "error" THEN "raised"
                     ELSE IF status # Wanted(x) THEN task[x].stage
                     ELSE IF task[x].stage = "inclusion" THEN "included"
                     ELSE "reading"
<1>1. /\ task[x].stage \in {"inclusion", "finalization"}
      /\ queue[x] # <<>>
      /\ Goes(x, stage)
      /\ unwatching' \subseteq unwatching \cup {x}
      /\ queue' = [queue EXCEPT ![x] = Tail(queue[x])]
      /\ UNCHANGED <<watch, nodeVars>>
  BY DEF TakeStatus
<1>2. TypeOK /\ KnownInv
  BY DEF IInv
<1>3. queue \in [Txs -> Seq(Statuses)]
  BY <1>2 DEF TypeOK, Statuses
<1>4. /\ Tail(queue[x]) \in Seq(Statuses)
      /\ Len(queue[x]) \in Nat \ {0}
      /\ Len(Tail(queue[x])) = Len(queue[x]) - 1
      /\ \A i \in 1 .. Len(Tail(queue[x])) : Tail(queue[x])[i] = queue[x][i + 1]
      /\ status = queue[x][1]
  BY <1>1, <1>3, HeadTailProperties, EmptySeq
<1>5. ASSUME NEW t \in Txs, ToldFinal(t)' PROVE ToldFinal(t)
  <2>1. CASE t = x
    <3>1. queue'[x] = Tail(queue[x])
      BY <1>1, <1>3
    <3>2. PICK i \in 1 .. Len(queue[x]) - 1 : queue[x][i + 1] = "finalized"
      BY <1>4, <1>5, <2>1, <3>1 DEF ToldFinal
    <3>3. i + 1 \in 1 .. Len(queue[x])
      BY <1>4
    <3> QED
      BY <2>1, <3>2, <3>3 DEF ToldFinal
  <2>2. CASE t # x
    BY <1>1, <1>3, <1>5, <2>2 DEF ToldFinal
  <2> QED
    BY <2>1, <2>2
<1>6. stage = "reading" => fate[x] = "final"
  <2> SUFFICES ASSUME stage = "reading" PROVE fate[x] = "final"
    OBVIOUS
  <2>1. status = "finalized"
    BY <1>1 DEF Wanted
  <2>2. ToldFinal(x)
    BY <1>4, <2>1 DEF ToldFinal
  <2> QED
    BY <1>2, <2>2 DEF KnownInv
<1>7. stage \in Stages \ {"idle", "header", "sent", "ok", "failed"}
  BY <1>1 DEF Stages
<1>8. queue' \in [Txs -> Seq(Statuses)]
  BY <1>1, <1>3, <1>4
<1> HIDE DEF stage, status
<1> QED
  BY <1>1, <1>2, <1>5, <1>6, <1>7, <1>8, GoesKeeps DEF TypeOK

\* What the task reads in the finalized block is of its own extrinsic.
LEMMA ReadOutcomeKeeps ==
    ASSUME IInv, NEW x \in Txs, ReadOutcome(x)
    PROVE  IInv'
<1>1. TypeOK /\ KnownInv /\ task[x].stage = "reading" /\ fate[x] = "final"
      /\ UNCHANGED <<watch, unwatching, queue, nodeVars>>
  BY DEF IInv, ReadOutcome, KnownInv
<1>2. (\E e \in OwnEvents(x) : e.failed) <=> outcome[x] = "failed"
  <2>1. [extrinsic |-> x, failed |-> outcome[x] = "failed"] \in OwnEvents(x)
    BY DEF OwnEvents, Events
  <2>2. ASSUME NEW e \in OwnEvents(x) PROVE e.failed <=> outcome[x] = "failed"
    <3>1. PICK s \in Txs : e = [extrinsic |-> s, failed |-> outcome[s] = "failed"]
      BY DEF OwnEvents, Events
    <3>2. e.extrinsic = s /\ e.extrinsic = x
      BY <3>1 DEF OwnEvents
    <3>3. e.failed = (outcome[s] = "failed")
      BY <3>1
    <3> QED
      BY <3>2, <3>3
  <2> QED
    BY <2>1, <2>2
<1>3. PICK stage \in {"ok", "failed", "raised"} :
        Goes(x, stage) /\ (stage # "raised" => outcome[x] = stage)
  <2>1. outcome[x] \in {"ok", "failed"}
    BY <1>1 DEF TypeOK
  <2>2. CASE Goes(x, "raised")
    BY <2>2
  <2>3. CASE Goes(x, IF \E e \in OwnEvents(x) : e.failed THEN "failed" ELSE "ok")
    BY <1>2, <2>1, <2>3
  <2> QED
    BY <2>2, <2>3 DEF ReadOutcome
<1>4. stage \in Stages \ {"idle", "header", "sent", "reading"}
  BY DEF Stages
<1>5. /\ watch' \in [Txs -> {"none", "live", "cut", "gone"}]
      /\ unwatching' \subseteq Txs
      /\ queue' \in [Txs -> Seq(Statuses)]
      /\ \A t \in Txs : ToldFinal(t)' => ToldFinal(t)
  BY <1>1 DEF TypeOK, Statuses, ToldFinal
<1> QED
  BY <1>1, <1>3, <1>4, <1>5, GoesKeeps

\* The task rejects, begins to wait or is timed out.
LEMMA StageKeeps ==
    ASSUME IInv, NEW x \in Txs, Reject(x) \/ Wait(x) \/ Timeout(x)
    PROVE  IInv'
<1>1. UNCHANGED <<watch, unwatching, queue, nodeVars>>
      /\ task[x].stage \notin {"idle", "header"}
  BY DEF Reject, Wait, Timeout
<1>2. PICK stage \in {"rejected", "inclusion", "finalization", "timedout"} : Goes(x, stage)
  BY DEF Reject, Wait, Timeout
<1>3. stage \in Stages \ {"idle", "header", "sent", "reading", "ok", "failed"}
  BY DEF Stages
<1>4. /\ watch' \in [Txs -> {"none", "live", "cut", "gone"}]
      /\ unwatching' \subseteq Txs
      /\ queue' \in [Txs -> Seq(Statuses)]
      /\ \A t \in Txs : ToldFinal(t)' => ToldFinal(t)
  BY <1>1 DEF IInv, TypeOK, Statuses, ToldFinal
<1> QED
  BY <1>1, <1>2, <1>3, <1>4, GoesKeeps

LEMMA UnwatchKeeps ==
    ASSUME IInv, NEW x \in Txs, Unwatch(x)
    PROVE  IInv'
<1>1. /\ unwatching' = unwatching \ {x}
      /\ watch' = [watch EXCEPT ![x] = "gone"]
      /\ UNCHANGED <<task, queue, nodeVars>>
  BY DEF Unwatch
<1>2. TypeOK'
  BY <1>1, TypeOKNext DEF IInv, TypeOK, Statuses
<1>3. ChainInv' /\ KnownInv' /\ SignedInv' /\ VersionInv'
  BY <1>1 DEF IInv, ChainInv, KnownInv, SignedInv, VersionInv, FirstBlock, ToldFinal,
     nodeVars
<1>4. NonceInv'
  BY <1>1, ClientKeepsNonces
<1> QED
  BY <1>2, <1>3, <1>4 DEF IInv

-----------------------------------------------------------------------------

LEMMA StepKeeps == IInv /\ [Next]_vars => IInv'
<1> SUFFICES ASSUME IInv, [Next]_vars PROVE IInv'
  OBVIOUS
<1>1. ASSUME NEW x \in Txs, Advance(x) PROVE IInv'
  BY <1>1, GetHeaderKeeps, GatherSigns, AcceptKeeps, SubscribeKeeps, StageKeeps, TakeStatusKeeps,
     UnwatchKeeps, ReadOutcomeKeeps DEF Advance
<1>2. CASE UNCHANGED vars
  <2>1. UNCHANGED <<task, watch, unwatching, queue, nodeVars>>
    BY <1>2 DEF vars, clientVars
  <2>2. TypeOK' /\ ChainInv' /\ KnownInv' /\ SignedInv' /\ VersionInv'
    BY <2>1 DEF IInv, TypeOK, ChainInv, KnownInv, SignedInv, VersionInv, FirstBlock,
       ToldFinal, nodeVars
  <2>3. NonceInv'
    BY <2>1, ClientKeepsNonces
  <2> QED
    BY <2>2, <2>3 DEF IInv
<1> QED
  BY <1>1, <1>2, StageKeeps, DropKeeps, NewBlockKeeps, ReorgKeeps, FinalizeKeeps,
     DisconnectKeeps, ExtrinsicsAssumption DEF Next

\* A refused signature had an era, which has ended or whose first block has been
\* replaced.
LEMMA SignatureLasts ==
    ASSUME IInv, NEW x \in Txs, Reject(x), ~ GoodSignature(x)
    PROVE  task[x].mortal /\ (head + 1 >= task[x].start + Period \/ Replaced(x))
<1> DEFINE n == FirstBlock(x)
<1>1. /\ task[x].birth.number = n
      /\ task[x].birth.version <= version[n]
      /\ task[x].start <= head
  BY DEF Reject, IInv, SignedInv
<1>2. task[x].start \in Nat /\ head \in Nat /\ task[x].birth \in BlockHash
  BY DEF IInv, TypeOK
<1>3. task[x].birth = [number |-> n, version |-> task[x].birth.version]
      /\ task[x].birth.version \in Nat
  BY <1>1, <1>2 DEF BlockHash
<1> HIDE DEF n
<1>4. task[x].mortal
  <2> SUFFICES ASSUME ~ task[x].mortal PROVE FALSE
    OBVIOUS
  <2>1. n = 0 /\ version[n] = 0
    BY DEF n, FirstBlock, IInv, VersionInv
  <2>2. task[x].birth = Hash(0)
    BY <1>1, <1>3, <2>1 DEF Hash
  <2> QED
    BY <1>2, <2>2 DEF GoodSignature
<1>5. n = task[x].start
  BY <1>4 DEF n, FirstBlock
<1>6. CASE Birth(task[x].start % Period, head + 1) = task[x].start
  <2>1. task[x].birth # Hash(task[x].start)
    BY <1>1, <1>4, <1>6 DEF GoodSignature, Phase
  <2> QED
    BY <1>1, <1>4, <1>5, <2>1 DEF Replaced
<1>7. CASE Birth(task[x].start % Period, head + 1) # task[x].start
  <2>1. ~ (head + 1 < task[x].start + Period)
    BY <1>1, <1>2, <1>7, BirthIsStart
  <2> QED
    BY <1>2, <1>4, <2>1, ExtrinsicsAssumption
<1> QED
  BY <1>6, <1>7

\* author.py, extrinsic.py: what wait_for_finalization() reports is the outcome
\* of the extrinsic itself, in a block that is final.
THEOREM OutcomeCorrect == Spec => [](TypeOK /\ OutcomeIsOwn)
<1>1. IInv => TypeOK /\ OutcomeIsOwn
  BY DEF IInv, KnownInv, OutcomeIsOwn
<1> QED
  BY <1>1, InitEstablishes, StepKeeps, PTL DEF Spec

\* The nonce that is signed is one that nothing in the pool or in a block has.
THEOREM NonceCorrect == Spec => NonceIsFree
<1> DEFINE Free == \A t \in Txs : Gather(t) =>
                     \A s \in Pending \cup Included : task[s].nonce # task'[t].nonce
<1>1. IInv => [Free]_vars
  BY GatherSigns
<1> HIDE DEF Free
<1>2. Spec => [][Free]_vars
  BY <1>1, InitEstablishes, StepKeeps, PTL DEF Spec
<1> QED
  BY <1>2 DEF Free, NonceIsFree

\* A signature that the node refuses had an era: it has ended, for an extrinsic
\* sent `period` blocks or more after the header was read, or a reorganisation has
\* replaced the block whose hash was signed.
THEOREM EraCorrect == Spec => EraHolds
<1> DEFINE Holds == \A t \in Txs : Reject(t) /\ ~ GoodSignature(t) =>
                      /\ task[t].mortal
                      /\ \/ head + 1 >= task[t].start + Period
                         \/ Replaced(t)
<1>1. IInv => [Holds]_vars
  BY SignatureLasts
<1> HIDE DEF Holds
<1>2. Spec => [][Holds]_vars
  BY <1>1, InitEstablishes, StepKeeps, PTL DEF Spec
<1> QED
  BY <1>2 DEF Holds, EraHolds

=============================================================================
