----------------------------- MODULE BlockProofs -----------------------------
(* That reads follow the nesting of blocks, for any tasks and references.    *)
EXTENDS BlockContext, SequenceTheorems, TLAPS

\* What reads go to at the i-th level of a task's blocks; the 0th is outside.
Level(t, i) == IF i = 0 THEN Latest ELSE inside[t][i].hash

\* The i-th level is the innermost use of the reference by the task.
Innermost(t, r, i) ==
    /\ inside[t][i].ref = r
    /\ \A j \in i + 1 .. Len(inside[t]) : inside[t][j].ref # r

\* A token that reset() would take is of the innermost use of its reference, and
\* holds what the level around it reads.
TokensRestore ==
    \A t \in Tasks \ raised, r \in Refs :
        token[r].by = t /\ ~ token[r].used =>
            \E i \in 1 .. Len(inside[t]) :
                Innermost(t, r, i) /\ token[r].old = Level(t, i - 1)

NestingInv == TypeOK /\ ReadsFollowNesting /\ TokensRestore

-----------------------------------------------------------------------------

LEMMA InitNesting == Init => NestingInv
BY BlockContextAssumption DEF Init, NestingInv, TypeOK, ReadsFollowNesting, TokensRestore, Expected,
       NoToken, Nothing, Latest, Blocks

\* A step that leaves the tasks' contexts, tokens and blocks alone.
LEMMA FrameKeepsNesting ==
    ASSUME NestingInv, TypeOK', UNCHANGED <<ctx, token, inside, raised>>
    PROVE  NestingInv'
BY DEF NestingInv, ReadsFollowNesting, TokensRestore, Expected, Last, Innermost,
       Level

\* What leaving does to a task's blocks.
LEMMA Shortened ==
    ASSUME NEW S, NEW q \in Seq(S), q # <<>>
    PROVE  /\ Len(q) \in Nat \ {0}
           /\ q[Len(q)] \in S
           /\ SubSeq(q, 1, Len(q) - 1) \in Seq(S)
           /\ Len(SubSeq(q, 1, Len(q) - 1)) = Len(q) - 1
           /\ \A i \in 1 .. Len(q) - 1 : SubSeq(q, 1, Len(q) - 1)[i] = q[i]
<1>1. Len(q) \in Nat \ {0} /\ q[Len(q)] \in S
  BY EmptySeq
<1>2. PICK n \in Nat : n = Len(q) - 1
  BY <1>1
<1>3. \A i \in 1 .. n : q[i] \in S
  BY <1>2
<1>4. /\ SubSeq(q, 1, n) \in Seq(S)
      /\ Len(SubSeq(q, 1, n)) = IF 1 <= n THEN n - 1 + 1 ELSE 0
      /\ \A i \in 1 .. n - 1 + 1 : SubSeq(q, 1, n)[i] = q[1 + i - 1]
  BY <1>3, SubSeqProperties
<1>5. Len(SubSeq(q, 1, n)) = n
  BY <1>4
<1>6. \A i \in 1 .. n : SubSeq(q, 1, n)[i] = q[i]
  BY <1>4
<1> QED
  BY <1>1, <1>2, <1>4, <1>5, <1>6

Uses == [ref : Refs, hash : {Latest} \cup Blocks]

\* Entering adds a level around which nothing changes.
LEMMA SetAddsLevel ==
    ASSUME TypeOK, NEW t \in Tasks, NEW r \in Refs,
           NEW hash \in {Latest} \cup Blocks, Set(t, r, hash)
    PROVE  /\ inside' \in [Tasks -> Seq(Uses)]
           /\ \A s \in Tasks : Len(inside[s]) \in Nat
           /\ \A s \in Tasks \ {t} : inside'[s] = inside[s]
           /\ Len(inside'[t]) = Len(inside[t]) + 1
           /\ inside'[t][Len(inside[t]) + 1] = [ref |-> r, hash |-> hash]
           /\ \A i \in 1 .. Len(inside[t]) : inside'[t][i] = inside[t][i]
<1> DEFINE e == [ref |-> r, hash |-> hash]
<1>1. inside \in [Tasks -> Seq(Uses)] /\ e \in Uses
  BY DEF TypeOK, Uses
<1>2. inside' = [inside EXCEPT ![t] = Append(inside[t], e)]
  BY DEF Set
<1> HIDE DEF e
<1>3. /\ Append(inside[t], e) \in Seq(Uses)
      /\ Len(Append(inside[t], e)) = Len(inside[t]) + 1
      /\ Append(inside[t], e)[Len(inside[t]) + 1] = e
      /\ \A i \in 1 .. Len(inside[t]) : Append(inside[t], e)[i] = inside[t][i]
  BY <1>1, AppendProperties
<1>4. \A s \in Tasks : Len(inside[s]) \in Nat
  BY <1>1
<1>5. inside'[t] = Append(inside[t], e)
  BY <1>1, <1>2
<1> QED
  BY <1>1, <1>2, <1>3, <1>4, <1>5 DEF e

LEMMA SetKeepsTypes ==
    ASSUME TypeOK, NEW t \in Tasks, NEW r \in Refs,
           NEW hash \in {Latest} \cup Blocks, Set(t, r, hash)
    PROVE  /\ ctx' \in [Tasks -> {Latest} \cup Blocks]
           /\ token' \in [Refs -> [by : Tasks \cup {"nobody"},
                                   old : {Latest} \cup Blocks, used : BOOLEAN]]
           /\ inside' \in [Tasks -> Seq([ref : Refs, hash : {Latest} \cup Blocks])]
<1>1. inside' \in [Tasks -> Seq([ref : Refs, hash : {Latest} \cup Blocks])]
  BY SetAddsLevel DEF Uses
<1> QED
  BY <1>1 DEF TypeOK, Set

LEMMA SetKeepsNesting ==
    ASSUME NestingInv, NEW t \in Tasks, NEW r \in Refs,
           NEW hash \in {Latest} \cup Blocks, Set(t, r, hash), TypeOK',
           UNCHANGED raised
    PROVE  NestingInv'
<1>0. TypeOK
  BY DEF NestingInv
<1> PICK n \in Nat : n = Len(inside[t])
  BY <1>0, SetAddsLevel
<1>1. /\ \A s \in Tasks : Len(inside[s]) \in Nat
      /\ \A s \in Tasks \ {t} : inside'[s] = inside[s]
      /\ Len(inside'[t]) = n + 1
      /\ inside'[t][n + 1] = [ref |-> r, hash |-> hash]
      /\ \A i \in 1 .. n : inside'[t][i] = inside[t][i]
  BY <1>0, SetAddsLevel
<1>2. /\ ctx' = [ctx EXCEPT ![t] = hash]
      /\ token' = [token EXCEPT ![r] = [by |-> t, old |-> ctx[t], used |-> FALSE]]
  BY DEF Set
<1>3. ReadsFollowNesting'
  <2> SUFFICES ASSUME NEW s \in Tasks \ raised PROVE ctx'[s] = Expected(s)'
    BY DEF ReadsFollowNesting
  <2>1. CASE s = t
    <3>1. ctx'[s] = hash
      BY <1>0, <1>2, <2>1 DEF TypeOK
    <3>2. inside'[t] # <<>>
      BY <1>1
    <3> QED
      BY <3>1, <3>2, <1>1, <2>1 DEF Expected, Last
  <2>2. CASE s # t
    BY <1>0, <1>1, <1>2, <2>2 DEF Expected, Last, NestingInv, TypeOK,
       ReadsFollowNesting
  <2> QED
    BY <2>1, <2>2
<1>4. TokensRestore'
  <2> SUFFICES ASSUME NEW s \in Tasks \ raised, NEW q \in Refs,
                      token'[q].by = s, ~ token'[q].used
               PROVE  \E i \in 1 .. Len(inside'[s]) :
                        Innermost(s, q, i)' /\ token'[q].old = Level(s, i - 1)'
    BY DEF TokensRestore
  <2>1. CASE q = r
    <3>1. s = t /\ token'[q].old = ctx[t]
      BY <1>0, <1>2, <2>1 DEF TypeOK
    <3>2. ctx[t] = Expected(t)
      BY <3>1 DEF NestingInv, ReadsFollowNesting
    <3>3. Expected(t) = Level(t, n)
      BY <1>0 DEF TypeOK, Expected, Last, Level
    <3>4. Innermost(t, r, n + 1)'
      BY <1>1 DEF Innermost
    <3>5. Level(t, n)' = Level(t, n)
      BY <1>1 DEF Level
    <3>6. Level(t, (n + 1) - 1)' = Level(t, n)' /\ n + 1 \in 1 .. Len(inside'[t])
      BY <1>1
    <3> QED
      BY <3>1, <3>2, <3>3, <3>4, <3>5, <3>6, <2>1
  <2>2. CASE q # r
    <3>1. token'[q] = token[q]
      BY <1>0, <1>2, <2>2 DEF TypeOK
    <3>2. PICK i \in 1 .. Len(inside[s]) :
            Innermost(s, q, i) /\ token[q].old = Level(s, i - 1)
      BY <3>1 DEF NestingInv, TokensRestore
    <3>3. CASE s = t
      <4>1. i \in 1 .. n + 1 /\ i - 1 \in 0 .. n /\ i \in 1 .. n
        BY <3>3, <1>1
      <4>2. inside'[t][i].ref = q
        BY <4>1, <3>2, <3>3, <1>1 DEF Innermost
      <4>3. ASSUME NEW j \in i + 1 .. n + 1 PROVE inside'[t][j].ref # q
        <5>1. CASE j = n + 1
          BY <5>1, <1>1, <2>2
        <5>2. CASE j # n + 1
          <6>1. j \in 1 .. n /\ j \in i + 1 .. n
            BY <4>1, <5>2
          <6> QED
            BY <6>1, <3>2, <3>3, <1>1 DEF Innermost
        <5> QED
          BY <5>1, <5>2
      <4>4. Innermost(s, q, i)'
        BY <4>2, <4>3, <3>3, <1>1 DEF Innermost
      <4>5. Level(s, i - 1)' = Level(s, i - 1)
        BY SMTT(30), <4>1, <3>3, <1>1 DEF Level
      <4> QED
        BY <3>1, <3>2, <3>3, <4>1, <4>4, <4>5, <1>1
    <3>4. CASE s # t
      <4>1. Innermost(s, q, i)' /\ Level(s, i - 1)' = Level(s, i - 1)
            /\ inside'[s] = inside[s]
        BY <3>2, <3>4, <1>1 DEF Innermost, Level
      <4> QED
        BY <3>1, <3>2, <4>1
    <3> QED
      BY <3>3, <3>4
  <2> QED
    BY <2>1, <2>2
<1> QED
  BY <1>3, <1>4 DEF NestingInv

\* Leaving the innermost block.
LEMMA LeftDropsLevel ==
    ASSUME TypeOK, NEW t \in Tasks, inside[t] # <<>>, Left(t)
    PROVE  /\ inside' \in [Tasks -> Seq(Uses)]
           /\ \A s \in Tasks : Len(inside[s]) \in Nat
           /\ \A s \in Tasks \ {t} : inside'[s] = inside[s]
           /\ Len(inside[t]) \in Nat \ {0}
           /\ Len(inside'[t]) = Len(inside[t]) - 1
           /\ \A i \in 1 .. Len(inside[t]) - 1 : inside'[t][i] = inside[t][i]
           /\ Last(t) \in Uses
<1>1. inside \in [Tasks -> Seq(Uses)]
  BY DEF TypeOK, Uses
<1>2. inside' = [inside EXCEPT ![t] = SubSeq(inside[t], 1, Len(inside[t]) - 1)]
  BY DEF Left
<1>3. inside[t] \in Seq(Uses)
  BY <1>1
<1>4. /\ Len(inside[t]) \in Nat \ {0}
      /\ inside[t][Len(inside[t])] \in Uses
      /\ SubSeq(inside[t], 1, Len(inside[t]) - 1) \in Seq(Uses)
      /\ Len(SubSeq(inside[t], 1, Len(inside[t]) - 1)) = Len(inside[t]) - 1
      /\ \A i \in 1 .. Len(inside[t]) - 1 :
           SubSeq(inside[t], 1, Len(inside[t]) - 1)[i] = inside[t][i]
  BY <1>3, Shortened
<1>5. inside'[t] = SubSeq(inside[t], 1, Len(inside[t]) - 1)
  BY <1>1, <1>2
<1>6. \A s \in Tasks : Len(inside[s]) \in Nat
  BY <1>1
<1>7. inside' \in [Tasks -> Seq(Uses)] /\ \A s \in Tasks \ {t} : inside'[s] = inside[s]
  BY <1>1, <1>2, <1>4
<1> QED
  BY <1>4, <1>5, <1>6, <1>7 DEF Last

LEMMA LeaveKeepsTypes ==
    ASSUME TypeOK, NEW t \in Tasks, Leave(t) \/ LeaveRaises(t)
    PROVE  TypeOK'
<1>1. inside[t] # <<>> /\ Left(t)
  BY DEF Leave, LeaveRaises, Leaves
<1>2. Last(t).ref \in Refs
      /\ inside' \in [Tasks -> Seq([ref : Refs, hash : {Latest} \cup Blocks])]
  BY <1>1, LeftDropsLevel DEF Uses
<1>3. CASE Leave(t)
  BY ZenonT(40), <1>2, <1>3 DEF Leave, Restored, TypeOK
<1>4. CASE LeaveRaises(t)
  BY <1>2, <1>4 DEF LeaveRaises, TypeOK
<1> QED
  BY <1>3, <1>4

LEMMA LeaveKeepsNesting ==
    ASSUME NestingInv, NEW t \in Tasks, Leave(t)
    PROVE  NestingInv'
<1> DEFINE r == Last(t).ref
           n == Len(inside[t])
<1>1. TypeOK'
  BY LeaveKeepsTypes DEF NestingInv
<1>2. inside[t] # <<>> /\ Left(t)
  BY DEF Leave, Leaves
<1>3. /\ r \in Refs
      /\ n \in Nat \ {0}
      /\ Len(inside'[t]) = n - 1
      /\ \A i \in 1 .. n - 1 : inside'[t][i] = inside[t][i]
      /\ \A s \in Tasks \ {t} : inside'[s] = inside[s]
      /\ \A s \in Tasks : Len(inside[s]) \in Nat
  BY <1>2, LeftDropsLevel DEF NestingInv, Uses
<1>4. /\ ctx' = [ctx EXCEPT ![t] = token[r].old]
      /\ token' = [token EXCEPT ![r].used = TRUE]
      /\ token[r].by = t /\ ~ token[r].used
      /\ raised' = raised
  BY DEF Leave, Restored
<1>5. t \notin raised => token[r].old = Level(t, n - 1)
  <2> SUFFICES ASSUME t \notin raised PROVE token[r].old = Level(t, n - 1)
    OBVIOUS
  <2>1. PICK i \in 1 .. n : Innermost(t, r, i) /\ token[r].old = Level(t, i - 1)
    BY <1>3, <1>4 DEF NestingInv, TokensRestore
  <2>2. i = n
    BY <2>1, <1>3 DEF Innermost, Last
  <2> QED
    BY <2>1, <2>2
<1>6. ReadsFollowNesting'
  <2> SUFFICES ASSUME NEW s \in Tasks \ raised PROVE ctx'[s] = Expected(s)'
    BY <1>4 DEF ReadsFollowNesting
  <2>1. CASE s = t
    <3>1. ctx'[s] = Level(t, n - 1)
      BY <1>4, <1>5, <2>1 DEF NestingInv, TypeOK
    <3>2. inside'[t] = <<>> <=> n - 1 = 0
      BY <1>1, <1>3, EmptySeq DEF TypeOK
    <3>3. Expected(t)' = Level(t, n - 1)
      BY <3>2, <1>3 DEF Expected, Last, Level
    <3> QED
      BY <3>1, <3>3, <2>1
  <2>2. CASE s # t
    BY <1>3, <1>4, <2>2 DEF Expected, Last, NestingInv, TypeOK, ReadsFollowNesting
  <2> QED
    BY <2>1, <2>2
<1>7. TokensRestore'
  <2> SUFFICES ASSUME NEW s \in Tasks \ raised, NEW q \in Refs,
                      token'[q].by = s, ~ token'[q].used
               PROVE  \E i \in 1 .. Len(inside'[s]) :
                        Innermost(s, q, i)' /\ token'[q].old = Level(s, i - 1)'
    BY <1>4 DEF TokensRestore
  <2>1. q # r /\ token'[q] = token[q]
    BY <1>4 DEF NestingInv, TypeOK
  <2>2. PICK i \in 1 .. Len(inside[s]) :
          Innermost(s, q, i) /\ token[q].old = Level(s, i - 1)
    BY <2>1 DEF NestingInv, TokensRestore
  <2>3. s = t => i # n
    BY <2>1, <2>2 DEF Innermost, Last
  <2>4. i \in 1 .. Len(inside'[s]) /\ Innermost(s, q, i)'
    <3>1. CASE s = t
      <4>1. i \in 1 .. n - 1
        BY <1>3, <2>2, <2>3, <3>1
      <4>2. \A j \in i + 1 .. n - 1 : j \in 1 .. n - 1 /\ j \in i + 1 .. n
        BY <1>3, <4>1
      <4> QED
        BY <1>3, <2>2, <3>1, <4>1, <4>2 DEF Innermost
    <3>2. CASE s # t
      BY <1>3, <2>2, <3>2 DEF Innermost
    <3> QED
      BY <3>1, <3>2
  <2>5. Level(s, i - 1)' = Level(s, i - 1)
    BY <1>3, <2>2, <2>3 DEF Level
  <2> QED
    BY <2>1, <2>2, <2>4, <2>5
<1> QED
  BY <1>1, <1>6, <1>7 DEF NestingInv

LEMMA LeaveRaisesKeepsNesting ==
    ASSUME NestingInv, NEW t \in Tasks, LeaveRaises(t)
    PROVE  NestingInv'
<1>1. TypeOK'
  BY LeaveKeepsTypes DEF NestingInv
<1>2. inside[t] # <<>> /\ Left(t)
  BY DEF LeaveRaises, Leaves
<1>3. \A s \in Tasks \ {t} : inside'[s] = inside[s]
  BY <1>2, LeftDropsLevel DEF NestingInv
<1>4. raised' = raised \cup {t} /\ ctx' = ctx /\ token' = token
  BY DEF LeaveRaises
<1>5. ReadsFollowNesting'
  BY <1>3, <1>4 DEF ReadsFollowNesting, Expected, Last, NestingInv
<1>6. TokensRestore'
  BY <1>3, <1>4 DEF TokensRestore, Innermost, Level, NestingInv
<1> QED
  BY <1>1, <1>5, <1>6 DEF NestingInv

-----------------------------------------------------------------------------

LEMMA StepKeepsNesting == NestingInv /\ [Next]_vars => NestingInv'
<1> SUFFICES ASSUME NestingInv, [Next]_vars PROVE NestingInv'
  OBVIOUS
<1>0. TypeOK
  BY DEF NestingInv
<1>1. ASSUME NEW t \in Tasks, NEW r \in Refs, EnterByHash(t, r) PROVE NestingInv'
  <2>1. Number[r] \in {Latest} \cup Blocks
    BY BlockContextAssumption, <1>0, <1>1 DEF EnterByHash, Blocks, TypeOK
  <2>2. Set(t, r, Number[r]) /\ UNCHANGED <<head, entering, raised>>
    BY <1>1 DEF EnterByHash
  <2>3. TypeOK'
    BY <1>0, <2>1, <2>2, SetKeepsTypes DEF TypeOK
  <2> QED
    BY <2>1, <2>2, <2>3, SetKeepsNesting
<1>2. ASSUME NEW t \in Tasks, NEW r \in Refs, Enter(t, r) PROVE NestingInv'
  <2>1. TypeOK'
    BY BlockContextAssumption, <1>0, <1>2 DEF Enter, TypeOK
  <2> QED
    BY <1>2, <2>1, FrameKeepsNesting DEF Enter
<1>3. ASSUME NEW t \in Tasks, GetHeader(t) PROVE NestingInv'
  <2>1. TypeOK'
    <3>1. head \in -1 .. MaxHead /\ entering[t] # Nothing
      BY BlockContextAssumption, <1>0, <1>3 DEF GetHeader, TypeOK, Blocks, Nothing,
         Latest
    <3>2. entering[t] \in [ref : Refs, number : -1 .. MaxHead]
      BY <1>0, <3>1 DEF TypeOK
    <3>3. [entering[t] EXCEPT !.number = head]
            \in [ref : Refs, number : -1 .. MaxHead]
      BY <3>1, <3>2
    <3>4. entering' = [entering EXCEPT ![t] = [entering[t] EXCEPT !.number = head]]
      BY <1>3 DEF GetHeader, BestNumber
    <3>5. entering' \in [Tasks -> [ref : Refs, number : -1 .. MaxHead] \cup {Nothing}]
      BY <1>0, <3>3, <3>4 DEF TypeOK
    <3> QED
      BY <1>0, <1>3, <3>5 DEF GetHeader, TypeOK
  <2> QED
    BY <1>3, <2>1, FrameKeepsNesting DEF GetHeader
<1>4. ASSUME NEW t \in Tasks, GetBlockHash(t) PROVE NestingInv'
  <2> DEFINE r == entering[t].ref
             hash == Hash(entering[t].number)
  <2>1. entering[t] # Nothing /\ entering[t].number \in -1 .. MaxHead
        /\ entering[t].number # -1
    BY <1>0, <1>4 DEF GetBlockHash, TypeOK, Nothing
  <2>2. hash \in {Latest} \cup Blocks
    BY BlockContextAssumption, <1>0, <2>1 DEF Hash, Blocks, Latest, TypeOK
  <2>3. r \in Refs
    BY <1>0, <1>4 DEF GetBlockHash, TypeOK, Nothing
  <2>4. Set(t, r, hash) /\ UNCHANGED <<head, raised>>
        /\ entering' = [entering EXCEPT ![t] = Nothing]
    BY <1>4 DEF GetBlockHash
  <2>5. TypeOK'
    BY <1>0, <2>2, <2>3, <2>4, SetKeepsTypes DEF TypeOK, Nothing, Latest
  <2> QED
    BY <2>2, <2>3, <2>4, <2>5, SetKeepsNesting
<1>5. ASSUME NEW t \in Tasks, EnterFails(t) PROVE NestingInv'
  <2>1. TypeOK'
    BY <1>0, <1>5 DEF EnterFails, TypeOK, Nothing, Latest
  <2> QED
    BY <1>5, <2>1, FrameKeepsNesting DEF EnterFails
<1>6. ASSUME NewBlock PROVE NestingInv'
  <2>1. TypeOK'
    <3>1. head' \in Blocks
      BY BlockContextAssumption, <1>0, <1>6 DEF NewBlock, TypeOK, Blocks
    <3> QED
      BY <1>0, <1>6, <3>1 DEF NewBlock, TypeOK
  <2> QED
    BY <1>6, <2>1, FrameKeepsNesting DEF NewBlock
<1>7. CASE UNCHANGED vars
  <2>1. TypeOK'
    BY <1>0, <1>7 DEF vars, TypeOK
  <2> QED
    BY <1>7, <2>1, FrameKeepsNesting DEF vars
<1> QED
  BY <1>1, <1>2, <1>3, <1>4, <1>5, <1>6, <1>7, LeaveKeepsNesting,
     LeaveRaisesKeepsNesting DEF Next

\* The reads of a task go to the block it entered last and has not left, as long
\* as no __aexit__ has raised in it.
THEOREM NestingCorrect == Spec => [](TypeOK /\ ReadsFollowNesting)
<1>1. NestingInv => TypeOK /\ ReadsFollowNesting
  BY DEF NestingInv
<1> QED
  BY <1>1, InitNesting, StepKeepsNesting, PTL DEF Spec

-----------------------------------------------------------------------------
(* What goes wrong, and only so.                                             *)

InsideOf(t, r) == \E i \in 1 .. Len(inside[t]) : inside[t][i].ref = r

\* A reference that is never entered again while it is in use has one user at
\* most, and one use: it is being entered, or its token is of that use.
Exclusive ==
    \A r \in Refs \ Shared, t \in Tasks :
        /\ entering[t].ref = r =>
             \A s \in Tasks : ~ InsideOf(s, r) /\ (entering[s].ref = r => s = t)
        /\ \A i \in 1 .. Len(inside[t]) : inside[t][i].ref = r =>
             /\ token[r].by = t /\ ~ token[r].used
             /\ \A j \in 1 .. Len(inside[t]) : inside[t][j].ref = r => j = i

\* The number a task enters a block with is that of its reference, or of a
\* block that was the best one.
EntersItsOwn ==
    \A t \in Tasks : entering[t] # Nothing =>
        \/ entering[t].number = Number[entering[t].ref]
        \/ entering[t].number \in 0 .. head

EnteringInv == Exclusive /\ EntersItsOwn

LEMMA InitEntering == Init => EnteringInv
BY BlockContextAssumption DEF Init, EnteringInv, Exclusive, EntersItsOwn, InsideOf,
   Nothing

\* The task that has begun to use a reference no other one uses is its user.
LEMMA SetKeepsExclusive ==
    ASSUME TypeOK, Exclusive, NEW t \in Tasks, NEW r \in Refs,
           NEW hash \in {Latest} \cup Blocks, Set(t, r, hash),
           \A s \in Tasks : entering'[s] = entering[s] \/ entering'[s] = Nothing,
           r \notin Shared => \A s \in Tasks : ~ InsideOf(s, r) /\ entering'[s].ref # r
    PROVE  Exclusive'
<1> SUFFICES ASSUME NEW q \in Refs \ Shared, NEW u \in Tasks
             PROVE  /\ entering'[u].ref = q =>
                         \A s \in Tasks : ~ InsideOf(s, q)' /\ (entering'[s].ref = q => s = u)
                    /\ \A i \in 1 .. Len(inside'[u]) : inside'[u][i].ref = q =>
                         /\ token'[q].by = u /\ ~ token'[q].used
                         /\ \A j \in 1 .. Len(inside'[u]) : inside'[u][j].ref = q => j = i
  BY DEF Exclusive
<1> PICK n \in Nat : n = Len(inside[t])
  BY SetAddsLevel
<1>1. /\ \A s \in Tasks : Len(inside[s]) \in Nat
      /\ \A s \in Tasks \ {t} : inside'[s] = inside[s]
      /\ Len(inside'[t]) = n + 1
      /\ inside'[t][n + 1].ref = r
      /\ \A i \in 1 .. n : inside'[t][i] = inside[t][i]
  <2>1. inside'[t][n + 1] = [ref |-> r, hash |-> hash]
    BY SetAddsLevel
  <2> QED
    BY <2>1, SetAddsLevel
<1>2. /\ token'[r].by = t /\ ~ token'[r].used
      /\ q # r => token'[q] = token[q]
  BY DEF Set, TypeOK
<1>3. \A i \in 1 .. n + 1 : i # n + 1 => i \in 1 .. n
  OBVIOUS
<1>4. CASE q = r
  <2>1. \A s \in Tasks : ~ InsideOf(s, r) /\ entering'[s].ref # r
    BY <1>4
  <2>2. \A i \in 1 .. n : inside[t][i].ref # r
    BY <2>1 DEF InsideOf
  <2>3. \A i \in 1 .. Len(inside'[u]) : inside'[u][i].ref = q => u = t /\ i = n + 1
    <3>1. CASE u = t
      BY <3>1, <1>1, <1>3, <1>4, <2>2
    <3>2. CASE u # t
      BY <3>2, <1>1, <1>4, <2>1 DEF InsideOf
    <3> QED
      BY <3>1, <3>2
  <2> QED
    BY <1>2, <1>4, <2>1, <2>3
<1>5. CASE q # r
  <2>1. \A s \in Tasks : \A i \in 1 .. Len(inside'[s]) : inside'[s][i].ref = q =>
          i \in 1 .. Len(inside[s]) /\ inside[s][i].ref = q
    <3> SUFFICES ASSUME NEW s \in Tasks, NEW i \in 1 .. Len(inside'[s]),
                        inside'[s][i].ref = q
                 PROVE  i \in 1 .. Len(inside[s]) /\ inside[s][i].ref = q
      OBVIOUS
    <3>1. CASE s = t
      BY <3>1, <1>1, <1>3, <1>5
    <3>2. CASE s # t
      BY <3>2, <1>1
    <3> QED
      BY <3>1, <3>2
  <2>2. \A s \in Tasks : entering'[s].ref = q => entering[s].ref = q
    BY BlockContextAssumption DEF Nothing
  <2>3. \A s \in Tasks : InsideOf(s, q)' => InsideOf(s, q)
    BY <2>1 DEF InsideOf
  <2>4. entering'[u].ref = q =>
          \A s \in Tasks : ~ InsideOf(s, q)' /\ (entering'[s].ref = q => s = u)
    BY <2>2, <2>3 DEF Exclusive
  <2>5. ASSUME NEW i \in 1 .. Len(inside'[u]), inside'[u][i].ref = q
        PROVE  /\ token'[q].by = u /\ ~ token'[q].used
               /\ \A j \in 1 .. Len(inside'[u]) : inside'[u][j].ref = q => j = i
    BY <2>1, <2>5, <1>2, <1>5 DEF Exclusive
  <2> QED
    BY <2>4, <2>5
<1> QED
  BY <1>4, <1>5

\* Leaving a reference that nobody entered again ends its only use; of the
\* others, fewer uses are left.
LEMMA LeaveKeepsExclusive ==
    ASSUME TypeOK, Exclusive, NEW t \in Tasks, Leave(t) \/ LeaveRaises(t)
    PROVE  Exclusive'
<1> SUFFICES ASSUME NEW q \in Refs \ Shared, NEW u \in Tasks
             PROVE  /\ entering'[u].ref = q =>
                         \A s \in Tasks : ~ InsideOf(s, q)' /\ (entering'[s].ref = q => s = u)
                    /\ \A i \in 1 .. Len(inside'[u]) : inside'[u][i].ref = q =>
                         /\ token'[q].by = u /\ ~ token'[q].used
                         /\ \A j \in 1 .. Len(inside'[u]) : inside'[u][j].ref = q => j = i
  BY DEF Exclusive
<1> DEFINE n == Len(inside[t])
<1>0. inside[t] # <<>> /\ Left(t) /\ entering' = entering
  BY DEF Leave, LeaveRaises, Leaves
<1>1. /\ n \in Nat \ {0}
      /\ Len(inside'[t]) = n - 1
      /\ \A i \in 1 .. n - 1 : inside'[t][i] = inside[t][i]
      /\ \A s \in Tasks \ {t} : inside'[s] = inside[s]
      /\ Last(t).ref \in Refs
  BY <1>0, LeftDropsLevel DEF Uses
<1>2. \A s \in Tasks : \A i \in 1 .. Len(inside'[s]) :
        inside'[s][i] = inside[s][i] /\ i \in 1 .. Len(inside[s])
        /\ (s = t => i # n)
  <2> SUFFICES ASSUME NEW s \in Tasks, NEW i \in 1 .. Len(inside'[s])
               PROVE  inside'[s][i] = inside[s][i] /\ i \in 1 .. Len(inside[s])
                      /\ (s = t => i # n)
    OBVIOUS
  <2>1. CASE s = t
    BY <2>1, <1>1
  <2>2. CASE s # t
    BY <2>2, <1>1
  <2> QED
    BY <2>1, <2>2
<1>3. \A s \in Tasks : InsideOf(s, q)' => InsideOf(s, q)
  BY <1>2 DEF InsideOf
<1>4. entering'[u].ref = q =>
        \A s \in Tasks : ~ InsideOf(s, q)' /\ (entering'[s].ref = q => s = u)
  BY <1>0, <1>3 DEF Exclusive
<1>5. ASSUME NEW i \in 1 .. Len(inside'[u]), inside'[u][i].ref = q
      PROVE  /\ token'[q].by = u /\ ~ token'[q].used
             /\ \A j \in 1 .. Len(inside'[u]) : inside'[u][j].ref = q => j = i
  <2>1. /\ inside[u][i].ref = q /\ i \in 1 .. Len(inside[u])
        /\ token[q].by = u /\ ~ token[q].used
        /\ \A j \in 1 .. Len(inside[u]) : inside[u][j].ref = q => j = i
    BY <1>2, <1>5 DEF Exclusive
  <2>2. token'[q] = token[q]
    <3>1. CASE Leave(t)
      <4>1. token' = [token EXCEPT ![Last(t).ref].used = TRUE]
            /\ token[Last(t).ref].by = t
        BY <3>1 DEF Leave
      <4>2. CASE u = t
        <5>1. Last(t).ref # q
          BY <1>1, <1>2, <2>1, <4>2 DEF Last
        <5> QED
          BY <4>1, <5>1 DEF TypeOK
      <4>3. CASE u # t
        BY <2>1, <4>1, <4>3 DEF TypeOK
      <4> QED
        BY <4>2, <4>3
    <3>2. CASE LeaveRaises(t)
      BY <3>2 DEF LeaveRaises
    <3> QED
      BY <3>1, <3>2
  <2> QED
    BY <1>2, <2>1, <2>2
<1> QED
  BY <1>4, <1>5

\* A step after which less is being entered, and nothing else has changed.
LEMMA FrameKeepsExclusive ==
    ASSUME Exclusive, UNCHANGED <<token, inside>>,
           \A s \in Tasks : entering'[s] = Nothing \/ entering'[s].ref = entering[s].ref
    PROVE  Exclusive'
BY BlockContextAssumption DEF Exclusive, InsideOf, Nothing

LEMMA StepKeepsEntering ==
    ASSUME TypeOK, EnteringInv, [Next]_vars
    PROVE  EnteringInv'
<1> USE DEF EnteringInv
<1>0. head \in Nat /\ head' \in Nat /\ head <= head'
  <2>1. head' = head \/ head' = head + 1
    BY DEF Next, vars, EnterByHash, Enter, GetHeader, GetBlockHash, EnterFails,
       Leave, LeaveRaises, NewBlock
  <2> QED
    BY <2>1, BlockContextAssumption DEF TypeOK, Blocks
<1>1. ASSUME NEW t \in Tasks, NEW r \in Refs, EnterByHash(t, r)
      PROVE  EnteringInv'
  <2>1. Number[r] \in {Latest} \cup Blocks
    BY BlockContextAssumption, <1>1 DEF EnterByHash, Blocks, TypeOK
  <2>2. r \notin Shared => \A s \in Tasks : ~ InsideOf(s, r) /\ entering'[s].ref # r
    BY <1>1 DEF EnterByHash, MayEnter, InUse, InsideOf
  <2>3. Exclusive'
    BY <1>1, <2>1, <2>2, SetKeepsExclusive DEF EnterByHash
  <2> QED
    BY <1>1, <2>3 DEF EnterByHash, EntersItsOwn
<1>2. ASSUME NEW t \in Tasks, NEW r \in Refs, Enter(t, r)
      PROVE  EnteringInv'
  <2>1. entering' = [entering EXCEPT ![t] = [ref |-> r, number |-> Number[r]]]
        /\ UNCHANGED <<head, token, inside>>
    BY <1>2 DEF Enter
  <2>2. r \notin Shared => \A s \in Tasks : ~ InsideOf(s, r) /\ entering[s].ref # r
    BY <1>2 DEF Enter, MayEnter, InUse, InsideOf
  <2>3. entering'[t] = [ref |-> r, number |-> Number[r]]
        /\ \A s \in Tasks \ {t} : entering'[s] = entering[s]
    BY <2>1 DEF TypeOK
  <2>4. Exclusive'
    BY <2>1, <2>2, <2>3 DEF Exclusive, InsideOf
  <2>5. EntersItsOwn'
    BY <2>1, <2>3 DEF EntersItsOwn
  <2> QED
    BY <2>4, <2>5
<1>3. ASSUME NEW t \in Tasks, GetHeader(t) PROVE EnteringInv'
  <2>1. entering' = [entering EXCEPT ![t].number = head] /\ entering[t] # Nothing
        /\ UNCHANGED <<head, token, inside>>
    BY <1>3 DEF GetHeader, BestNumber
  <2>2. entering[t] \in [ref : Refs, number : -1 .. MaxHead]
    BY <2>1 DEF TypeOK
  <2>3. entering'[t].ref = entering[t].ref /\ entering'[t].number = head
        /\ \A s \in Tasks \ {t} : entering'[s] = entering[s]
    BY <2>1, <2>2 DEF TypeOK
  <2>4. Exclusive'
    BY <2>1, <2>3, FrameKeepsExclusive
  <2>5. EntersItsOwn'
    BY <1>0, <2>1, <2>3 DEF EntersItsOwn
  <2> QED
    BY <2>4, <2>5
<1>4. ASSUME NEW t \in Tasks, GetBlockHash(t) PROVE EnteringInv'
  <2> DEFINE r == entering[t].ref
             hash == Hash(entering[t].number)
  <2>1. entering[t] \in [ref : Refs, number : -1 .. MaxHead]
        /\ entering[t].number # -1
    BY <1>4 DEF GetBlockHash, TypeOK
  <2>2. hash \in {Latest} \cup Blocks /\ r \in Refs
    BY BlockContextAssumption, <2>1 DEF Hash, Blocks, Latest, TypeOK
  <2>3. Set(t, r, hash) /\ head' = head
        /\ entering' = [entering EXCEPT ![t] = Nothing]
    BY <1>4 DEF GetBlockHash
  <2>4. entering'[t] = Nothing /\ \A s \in Tasks \ {t} : entering'[s] = entering[s]
    BY <2>3 DEF TypeOK
  <2>5. r \notin Shared => \A s \in Tasks : ~ InsideOf(s, r) /\ entering'[s].ref # r
    BY <2>2, <2>4, BlockContextAssumption DEF Exclusive, Nothing
  <2>6. Exclusive'
    BY <2>2, <2>3, <2>4, <2>5, SetKeepsExclusive
  <2> QED
    BY <2>3, <2>4, <2>6 DEF EntersItsOwn
<1>5. ASSUME NEW t \in Tasks, EnterFails(t) PROVE EnteringInv'
  <2>1. entering' = [entering EXCEPT ![t] = Nothing] /\ UNCHANGED <<head, token, inside>>
    BY <1>5 DEF EnterFails
  <2>2. \A s \in Tasks : entering'[s] = Nothing \/ entering'[s] = entering[s]
    BY <2>1 DEF TypeOK
  <2> QED
    BY <2>1, <2>2, FrameKeepsExclusive DEF EntersItsOwn
<1>6. ASSUME NEW t \in Tasks, Leave(t) \/ LeaveRaises(t) PROVE EnteringInv'
  <2>1. UNCHANGED <<head, entering>>
    BY <1>6 DEF Leave, LeaveRaises
  <2> QED
    BY <1>6, <2>1, LeaveKeepsExclusive DEF EntersItsOwn
<1>7. CASE NewBlock
  <2>1. UNCHANGED <<token, inside, entering>>
    BY <1>7 DEF NewBlock
  <2> QED
    BY <1>0, <2>1, FrameKeepsExclusive DEF EntersItsOwn
<1>8. CASE UNCHANGED vars
  BY <1>8, FrameKeepsExclusive DEF vars, EntersItsOwn
<1> QED
  BY <1>1, <1>2, <1>3, <1>4, <1>5, <1>6, <1>7, <1>8 DEF Next

\* What the invariant says of the two steps that go wrong.
LEMMA WrongStepsExplained ==
    ASSUME TypeOK, EnteringInv, NEW t \in Tasks
    PROVE  /\ LeaveRaises(t) => Last(t).ref \in Shared
           /\ GetBlockHash(t) /\ ctx'[t] = Latest => Number[entering[t].ref] > head
<1>1. ASSUME LeaveRaises(t) PROVE Last(t).ref \in Shared
  <2>1. inside[t] # <<>> /\ Left(t)
        /\ (token[Last(t).ref].by # t \/ token[Last(t).ref].used)
    BY <1>1 DEF LeaveRaises, Leaves
  <2>2. Last(t).ref \in Refs /\ Len(inside[t]) \in 1 .. Len(inside[t])
    BY <2>1, LeftDropsLevel DEF Uses
  <2> QED
    BY <2>1, <2>2 DEF EnteringInv, Exclusive, Last
<1>2. ASSUME GetBlockHash(t), ctx'[t] = Latest PROVE Number[entering[t].ref] > head
  <2>1. entering[t] # Nothing /\ entering[t] \in [ref : Refs, number : -1 .. MaxHead]
        /\ entering[t].number # -1 /\ head \in Nat
    BY <1>2 DEF GetBlockHash, TypeOK, Blocks
  <2>2. ctx'[t] = Hash(entering[t].number)
    BY <1>2 DEF GetBlockHash, Set, TypeOK
  <2>3. entering[t].number > head
    BY <1>2, <2>1, <2>2 DEF Hash, Latest
  <2> QED
    BY <2>1, <2>3 DEF EnteringInv, EntersItsOwn
<1> QED
  BY <1>1, <1>2

\* Leaving a block raises only in references that were entered again while in
\* use, and a read inside a block goes to the latest one only if the block's
\* number was ahead of the chain.
THEOREM OnlySharedOrFuture == Spec => OnlySharedOrFutureGoWrong
<1> DEFINE Explained ==
      \A t \in Tasks :
         /\ LeaveRaises(t) => Last(t).ref \in Shared
         /\ GetBlockHash(t) /\ ctx'[t] = Latest => Number[entering[t].ref] > head
<1>1. TypeOK /\ EnteringInv => [Explained]_vars
  BY WrongStepsExplained
<1> HIDE DEF Explained
<1>2. NestingInv => TypeOK
  BY DEF NestingInv
<1>3. Spec => [][Explained]_vars
  BY <1>1, <1>2, InitNesting, StepKeepsNesting, InitEntering, StepKeepsEntering,
     PTL DEF Spec
<1> QED
  BY <1>3 DEF OnlySharedOrFutureGoWrong, Explained

=============================================================================
