---------------------------- MODULE CacheProofs -----------------------------
(***************************************************************************)
(* Proofs about CacheTransport, for any requests and any max_size.         *)
(***************************************************************************)
EXTENDS CacheTransport, FiniteSetTheorems, SequenceTheorems, TLAPS

\* What the node has answered is what was asked.
AnswersInFlight ==
    \A t \in Calls :
        /\ call[t].stage \in {"sent", "served", "returned"} => call[t].req \in Request
        /\ call[t].stage \in {"served", "returned"} =>
             /\ call[t].got \in Response
             /\ call[t].got.method = call[t].req.method
             /\ call[t].req.hash # Latest => call[t].got.at = call[t].req.hash

CallsTyped ==
    /\ head \in Blocks
    /\ call \in [Calls -> [stage : Stages, req : Request \cup {Absent},
                           got : Response \cup {Absent}]]
    /\ cached \in [Keys -> Response \cup {Absent}]

IInv == CallsTyped /\ AnswersInFlight /\ EntriesAnswerTheirKey

\* The dict starts empty, and no call has begun.
LEMMA InitEstablishes == Init => IInv
BY CacheAssumption DEF Init, IInv, CallsTyped, AnswersInFlight,
   EntriesAnswerTheirKey, Stages, Blocks

\* Evicting an entry and storing the answer to a request under the request's
\* key leaves entries that answer their keys.
LEMMA StoreKeeps ==
    ASSUME CallsTyped, EntriesAnswerTheirKey,
           NEW q \in Request, NEW response \in Response,
           response.method = q.method, ~ response.error,
           q.hash # Latest => response.at = q.hash,
           Store(Key(q), response)
    PROVE  /\ cached' \in [Keys -> Response \cup {Absent}]
           /\ EntriesAnswerTheirKey'
BY DEF Store, Key, Keys, CallsTyped, EntriesAnswerTheirKey

\* Every step keeps the invariant.
LEMMA StepKeeps == IInv /\ [Next]_vars => IInv'
<1> SUFFICES ASSUME IInv, [Next]_vars PROVE IInv'
  OBVIOUS
<1> USE DEF IInv
<1>1. ASSUME NEW t \in Calls, NEW q \in Request, Hit(t, q) PROVE IInv'
  <2>1. cached[q] \in Response
    BY <1>1 DEF Hit, CallsTyped, Keys, Key
  <2> QED
    BY <1>1, <2>1 DEF Hit, Key, Keys, CallsTyped, AnswersInFlight,
       EntriesAnswerTheirKey, Stages
<1>2. ASSUME NEW t \in Calls, NEW q \in Request, Miss(t, q) PROVE IInv'
  BY <1>2 DEF Miss, CallsTyped, AnswersInFlight, EntriesAnswerTheirKey, Stages
<1>3. ASSUME NEW t \in Calls, Return(t) PROVE IInv'
  <2>1. call' \in [Calls -> [stage : Stages, req : Request \cup {Absent},
                             got : Response \cup {Absent}]]
        /\ AnswersInFlight' /\ head' \in Blocks
    BY <1>3 DEF Return, CallsTyped, AnswersInFlight, Stages
  <2>2. CASE Remembered(t)
    BY <1>3, <2>1, <2>2, StoreKeeps DEF Return, CallsTyped, AnswersInFlight,
       Remembered
  <2>3. CASE ~ Remembered(t)
    BY <1>3, <2>1, <2>3 DEF Return, CallsTyped, EntriesAnswerTheirKey
  <2> QED BY <2>2, <2>3
<1>4. ASSUME NEW t \in Calls, Fail(t) PROVE IInv'
  BY ZenonT(40), <1>4 DEF Fail, CallsTyped, AnswersInFlight, EntriesAnswerTheirKey, Stages
<1>5. ASSUME NEW t \in Calls, NEW error \in BOOLEAN, Serve(t, error) PROVE IInv'
  <2> DEFINE q == call[t].req
             at == IF q.hash = Latest THEN head ELSE q.hash
             got == [method |-> q.method, at |-> at, error |-> error]
  <2>1. q \in Request
    BY <1>5 DEF Serve, AnswersInFlight
  <2>2. got \in Response
    BY <2>1, <1>5 DEF CallsTyped, Request, Response
  <2> QED
    BY ZenonT(40), <1>5, <2>1, <2>2 DEF Serve, CallsTyped, AnswersInFlight,
       EntriesAnswerTheirKey, Stages
<1>6. CASE NewBlock
  <2>1. head' \in Blocks
    BY <1>6, CacheAssumption DEF NewBlock, Blocks, CallsTyped
  <2> QED
    BY <1>6, <2>1 DEF NewBlock, CallsTyped, AnswersInFlight, EntriesAnswerTheirKey
<1>7. CASE UNCHANGED vars
  BY <1>7 DEF vars, CallsTyped, AnswersInFlight, EntriesAnswerTheirKey
<1> QED
  BY <1>1, <1>2, <1>3, <1>4, <1>5, <1>6, <1>7 DEF Next

\* Whatever was stored, evicted or asked twice, a call gets the result of its
\* own request, and no error is answered from the dict.
THEOREM CacheCorrect == Spec => []RightAnswer
<1>1. IInv => RightAnswer
  BY DEF IInv, AnswersInFlight, RightAnswer, EntriesAnswerTheirKey
<1> QED
  BY InitEstablishes, StepKeeps, <1>1, PTL DEF Spec

-----------------------------------------------------------------------------
(* The order of the dict lists its entries                                 *)

Occurs(k, s) == \E i \in 1 .. Len(s) : s[i] = k

OneEach(s) == \A i, j \in 1 .. Len(s) : s[i] = s[j] => i = j

\* No unread key is before one that was read.
ReadFirst(s, R) == \A i, j \in 1 .. Len(s) : i < j /\ s[j] \in R => s[i] \in R

\* Each entry is in the order once, and nothing else is; those that have answered
\* a request are its first.
OrderInv ==
    /\ order \in Seq(Keys)
    /\ Len(order) <= MaxSize
    /\ OneEach(order)
    /\ \A k \in Keys : cached[k] # Absent <=> Occurs(k, order)
    /\ read \subseteq {k \in Keys : cached[k] # Absent}
    /\ ReadFirst(order, read)

LEMMA InitOrder == Init => OrderInv
<1> SUFFICES ASSUME Init PROVE OrderInv
  OBVIOUS
<1>1. order = <<>> /\ order \in Seq(Keys) /\ Len(order) = 0
  BY EmptySeq DEF Init
<1>2. 1 .. Len(order) = {}
  BY <1>1
<1> QED
  BY <1>1, <1>2, CacheAssumption DEF Init, OrderInv, OneEach, Occurs, ReadFirst

\* As many entries as the order is long.
LEMMA OrderCounts ==
    ASSUME OrderInv
    PROVE  /\ Len(order) = Cardinality({k \in Keys : cached[k] # Absent})
           /\ \A i \in 1 .. Len(order) : cached[order[i]] # Absent
<1> DEFINE E == {k \in Keys : cached[k] # Absent}
           D == 1 .. Len(order)
<1>1. /\ Len(order) \in Nat
      /\ order \in [D -> Keys]
  BY LenProperties DEF OrderInv
<1>2. \A i \in D : order[i] \in E
  BY <1>1 DEF OrderInv, Occurs
<1>3. \A k \in E : \E i \in D : order[i] = k
  BY DEF OrderInv, Occurs
<1>4. order \in [D -> E]
  BY <1>1, <1>2
<1>5. order \in Bijection(D, E)
  <2>1. \A i, j \in D : order[i] = order[j] => i = j
    BY DEF OrderInv, OneEach
  <2> HIDE DEF D, E
  <2> QED
    BY <1>3, <1>4, <2>1 DEF Bijection, Injection, Surjection, IsInjective
<1>6. IsFiniteSet(D) /\ Cardinality(D) = Len(order)
  <2>1. Cardinality(D) = IF 1 > Len(order) THEN 0 ELSE Len(order) - 1 + 1
    BY SMTT(30), <1>1, FS_Interval
  <2> QED
    BY SMTT(30), <1>1, <2>1, FS_Interval
<1>7. Cardinality(E) = Cardinality(D)
  <2>1. ExistsBijection(D, E)
    BY <1>5 DEF ExistsBijection
  <2> HIDE DEF D, E
  <2> QED
    BY <1>6, <2>1, FS_Bijection
<1> QED
  BY <1>2, <1>6, <1>7

\* move_to_end() keeps each entry once, and the others in their order.
LEMMA MoveKeepsOrder ==
    ASSUME OrderInv, NEW k \in Keys, cached[k] # Absent, MoveToFront(k)
    PROVE  /\ order' \in Seq(Keys)
           /\ Len(order') <= MaxSize
           /\ OneEach(order')
           /\ \A key \in Keys : Occurs(key, order) <=> Occurs(key, order')
           /\ ReadFirst(order', read \cup {k})
<1> PICK n \in Nat : n = Len(order)
  BY LenProperties DEF OrderInv
<1>a. PICK i \in 1 .. n :
      /\ order[i] = k
      /\ order' = <<k>> \o (SubSeq(order, 1, i - 1) \o SubSeq(order, i + 1, n))
  <2>1. \E i \in 1 .. Len(order) : order[i] = k
    BY DEF OrderInv, Occurs
  <2> QED
    BY <2>1 DEF MoveToFront, Without
<1> DEFINE A == SubSeq(order, 1, i - 1)
           B == SubSeq(order, i + 1, n)
<1>0. order \in Seq(Keys) /\ n <= MaxSize /\ OneEach(order)
      /\ ReadFirst(order, read)
      /\ \A j \in 1 .. n : order[j] \in Keys
  BY ElementOfSeq DEF OrderInv
<1>1. /\ A \in Seq(Keys) /\ Len(A) = i - 1
      /\ \A j \in 1 .. i - 1 : A[j] = order[j]
  <2>1. \A j \in 1 .. i - 1 : order[j] \in Keys
    BY <1>0
  <2>2. /\ A \in Seq(Keys)
        /\ Len(A) = IF 1 <= i - 1 THEN i - 1 - 1 + 1 ELSE 0
        /\ \A j \in 1 .. i - 1 - 1 + 1 : A[j] = order[1 + j - 1]
    BY <2>1, SubSeqProperties
  <2>3. Len(A) = i - 1
    BY <2>2
  <2> QED
    BY <2>2, <2>3
<1>2. /\ B \in Seq(Keys) /\ Len(B) = n - i
      /\ \A j \in 1 .. n - i : B[j] = order[i + j]
  <2>1. \A j \in i + 1 .. n : order[j] \in Keys
    BY <1>0
  <2>2. /\ B \in Seq(Keys)
        /\ Len(B) = IF i + 1 <= n THEN n - (i + 1) + 1 ELSE 0
        /\ \A j \in 1 .. n - (i + 1) + 1 : B[j] = order[i + 1 + j - 1]
    BY <2>1, SubSeqProperties
  <2>3. Len(B) = n - i
    BY <2>2
  <2> QED
    BY <2>2, <2>3
<1> HIDE DEF A, B
<1>3. /\ A \o B \in Seq(Keys) /\ Len(A \o B) = n - 1
      /\ \A j \in 1 .. n - 1 : (A \o B)[j] = IF j <= i - 1 THEN A[j] ELSE B[j - (i - 1)]
  <2>1. /\ A \o B \in Seq(Keys) /\ Len(A \o B) = Len(A) + Len(B)
        /\ \A j \in 1 .. Len(A) + Len(B) :
             (A \o B)[j] = IF j <= Len(A) THEN A[j] ELSE B[j - Len(A)]
    BY <1>1, <1>2, ConcatProperties
  <2> QED
    BY <1>1, <1>2, <2>1
<1>4. \A j \in 1 .. n - 1 : (A \o B)[j] = IF j < i THEN order[j] ELSE order[j + 1]
  <2> SUFFICES ASSUME NEW j \in 1 .. n - 1
               PROVE  (A \o B)[j] = IF j < i THEN order[j] ELSE order[j + 1]
    OBVIOUS
  <2>1. CASE j < i
    <3>1. j <= i - 1 /\ j \in 1 .. i - 1
      BY <2>1
    <3> QED
      BY <1>1, <1>3, <2>1, <3>1
  <2>2. CASE ~ (j < i)
    <3>1. ~ (j <= i - 1) /\ j - (i - 1) \in 1 .. n - i /\ i + (j - (i - 1)) = j + 1
      BY <2>2
    <3> QED
      BY <1>2, <1>3, <2>2, <3>1
  <2> QED
    BY <2>1, <2>2
<1> DEFINE C == A \o B
<1>5. /\ C \in Seq(Keys) /\ Len(C) = n - 1
      /\ \A j \in 1 .. n - 1 : C[j] = IF j < i THEN order[j] ELSE order[j + 1]
      /\ order' = <<k>> \o C
  BY <1>a, <1>3, <1>4 DEF A, B
<1> HIDE DEF C
<1>6. /\ order' \in Seq(Keys) /\ Len(order') = n
      /\ order'[1] = k
      /\ \A j \in 2 .. n : order'[j] = C[j - 1]
  <2>1. <<k>> \in Seq(Keys) /\ Len(<<k>>) = 1 /\ <<k>>[1] = k
    OBVIOUS
  <2>2. /\ <<k>> \o C \in Seq(Keys) /\ Len(<<k>> \o C) = 1 + (n - 1)
        /\ \A j \in 1 .. 1 + (n - 1) :
             (<<k>> \o C)[j] = IF j <= 1 THEN <<k>>[j] ELSE C[j - 1]
    BY <1>5, <2>1, ConcatProperties
  <2>3. 1 + (n - 1) = n /\ 1 \in 1 .. n
    OBVIOUS
  <2>4. order'[1] = k
    BY <1>5, <2>1, <2>2, <2>3
  <2>5. ASSUME NEW j \in 2 .. n PROVE order'[j] = C[j - 1]
    <3>1. j \in 1 .. n /\ ~ (j <= 1)
      OBVIOUS
    <3> QED
      BY <1>5, <2>2, <2>3, <3>1
  <2> QED
    BY <1>5, <2>2, <2>3, <2>4, <2>5
\* Where each element of the new order was before.
<1> DEFINE from == [j \in 1 .. n |-> IF j = 1 THEN i ELSE IF j <= i THEN j - 1 ELSE j]
<1>7. \A j \in 1 .. n : from[j] \in 1 .. n /\ order'[j] = order[from[j]]
  <2> SUFFICES ASSUME NEW j \in 1 .. n
               PROVE  from[j] \in 1 .. n /\ order'[j] = order[from[j]]
    OBVIOUS
  <2>1. CASE j = 1
    BY <1>a, <1>6, <2>1
  <2>2. CASE j # 1
    <3>1. j \in 2 .. n /\ j - 1 \in 1 .. n - 1
      BY <2>2
    <3>2. order'[j] = IF j - 1 < i THEN order[j - 1] ELSE order[(j - 1) + 1]
      BY <1>5, <1>6, <3>1
    <3>3. (j - 1) + 1 = j /\ (j - 1 < i <=> j <= i)
      BY <3>1
    <3>4. from[j] = IF j <= i THEN j - 1 ELSE j
      BY <2>2
    <3>5. CASE j <= i
      <4>1. from[j] = j - 1 /\ order'[j] = order[j - 1]
        BY <3>2, <3>3, <3>4, <3>5
      <4>2. j - 1 \in 1 .. n
        BY <3>1
      <4> QED
        BY <4>1, <4>2
    <3>6. CASE ~ (j <= i)
      <4>1. from[j] = j /\ order'[j] = order[j]
        BY <3>2, <3>3, <3>4, <3>6
      <4> QED
        BY <3>1, <4>1
    <3> QED
      BY <3>5, <3>6
  <2> QED
    BY <2>1, <2>2
<1>8. \A j, l \in 1 .. n : from[j] = from[l] => j = l
  OBVIOUS
<1>9. \A l \in 1 .. n : \E j \in 1 .. n : from[j] = l
  <2> SUFFICES ASSUME NEW l \in 1 .. n PROVE \E j \in 1 .. n : from[j] = l
    OBVIOUS
  <2>1. CASE l = i
    <3>1. 1 \in 1 .. n /\ from[1] = l
      BY <2>1
    <3> QED
      BY <3>1
  <2>2. CASE l < i
    <3>1. l + 1 \in 1 .. n /\ from[l + 1] = l
      BY <2>2
    <3> QED
      BY <3>1
  <2>3. CASE l > i
    <3>1. from[l] = l
      BY <2>3
    <3> QED
      BY <3>1
  <2> QED
    BY <2>1, <2>2, <2>3
<1>r. \A j, l \in 2 .. n : j < l => from[j] < from[l]
  OBVIOUS
<1> HIDE DEF from
<1>10. OneEach(order')
  <2> SUFFICES ASSUME NEW j \in 1 .. n, NEW l \in 1 .. n, order'[j] = order'[l]
               PROVE  j = l
    BY <1>6 DEF OneEach
  <2>1. order[from[j]] = order[from[l]] /\ from[j] \in 1 .. n /\ from[l] \in 1 .. n
    BY <1>7
  <2>2. from[j] = from[l]
    BY <1>0, <2>1 DEF OneEach
  <2> QED
    BY <1>8, <2>2
<1>11. ASSUME NEW key \in Keys PROVE Occurs(key, order) <=> Occurs(key, order')
  <2>1. ASSUME Occurs(key, order) PROVE Occurs(key, order')
    <3>1. PICK l \in 1 .. n : order[l] = key
      BY <2>1 DEF Occurs
    <3>2. PICK j \in 1 .. n : from[j] = l
      BY <1>9
    <3>3. order'[j] = key
      BY <1>7, <3>1, <3>2
    <3> QED
      BY <1>6, <3>3 DEF Occurs
  <2>2. ASSUME Occurs(key, order') PROVE Occurs(key, order)
    <3>1. PICK j \in 1 .. n : order'[j] = key
      BY <1>6, <2>2 DEF Occurs
    <3>2. order[from[j]] = key /\ from[j] \in 1 .. n
      BY <1>7, <3>1
    <3> QED
      BY <3>2 DEF Occurs
  <2> QED
    BY <2>1, <2>2
<1>12. ReadFirst(order', read \cup {k})
  <2> SUFFICES ASSUME NEW j \in 1 .. n, NEW l \in 1 .. n, j < l,
                      order'[l] \in read \cup {k}
               PROVE  order'[j] \in read \cup {k}
    BY <1>6 DEF ReadFirst
  <2>1. CASE j = 1
    BY <1>6, <2>1
  <2>2. CASE j # 1
    <3>1. j \in 2 .. n /\ l \in 2 .. n /\ l # 1 /\ 1 \in 1 .. n
      BY <2>2
    <3>2. order'[l] # k
      BY <1>6, <1>10, <3>1 DEF OneEach
    <3>3. /\ from[j] < from[l] /\ from[j] \in 1 .. n /\ from[l] \in 1 .. n
          /\ order[from[l]] \in read
      BY <1>7, <1>r, <3>1, <3>2
    <3>4. order[from[j]] \in read
      BY <1>0, <3>3 DEF ReadFirst
    <3> QED
      BY <1>7, <3>4
  <2> QED
    BY <2>1, <2>2
<1> QED
  BY <1>0, <1>6, <1>10, <1>11, <1>12

\* set() makes room before it stores, and what it stores has a place, behind all
\* that was read.
LEMMA StoreKeepsOrder ==
    ASSUME OrderInv, cached \in [Keys -> Response \cup {Absent}],
           NEW k \in Keys, NEW response \in Response, Store(k, response)
    PROVE  OrderInv'
<1> PICK n \in Nat : n = Len(order)
  BY LenProperties DEF OrderInv
<1> DEFINE full == n >= MaxSize
           last == order[n]
           rest == IF full THEN SubSeq(order, 1, n - 1) ELSE order
           left(j) == cached[j] # Absent /\ ~ (full /\ j = last)
<1>0. order \in Seq(Keys) /\ n <= MaxSize /\ OneEach(order) /\ MaxSize \in Nat \ {0}
      /\ ReadFirst(order, read) /\ read \subseteq {j \in Keys : cached[j] # Absent}
      /\ \A j \in 1 .. n : order[j] \in Keys
  BY ElementOfSeq, CacheAssumption DEF OrderInv
<1>1. /\ order' = IF left(k) THEN rest ELSE Append(rest, k)
      /\ cached' = [j \in Keys |-> IF j = k THEN response
                                   ELSE IF full /\ j = last THEN Absent
                                   ELSE cached[j]]
      /\ read' = IF full THEN read \ {last} ELSE read
  BY DEF Store
\* The order before the new entry.
<1>2. /\ rest \in Seq(Keys)
      /\ OneEach(rest)
      /\ Len(rest) < MaxSize
      /\ \A j \in Keys : left(j) <=> Occurs(j, rest)
      /\ ReadFirst(rest, read')
  <2>1. CASE full
    <3>1. n >= 1 /\ n - 1 < MaxSize
      BY <1>0, <2>1
    <3>2. \A j \in 1 .. n - 1 : order[j] \in Keys
      BY <1>0
    <3>3. /\ rest \in Seq(Keys)
          /\ Len(rest) = IF 1 <= n - 1 THEN n - 1 - 1 + 1 ELSE 0
          /\ \A j \in 1 .. n - 1 - 1 + 1 : rest[j] = order[1 + j - 1]
      BY <2>1, <3>2, SubSeqProperties
    <3> HIDE DEF rest
    <3>4. Len(rest) = n - 1
      BY <3>1, <3>3
    <3>5. \A j \in 1 .. n - 1 : rest[j] = order[j] /\ j \in 1 .. n
      BY <3>3
    <3>6. OneEach(rest)
      BY <1>0, <3>4, <3>5 DEF OneEach
    <3>7. ASSUME NEW j \in Keys PROVE left(j) <=> Occurs(j, rest)
      <4>1. ASSUME left(j) PROVE Occurs(j, rest)
        <5>1. PICK i \in 1 .. n : order[i] = j
          BY <4>1 DEF OrderInv, Occurs
        <5>2. i \in 1 .. n - 1
          BY <2>1, <4>1, <5>1
        <5> QED
          BY <3>4, <3>5, <5>1, <5>2 DEF Occurs
      <4>2. ASSUME Occurs(j, rest) PROVE left(j)
        <5>1. PICK i \in 1 .. n - 1 : rest[i] = j
          BY <3>4, <4>2 DEF Occurs
        <5>2. order[i] = j /\ i \in 1 .. n /\ n \in 1 .. n /\ i # n
          BY <3>1, <3>5, <5>1
        <5>3. cached[j] # Absent
          BY <5>2 DEF OrderInv, Occurs
        <5>4. j # last
          BY <1>0, <5>2 DEF OneEach
        <5> QED
          BY <5>3, <5>4
      <4> QED
        BY <4>1, <4>2
    <3>8. ReadFirst(rest, read')
      <4> SUFFICES ASSUME NEW i \in 1 .. n - 1, NEW j \in 1 .. n - 1, i < j,
                          rest[j] \in read'
                   PROVE  rest[i] \in read'
        BY <3>4 DEF ReadFirst
      <4>1. rest[i] = order[i] /\ rest[j] = order[j] /\ i \in 1 .. n /\ j \in 1 .. n
            /\ i # n /\ n \in 1 .. n
        BY <3>1, <3>5
      <4>2. order[i] \in read
        BY <1>0, <1>1, <2>1, <4>1 DEF ReadFirst
      <4>3. order[i] # last
        BY <1>0, <4>1 DEF OneEach
      <4> QED
        BY <1>1, <2>1, <4>1, <4>2, <4>3
    <3> QED
      BY <3>1, <3>3, <3>4, <3>6, <3>7, <3>8
  <2>2. CASE ~ full
    BY <1>0, <1>1, <2>2 DEF OrderInv
  <2> QED
    BY <2>1, <2>2
\* Whatever was read and was not evicted is there.
<1>r. \A j \in read' : j \in Keys /\ left(j)
  BY <1>0, <1>1
<1> HIDE DEF rest, full, last
<1>3. cached'[k] = response /\ response # Absent
  BY <1>1, CacheAssumption
<1>4. \A j \in Keys : cached'[j] # Absent <=> j = k \/ Occurs(j, rest)
  BY <1>1, <1>2, <1>3
<1>s. read' \subseteq {j \in Keys : cached'[j] # Absent}
  BY <1>2, <1>4, <1>r
<1>5. CASE left(k)
  <2>1. order' = rest /\ Occurs(k, rest)
    BY <1>1, <1>2, <1>5
  <2> QED
    BY <1>0, <1>2, <1>3, <1>4, <1>s, <2>1, LenProperties DEF OrderInv
<1>6. CASE ~ left(k)
  <2>1. order' = Append(rest, k) /\ ~ Occurs(k, rest)
    BY <1>1, <1>2, <1>6
  <2> PICK m \in Nat : m = Len(rest)
    BY <1>2, LenProperties
  <2>2. /\ order' \in Seq(Keys) /\ Len(order') = m + 1
        /\ \A i \in 1 .. m : order'[i] = rest[i]
        /\ order'[m + 1] = k
    BY <1>2, <2>1, AppendProperties
  <2>3. \A i \in 1 .. m + 1 : i \in 1 .. m \/ i = m + 1
    OBVIOUS
  <2>4. OneEach(order')
    BY <1>2, <2>1, <2>2, <2>3 DEF OneEach, Occurs
  <2>5. \A j \in Keys : Occurs(j, order') <=> j = k \/ Occurs(j, rest)
    <3> SUFFICES ASSUME NEW j \in Keys
                 PROVE  Occurs(j, order') <=> j = k \/ Occurs(j, rest)
      OBVIOUS
    <3>1. Occurs(j, order') => j = k \/ Occurs(j, rest)
      BY <2>2, <2>3 DEF Occurs
    <3>2. Occurs(j, rest) => Occurs(j, order')
      <4>1. \A i \in 1 .. m : i \in 1 .. m + 1
        OBVIOUS
      <4> QED
        BY <2>2, <4>1 DEF Occurs
    <3>3. Occurs(k, order')
      <4>1. m + 1 \in 1 .. m + 1
        OBVIOUS
      <4> QED
        BY <2>2, <4>1 DEF Occurs
    <3> QED
      BY <3>1, <3>2, <3>3
  <2>6. Len(order') <= MaxSize
    BY <1>0, <1>2, <2>2
  <2>7. ReadFirst(order', read')
    <3>1. k \notin read'
      BY <1>6, <1>r
    <3> SUFFICES ASSUME NEW i \in 1 .. m + 1, NEW j \in 1 .. m + 1, i < j,
                        order'[j] \in read'
                 PROVE  order'[i] \in read'
      BY <2>2 DEF ReadFirst
    <3>2. j # m + 1
      BY <2>2, <3>1
    <3>3. i \in 1 .. m /\ j \in 1 .. m
      BY <3>2
    <3> QED
      BY <1>2, <2>2, <3>3 DEF ReadFirst
  <2> QED
    BY <1>3, <1>4, <1>s, <2>2, <2>4, <2>5, <2>6, <2>7 DEF OrderInv
<1> QED
  BY <1>5, <1>6

LEMMA OrderStep == IInv /\ OrderInv /\ [Next]_vars => OrderInv'
<1> SUFFICES ASSUME IInv, OrderInv, [Next]_vars PROVE OrderInv'
  OBVIOUS
<1>1. ASSUME NEW t \in Calls, NEW q \in Request, Hit(t, q) PROVE OrderInv'
  <2>1. cached[q] # Absent /\ MoveToFront(q) /\ cached' = cached /\ q \in Keys
        /\ read' = read \cup {q}
    BY <1>1 DEF Hit, Key, Keys
  <2> QED
    BY <2>1, MoveKeepsOrder DEF OrderInv
<1>2. ASSUME NEW t \in Calls, Return(t) PROVE OrderInv'
  <2>1. CASE Remembered(t)
    <3>1. call[t].req \in Keys /\ call[t].got \in Response
          /\ Store(call[t].req, call[t].got)
      BY <1>2, <2>1 DEF Return, Key, Keys, IInv, AnswersInFlight
    <3> QED
      BY <3>1, StoreKeepsOrder DEF IInv, CallsTyped
  <2>2. CASE ~ Remembered(t)
    BY <1>2, <2>2 DEF Return, OrderInv
  <2> QED
    BY <2>1, <2>2
<1>3. CASE UNCHANGED <<cached, order, read>>
  BY <1>3 DEF OrderInv
<1> QED
  BY <1>1, <1>2, <1>3 DEF Next, Miss, Fail, Serve, NewBlock, vars

\* cache.py: every variable has its type; the order lists the entries there are,
\* once each, and those are max_size at most, whatever is stored and evicted.
THEOREM CacheTyped == Spec => []TypeOK
<1>1. IInv /\ OrderInv => TypeOK
  BY OrderCounts DEF IInv, CallsTyped, OrderInv, TypeOK
<1> QED
  BY <1>1, InitEstablishes, StepKeeps, InitOrder, OrderStep, PTL DEF Spec

\* cache.py:50: an entry that has answered a request is evicted only when every
\* entry there is has answered one.
THEOREM EvictionCorrect == Spec => UnreadGoFirst
<1> DEFINE Kept == \A k \in read : cached'[k] = Absent
                      => \A j \in Keys : cached[j] # Absent => j \in read
<1>1. IInv /\ OrderInv /\ [Next]_vars => [Kept]_vars
  <2> SUFFICES ASSUME IInv, OrderInv, [Next]_vars, NEW k \in read, cached'[k] = Absent,
                      NEW j \in Keys, cached[j] # Absent
               PROVE  j \in read
    OBVIOUS
  <2>1. k \in Keys /\ cached[k] # Absent
    BY DEF OrderInv
  <2>2. PICK t \in Calls : Return(t) /\ Remembered(t)
    BY <2>1 DEF Next, Hit, Miss, Return, Fail, Serve, NewBlock, vars
  <2>3. call[t].req \in Keys /\ call[t].got \in Response
        /\ Store(call[t].req, call[t].got)
    BY <2>2 DEF Return, Key, Keys, IInv, AnswersInFlight
  <2> PICK n \in Nat : n = Len(order)
    BY LenProperties DEF OrderInv
  <2>4. k = order[n]
    BY <2>1, <2>3, CacheAssumption DEF Store
  <2>5. PICK i \in 1 .. n : order[i] = j
    BY DEF OrderInv, Occurs
  <2>6. n \in 1 .. n /\ (i = n \/ i < n)
    OBVIOUS
  <2> QED
    BY <2>4, <2>5, <2>6 DEF OrderInv, ReadFirst
<1> HIDE DEF Kept
<1>2. Spec => [][Kept]_vars
  BY <1>1, InitEstablishes, StepKeeps, InitOrder, OrderStep, PTL DEF Spec
<1> QED
  BY <1>2 DEF Kept, UnreadGoFirst

=============================================================================
