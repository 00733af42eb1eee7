------------------------ MODULE SubnetRecordsProofs ------------------------
(***************************************************************************)
(* What SubnetRecords promises, for all subnets, mechanisms, tempos and    *)
(* weights, and texts of every length that fits.                           *)
(***************************************************************************)
EXTENDS SubnetRecords, SequenceTheorems, TLAPS

-----------------------------------------------------------------------------
(* The operators                                                           *)

\* Division by what is not a constant.
LEMMA DivMod ==
    ASSUME NEW a \in Int, NEW d \in Nat \ {0}
    PROVE  /\ a \div d \in Int
           /\ a % d \in 0 .. d - 1
           /\ a = d * (a \div d) + (a % d)
OBVIOUS

\* Multiples of d that are closer than d are the same.
LEMMA SameMultiple ==
    ASSUME NEW d \in Nat \ {0}, NEW p \in Int, NEW q \in Int,
           d * (p - q) < d, d * (q - p) < d
    PROVE  p = q
<1>1. p - q < 1 /\ q - p < 1  OBVIOUS
<1> QED BY <1>1

\* A number below 4096 and a multiple of it can be told apart in their sum.
LEMMA SumInjective ==
    ASSUME NEW n \in Nat, NEW m \in Nat, NEW k \in Nat, NEW l \in Nat,
           n < 4096, k < 4096, (m * 4096) + n = (l * 4096) + k
    PROVE  n = k /\ m = l
OBVIOUS

\* A storage index belongs to one mechanism of one subnet.
LEMMA IndexInjective ==
    ASSUME NEW n \in Netuids, NEW m \in Mechanisms, NEW k \in Netuids, NEW l \in Mechanisms,
           StorageIndex(n, m) = StorageIndex(k, l)
    PROVE  n = k /\ m = l
<1>1. /\ n \in Nat /\ k \in Nat /\ m \in Nat /\ l \in Nat
      /\ n < 4096 /\ k < 4096
      BY SubnetRecordsAssumption
<1>2. (m * 4096) + n = (l * 4096) + k  BY DEF StorageIndex
<1> QED BY <1>1, <1>2, SumInjective

\* Rounding is off by a half at most.
LEMMA RoundNear ==
    ASSUME NEW n \in Int, NEW d \in Nat \ {0}
    PROVE  Round(n, d) \in Int /\ 2 * Abs(Round(n, d) * d - n) <= d
<1> DEFINE a == 2 * n + d
           e == 2 * d
           q == a \div e
           r == a % e
<1>1. a \in Int /\ e \in Nat \ {0}  OBVIOUS
<1>2. /\ a = e * q + r /\ r \in 0 .. e - 1 /\ q \in Int
      BY <1>1, DivMod
<1>3. 2 * (q * d) = a - r  BY <1>2
<1>4. CASE r = 0 /\ q % 2 = 1
  <2>1. Round(n, d) = q - 1  BY <1>4 DEF Round
  <2>2. (q - 1) * d = q * d - d  BY <1>2
  <2>3. 2 * ((q - 1) * d - n) = -d
        BY <1>3, <1>4, <2>2, <1>2
  <2> QED BY <2>1, <2>3, <1>2 DEF Abs
<1>5. CASE ~ (r = 0 /\ q % 2 = 1)
  <2>1. Round(n, d) = q  BY <1>5 DEF Round
  <2>2. 2 * (q * d - n) = d - r  BY <1>3, <1>2
  <2>3. q * d \in Int  BY <1>2
  <2> QED BY <2>1, <2>2, <2>3, <1>2 DEF Abs
<1> QED BY <1>4, <1>5

\* A fraction of either sign.
LEMMA ProportionNear ==
    ASSUME NEW n \in Int, NEW d \in Int, d # 0
    PROVE  /\ ToProportion(n, d) \in Int
           /\ 2 * Abs(ToProportion(n, d) * d - n * U16_MAX) <= Abs(d)
<1>1. CASE d > 0
  <2>1. n * U16_MAX \in Int /\ d \in Nat \ {0}  BY <1>1 DEF U16_MAX
  <2>2. ToProportion(n, d) = Round(n * U16_MAX, d)  BY <1>1 DEF ToProportion
  <2> QED BY <1>1, <2>1, <2>2, RoundNear DEF Abs
<1>2. CASE d < 0
  <2> DEFINE p == Round(-n * U16_MAX, -d)
  <2>1. -n * U16_MAX \in Int /\ -d \in Nat \ {0}  BY <1>2 DEF U16_MAX
  <2>2. p \in Int /\ 2 * Abs(p * (-d) - (-n * U16_MAX)) <= -d  BY <2>1, RoundNear
  <2>3. ToProportion(n, d) = p  BY <1>2 DEF ToProportion
  <2> HIDE DEF p
  <2>4. p * (-d) - (-n * U16_MAX) = -(p * d - n * U16_MAX)  BY <2>2 DEF U16_MAX
  <2>5. p * d - n * U16_MAX \in Int  BY <2>2 DEF U16_MAX
  <2>6. Abs(p * (-d) - (-n * U16_MAX)) = Abs(p * d - n * U16_MAX)
        BY <2>4, <2>5 DEF Abs
  <2> QED BY <1>2, <2>2, <2>3, <2>6 DEF Abs
<1> QED BY <1>1, <1>2

\* _normalize() keeps the proportions.
LEMMA NormalizeKeeps ==
    ASSUME NEW w \in Weights
    PROVE  IsProportionOf(Normalize(w), w)
<1>1. \A u \in DOMAIN w : w[u] \in Int  BY SubnetRecordsAssumption
<1>2. SUFFICES ASSUME NEW u \in DOMAIN w
               PROVE  IF Largest(w) = 0 THEN Normalize(w)[u] = 0
                      ELSE 2 * Abs(Normalize(w)[u] * Largest(w) - w[u] * U16_MAX)
                             <= Abs(Largest(w))
      BY DEF IsProportionOf, Normalize
<1>3. \E x \in DOMAIN w : \A v \in DOMAIN w : w[v] <= w[x]
      BY SubnetRecordsAssumption
<1>4. Largest(w) \in Int  BY <1>1, <1>3 DEF Largest
<1>5. CASE Largest(w) = 0  BY <1>5 DEF Normalize
<1>6. CASE Largest(w) # 0
  <2>1. Normalize(w)[u] = ToProportion(w[u], Largest(w))  BY <1>6 DEF Normalize
  <2> QED BY <1>1, <1>4, <1>6, <2>1, ProportionNear
<1> QED BY <1>5, <1>6

\* Nothing is a proportion of nothing.
LEMMA EmptyIsProportion == IsProportionOf(<<>>, <<>>)
BY DEF IsProportionOf

\* The chain steps before a multiple of its period, less one.
LEMMA StepMultiple ==
    ASSUME NEW n \in Nat, NEW t \in Nat \ {0}, NEW c \in Int
    PROVE  /\ Steps(n, t, c) => \E k \in Int : c + n + 1 = (t + 1) * k + t
           /\ \A k \in Int : c + n + 1 = (t + 1) * k + t => Steps(n, t, c)
<1> DEFINE x == c + n + 1
           d == t + 1
<1>1. x \in Int /\ d \in Nat \ {0}  OBVIOUS
<1>2. PICK y \in Int : y = x \div d  BY <1>1, DivMod
<1>3. PICK z \in Int : z = x % d  BY <1>1, DivMod
<1>4. x = d * y + z /\ z \in 0 .. d - 1  BY <1>1, <1>2, <1>3, DivMod
<1>5. Steps(n, t, c) <=> z = t  BY <1>3 DEF Steps
<1>6. ASSUME NEW k \in Int, x = d * k + t PROVE z = t
  <2>1. d * y \in Int /\ d * k \in Int /\ d * y - d * k = t - z
        BY <1>1, <1>4, <1>6
  <2>2. d * (y - k) = t - z /\ d * (k - y) = z - t  BY <1>1, <2>1
  <2>3. d * (y - k) < d /\ d * (k - y) < d  BY <2>2, <1>4
  <2>4. y = k  BY <2>3, <1>1, SameMultiple
  <2> QED BY <2>2, <2>4, <1>3, <1>4
<1> QED BY <1>4, <1>5, <1>6

\* An epoch is a period from a step on.
LEMMA EpochFromStep ==
    ASSUME NEW n \in Nat, NEW t \in Nat \ {0}, NEW b \in Nat
    PROVE  LET first == FirstOfEpoch(n, t, b) IN
           /\ first \in Int /\ first <= b /\ b <= first + t
           /\ Epoch(n, t, b) = first .. first + t
           /\ \E k \in Int : first + n + 1 = (t + 1) * k + t
<1> DEFINE x == b + n + 1
           d == t + 1
           first == FirstOfEpoch(n, t, b)
<1>1. x \in Int /\ d \in Nat \ {0}  OBVIOUS
<1>2. PICK q \in Int : q = x \div d  BY <1>1, DivMod
<1>3. PICK r \in Int : r = x % d  BY <1>1, DivMod
<1>4. x = d * q + r /\ r \in 0 .. d - 1  BY <1>1, <1>2, <1>3, DivMod
<1>5. CASE r = t
  <2>1. Remainder(n, t, b) = -1  BY <1>3, <1>5 DEF Remainder
  <2>2. first = b  BY <2>1 DEF FirstOfEpoch
  <2>3. Epoch(n, t, b) = b .. b + t  BY <2>1, <2>2 DEF Epoch
  <2> QED BY SMTT(30), <2>2, <2>3, <1>4, <1>5
<1>6. CASE r # t
  <2>1. Remainder(n, t, b) = r  BY <1>3, <1>6 DEF Remainder
  <2>2. first = b - r - 1  BY <2>1 DEF FirstOfEpoch
  <2>3. Epoch(n, t, b) = b - r - 1 .. b - r + t - 1  BY <2>1, <2>2 DEF Epoch
  <2>4. d * (q - 1) = d * q - d  BY <1>1
  <2>5. d * q \in Int  BY <1>1
  <2>6. first + n + 1 = d * (q - 1) + t  BY <2>2, <2>4, <2>5, <1>4
  <2>7. first <= b /\ b <= first + t  BY <2>2, <1>4, <1>6
  <2>8. b - r + t - 1 = first + t  BY <2>2
  <2>9. Epoch(n, t, b) = first .. first + t  BY <2>2, <2>3, <2>8
  <2>10. q - 1 \in Int /\ first \in Int  BY <2>2
  <2> HIDE DEF first
  <2> QED BY <2>6, <2>7, <2>9, <2>10 DEF first
<1> QED BY <1>5, <1>6

\* An epoch has one step of the chain, its first block.
LEMMA EpochHasOneStep ==
    ASSUME NEW n \in Nat, NEW t \in Nat \ {0}, NEW b \in Nat
    PROVE  /\ b \in Epoch(n, t, b)
           /\ Steps(n, t, FirstOfEpoch(n, t, b))
           /\ \A c \in Epoch(n, t, b) : Steps(n, t, c) => c = FirstOfEpoch(n, t, b)
<1>1. PICK first \in Int : first = FirstOfEpoch(n, t, b)  BY EpochFromStep
<1>2. /\ first <= b /\ b <= first + t
      /\ Epoch(n, t, b) = first .. first + t
      BY <1>1, EpochFromStep
<1>3. PICK k \in Int : first + n + 1 = (t + 1) * k + t  BY <1>1, EpochFromStep
<1>4. Steps(n, t, first)  BY <1>3, StepMultiple
<1>5. ASSUME NEW c \in first .. first + t, Steps(n, t, c) PROVE c = first
  <2> c \in Int  OBVIOUS
  <2>1. PICK j \in Int : c + n + 1 = (t + 1) * j + t  BY <1>5, StepMultiple
  <2>2. PICK d \in Nat \ {0} : d = t + 1  OBVIOUS
  <2>3. /\ c + n + 1 = d * j + t /\ first + n + 1 = d * k + t
        /\ d * j \in Int /\ d * k \in Int
        BY <2>1, <2>2, <1>3
  <2>4. d * j - d * k = c - first  BY <2>3
  <2>5. d * (j - k) = c - first /\ d * (k - j) = first - c  BY <2>3, <2>4
  <2>6. d * (j - k) < d /\ d * (k - j) < d  BY <2>2, <2>5
  <2>7. j = k  BY <2>6, SameMultiple
  <2> QED BY <2>3, <2>7
<1> QED BY <1>1, <1>2, <1>4, <1>5

\* A revealed text is decoded to itself, in whichever of the two forms the codec
\* returns it.
LEMMA DecodeInverse ==
    ASSUME NEW t \in Texts
    PROVE  DecodeRevealed(Decoded(t)) = t
<1> DEFINE raw == Decoded(t)
           n   == t.bytes
<1>1. n \in Nat /\ n <= 8191
  <2>1. t \in Text /\ t.bytes <= 8191  BY SubnetRecordsAssumption DEF MaxText
  <2>2. t.bytes \in Nat  BY <2>1 DEF Text
  <2> QED BY <2>1, <2>2
<1>2. /\ raw.text = t /\ raw.text.bytes = n /\ raw.prefix = Compact(n)
      /\ raw.hex = (\E i \in DOMAIN Compact(n) : Compact(n)[i] >= 128)
      BY DEF Decoded
<1> HIDE DEF raw, n
<1>3. /\ Compact(n)[1] \in Nat
      /\ ScaleOffset(Compact(n)[1]) = Len(Compact(n))
      /\ Len(Compact(n)) \in {1, 2}
  <2>1. CASE n < 64
    <3>1. Compact(n) = <<4 * n>>  BY <1>1, <2>1 DEF Compact
    <3>2. 4 * n \in Nat /\ (4 * n) % 4 = 0  BY <1>1
    <3>3. Compact(n)[1] = 4 * n /\ Len(Compact(n)) = 1  BY <3>1
    <3>4. ScaleOffset(4 * n) = 1  BY <3>2 DEF ScaleOffset
    <3> QED BY <3>2, <3>3, <3>4
  <2>2. CASE n >= 64
    <3>1. Compact(n) = <<4 * (n % 64) + 1, n \div 64>>  BY <1>1, <2>2 DEF Compact
    <3>2. n % 64 \in Nat /\ (4 * (n % 64) + 1) % 4 = 1  BY <1>1
    <3>3. Compact(n)[1] = 4 * (n % 64) + 1 /\ Len(Compact(n)) = 2  BY <3>1
    <3>4. ScaleOffset(4 * (n % 64) + 1) = 2  BY <3>2 DEF ScaleOffset
    <3> QED BY <3>2, <3>3, <3>4
  <2> QED BY <1>1, <2>1, <2>2
<1>4. raw.hex = IsHex(raw)
  <2>1. CASE raw.hex = TRUE
    <3>1. Length(raw) = 2 + 2 * (Len(Compact(n)) + n)  BY <1>2, <2>1 DEF Length
    <3>2. 2 + 2 * (Len(Compact(n)) + n) # 13  BY <1>3, <1>1
    <3>3. Length(raw) # 13  BY <3>1, <3>2
    <3> QED BY <2>1, <3>3 DEF IsHex, StartsWith0x
  <2>2. CASE raw.hex = FALSE
    <3>1. ASSUME StartsWith0x(raw) PROVE Length(raw) = 13
      <4>1. Compact(n) = <<48>>  BY <3>1, <2>2, <1>2 DEF StartsWith0x
      <4>2. Len(Compact(n)) = 1 /\ Compact(n)[1] = 48  BY <4>1
      <4>3. n < 64  BY <4>2, <1>1 DEF Compact
      <4>4. Compact(n) = <<4 * n>>  BY <4>3 DEF Compact
      <4>5. 4 * n = 48  BY <4>2, <4>4
      <4>6. n = 12  BY <4>5, <1>1
      <4>7. Length(raw) = Len(Compact(n)) + n  BY <2>2, <1>2 DEF Length
      <4>8. Len(Compact(n)) + n = 13  BY <4>2, <4>6
      <4> QED BY <4>7, <4>8
    <3> QED BY <2>2, <3>1 DEF IsHex
  <2>3. raw.hex \in BOOLEAN  BY <1>2
  <2> QED BY <2>1, <2>2, <2>3
<1> QED BY <1>2, <1>3, <1>4 DEF DecodeRevealed, raw

-----------------------------------------------------------------------------
(* Types                                                                   *)

LEMMA InitType == Init => TypeOK
<1> SUFFICES ASSUME Init PROVE TypeOK  OBVIOUS
<1> MaxBlock \in Nat  BY SubnetRecordsAssumption
<1>1. weights \in [Indexes \X Hotkeys -> Proportions]  BY DEF Init, Proportions
<1>2. askedWeights \in [Subjects \X Hotkeys -> Weights \cup {<<>>}]  BY DEF Init
<1>3. commitment \in [Accounts -> [fields : Seq(Fields), block : 0 .. MaxBlock]]  BY DEF Init
<1>4. askedCommitment \in
         [Accounts -> [kind : {"hex_data", "timelock_encrypted", "None", "ValueError"},
                       data : Data \cup Texts \cup {NoText}, block : 0 .. MaxBlock]]
      BY DEF Init, None, Nothing
<1>5. /\ revealed \in [Accounts -> Seq([raw : {Decoded(t) : t \in Texts},
                                        block : 1 .. MaxBlock])]
      /\ askedRevealed \in [Accounts -> Seq([data : Texts, block : 1 .. MaxBlock])]
      BY DEF Init
<1> QED BY <1>1, <1>2, <1>3, <1>4, <1>5 DEF Init, TypeOK

LEMMA NewBlockType ==
    TypeOK /\ NewBlock => /\ block' \in 1 .. MaxBlock
                          /\ block' \in 0 .. MaxBlock
                          /\ block' = block + 1
                          /\ steps' \in [Netuids -> SUBSET (1 .. MaxBlock)]
<1> SUFFICES ASSUME TypeOK, NewBlock
             PROVE  /\ block' \in 1 .. MaxBlock
                    /\ block' \in 0 .. MaxBlock
                    /\ block' = block + 1
                    /\ steps' \in [Netuids -> SUBSET (1 .. MaxBlock)]
    OBVIOUS
<1> MaxBlock \in Nat  BY SubnetRecordsAssumption
<1>1. block + 1 \in 1 .. MaxBlock  BY DEF TypeOK, NewBlock
<1>2. block' = block + 1  BY DEF NewBlock
<1>3. \A n \in Netuids : steps[n] \cup {b \in {block + 1} : Steps(n, tempo[n], b)}
                           \in SUBSET (1 .. MaxBlock)
      BY <1>1 DEF TypeOK
<1> QED BY <1>1, <1>2, <1>3 DEF NewBlock

\* What the arithmetic of epochs needs.
LEMMA TemposArePositive ==
    ASSUME TypeOK, NEW n \in Netuids
    PROVE  n \in Nat /\ block \in Nat /\ tempo[n] \in Nat \ {0} /\ subnet[n] \in Nat \ {0}
<1>1. n \in Nat /\ Tempos \subseteq Nat \ {0} /\ MaxBlock \in Nat
      BY SubnetRecordsAssumption
<1>2. tempo[n] \in Tempos /\ subnet[n] \in Tempos /\ block \in 0 .. MaxBlock  BY DEF TypeOK
<1>3. block \in Nat  BY <1>1, <1>2
<1>4. tempo[n] \in Nat \ {0} /\ subnet[n] \in Nat \ {0}  BY <1>1, <1>2
<1> QED BY <1>1, <1>3, <1>4

LEMMA IndexesHave ==
    ASSUME NEW n \in Netuids, NEW m \in Mechanisms
    PROVE  StorageIndex(n, m) \in Indexes /\ <<n, m>> \in Subjects
BY DEF Indexes, Subjects

LEMMA CommitType ==
    ASSUME TypeOK, NEW n \in Netuids, NEW h \in Hotkeys, NEW fields \in Seq(Fields),
           NEW asked \in [kind : {"hex_data", "timelock_encrypted", "None", "ValueError"},
                          data : Data \cup Texts \cup {NoText}, block : 0 .. MaxBlock],
           Commit(n, h, fields, asked)
    PROVE  TypeOK'
<1>1. NewBlock  BY DEF Commit
<1>2. <<n, h>> \in Accounts  BY DEF Accounts
<1>3. [fields |-> fields, block |-> block + 1] \in [fields : Seq(Fields), block : 0 .. MaxBlock]
      BY <1>1, NewBlockType
<1> QED BY <1>1, <1>2, <1>3, NewBlockType
        DEF Commit, TypeOK, weightVars

LEMMA AskedType ==
    ASSUME TypeOK, NewBlock, NEW text \in Data \cup Texts,
           NEW kind \in {"hex_data", "timelock_encrypted"}
    PROVE  Asked(kind, text) \in
             [kind : {"hex_data", "timelock_encrypted", "None", "ValueError"},
              data : Data \cup Texts \cup {NoText}, block : 0 .. MaxBlock]
BY NewBlockType DEF Asked

LEMMA NextType == TypeOK /\ [Next]_vars => TypeOK'
<1> SUFFICES ASSUME TypeOK, [Next]_vars PROVE TypeOK'  OBVIOUS
<1> MaxBlock \in Nat  BY SubnetRecordsAssumption
<1>1. CASE UNCHANGED vars
      BY <1>1 DEF TypeOK, vars, epochVars, weightVars, dataVars
<1>2. CASE EmptyBlock
      BY <1>2, NewBlockType DEF EmptyBlock, TypeOK, weightVars, dataVars
<1>3. ASSUME NEW n \in Netuids, GetSubnet(n) PROVE TypeOK'
      BY <1>3 DEF GetSubnet, TypeOK, weightVars, dataVars
<1>4. ASSUME NEW n \in Netuids, NEW t \in Tempos, SetTempo(n, t) PROVE TypeOK'
      BY <1>4, NewBlockType DEF SetTempo, TypeOK, weightVars, dataVars
<1>5. ASSUME NEW n \in Netuids, NEW m \in Mechanisms, NEW h \in Hotkeys, NEW w \in Weights,
             SetWeights(n, m, h, w)
      PROVE  TypeOK'
  <2>1. NewBlock  BY <1>5 DEF SetWeights
  <2>2. Normalize(w) \in Proportions  BY <1>5 DEF SetWeights, Encodable, Proportions
  <2>3. weights' \in [Indexes \X Hotkeys -> Proportions]
        BY <1>5, <2>2, IndexesHave DEF SetWeights, TypeOK
  <2>4. askedWeights' \in [Subjects \X Hotkeys -> Weights \cup {<<>>}]
        BY <1>5, IndexesHave DEF SetWeights, TypeOK
  <2> QED BY <1>5, <2>1, <2>3, <2>4, NewBlockType DEF SetWeights, TypeOK, dataVars
<1>6. ASSUME NEW n \in Netuids, NEW m \in Mechanisms, NEW h \in Hotkeys, NEW w \in Weights,
             CommitWeights(n, m, h, w)
      PROVE  TypeOK'
  <2> DEFINE c == [index |-> StorageIndex(n, m), epoch |-> EpochIndex(n, tempo[n], block + 1),
                   hotkey |-> h, block |-> block + 1, commit |-> Normalize(w),
                   for |-> <<n, m>>, asked |-> w]
             Record == [index : Indexes, epoch : Nat, hotkey : Hotkeys,
                        block : 1 .. MaxBlock, commit : Proportions,
                        for : Subjects, asked : Weights]
  <2>1. NewBlock  BY <1>6 DEF CommitWeights
  <2>2. Normalize(w) \in Proportions  BY <1>6 DEF CommitWeights, Encodable, Proportions
  <2>3. EpochIndex(n, tempo[n], block + 1) \in Nat
    <3> n \in Nat /\ tempo[n] \in Nat \ {0} /\ block \in Nat
        BY TemposArePositive
    <3>1. block + 1 + n + 1 \in Nat /\ tempo[n] + 1 \in Nat \ {0}  OBVIOUS
    <3>2. \A a \in Nat, d \in Nat \ {0} : a \div d \in Nat  OBVIOUS
    <3> QED BY <3>1, <3>2 DEF EpochIndex
  <2>a. StorageIndex(n, m) \in Indexes /\ <<n, m>> \in Subjects  BY IndexesHave
  <2>b. block + 1 \in 1 .. MaxBlock  BY <2>1, NewBlockType
  <2>4. c \in Record
    <3> DEFINE e == EpochIndex(n, tempo[n], block + 1)
               p == Normalize(w)
               x == StorageIndex(n, m)
               y == block + 1
    <3> HIDE DEF e, p, x, y
    <3>1. c = [index |-> x, epoch |-> e, hotkey |-> h, block |-> y, commit |-> p,
               for |-> <<n, m>>, asked |-> w]
          BY DEF e, p, x, y
    <3>2. x \in Indexes /\ e \in Nat /\ y \in 1 .. MaxBlock /\ p \in Proportions
          BY <2>a, <2>b, <2>2, <2>3 DEF e, p, x, y
    <3> HIDE DEF c
    <3> QED BY <3>1, <3>2, <2>a
  <2>5. commits' = Append(commits, c)  BY <1>6 DEF CommitWeights
  <2>6. commits \in Seq(Record)  BY DEF TypeOK
  <2> HIDE DEF c, Record
  <2>7. commits' \in Seq(Record)  BY <2>4, <2>5, <2>6
  <2> QED BY <1>6, <2>1, <2>7, NewBlockType DEF CommitWeights, TypeOK, dataVars, Record
<1>7. ASSUME NEW i \in DOMAIN commits, RevealWeights(i) PROVE TypeOK'
  <2> DEFINE Record == [index : Indexes, epoch : Nat, hotkey : Hotkeys,
                        block : 1 .. MaxBlock, commit : Proportions,
                        for : Subjects, asked : Weights]
             c == commits[i]
  <2>1. NewBlock  BY <1>7 DEF RevealWeights
  <2>2. commits \in Seq(Record)  BY DEF TypeOK
  <2>3. c \in Record
    <3> HIDE DEF Record
    <3> QED BY <2>2
  <2>4. /\ c.index \in Indexes /\ c.hotkey \in Hotkeys /\ c.commit \in Proportions
        /\ c.for \in Subjects /\ c.asked \in Weights
        BY <2>3
  <2>5. /\ commits' = RemoveAt(commits, i)
        /\ weights' = [weights EXCEPT ![<<c.index, c.hotkey>>] = c.commit]
        /\ askedWeights' = [askedWeights EXCEPT ![<<c.for, c.hotkey>>] = c.asked]
        BY <1>7 DEF RevealWeights
  <2> HIDE DEF Record, c
  <2>6. commits' \in Seq(Record)
    <3>1. i \in 1 .. Len(commits)  BY <2>2
    <3>2. /\ SubSeq(commits, 1, i - 1) \in Seq(Record)
          /\ SubSeq(commits, i + 1, Len(commits)) \in Seq(Record)
          BY <2>2, <3>1, SubSeqProperties
    <3> QED BY <2>5, <3>2, ConcatProperties DEF RemoveAt
  <2>7. /\ weights' \in [Indexes \X Hotkeys -> Proportions]
        /\ askedWeights' \in [Subjects \X Hotkeys -> Weights \cup {<<>>}]
        BY <2>4, <2>5 DEF TypeOK
  <2> QED BY <1>7, <2>1, <2>6, <2>7, NewBlockType
          DEF RevealWeights, TypeOK, dataVars, Record
<1>8. ASSUME NEW n \in Netuids, NEW h \in Hotkeys, NEW data \in Data,
             SetCommitment(n, h, data) \/ SetWithFlag(n, h, data)
      PROVE  TypeOK'
  <2>1. Flag \in Fields /\ Raw(data) \in Fields  BY DEF Fields
  <2>2. <<Raw(data)>> \in Seq(Fields) /\ <<Flag, Raw(data)>> \in Seq(Fields)  BY <2>1
  <2>3. NewBlock  BY <1>8 DEF SetCommitment, SetWithFlag, Commit
  <2>4. data \in Data \cup Texts  OBVIOUS
  <2> QED BY <1>8, <2>2, <2>3, <2>4, AskedType, CommitType DEF SetCommitment, SetWithFlag
<1>9. ASSUME NEW n \in Netuids, NEW h \in Hotkeys, NEW text \in Texts, SetRevealed(n, h, text)
      PROVE  TypeOK'
  <2>1. Timelocked(text) \in Fields  BY DEF Fields
  <2>2. <<Timelocked(text)>> \in Seq(Fields)  BY <2>1
  <2>3. NewBlock  BY <1>9 DEF SetRevealed, Commit
  <2>4. text \in Data \cup Texts  OBVIOUS
  <2> QED BY <1>9, <2>2, <2>3, <2>4, AskedType, CommitType DEF SetRevealed
<1>10. ASSUME NEW n \in Netuids, NEW h \in Hotkeys, SetFlag(n, h) PROVE TypeOK'
  <2>1. <<Flag>> \in Seq(Fields)  BY DEF Fields
  <2>2. Failed \in [kind : {"hex_data", "timelock_encrypted", "None", "ValueError"},
                    data : Data \cup Texts \cup {NoText}, block : 0 .. MaxBlock]
        BY DEF Failed, Nothing
  <2> QED BY <1>10, <2>1, <2>2, CommitType DEF SetFlag
<1>11. ASSUME NEW n \in Netuids, NEW h \in Hotkeys, Reveal(n, h) PROVE TypeOK'
  <2> DEFINE Raws  == [raw : {Decoded(t) : t \in Texts}, block : 1 .. MaxBlock]
             Askeds == [data : Texts, block : 1 .. MaxBlock]
  <2>1. NewBlock  BY <1>11 DEF Reveal
  <2>2. <<n, h>> \in Accounts  BY DEF Accounts
  <2>3. PICK text \in Texts :
          /\ revealed' = [revealed EXCEPT ![<<n, h>>] =
                            Append(@, [raw |-> Decoded(text), block |-> block + 1])]
          /\ askedRevealed' = [askedRevealed EXCEPT ![<<n, h>>] =
                                 Append(@, [data |-> text, block |-> block + 1])]
        BY <1>11 DEF Reveal
  <2>4. /\ [raw |-> Decoded(text), block |-> block + 1] \in Raws
        /\ [data |-> text, block |-> block + 1] \in Askeds
        BY <2>1, NewBlockType
  <2>5. revealed \in [Accounts -> Seq(Raws)] /\ askedRevealed \in [Accounts -> Seq(Askeds)]
        BY DEF TypeOK
  <2> HIDE DEF Raws, Askeds
  <2>6. revealed' \in [Accounts -> Seq(Raws)] /\ askedRevealed' \in [Accounts -> Seq(Askeds)]
        BY <2>2, <2>3, <2>4, <2>5
  <2>7. [fields |-> <<>>, block |-> 0] \in [fields : Seq(Fields), block : 0 .. MaxBlock]
        OBVIOUS
  <2>8. None \in [kind : {"hex_data", "timelock_encrypted", "None", "ValueError"},
                  data : Data \cup Texts \cup {NoText}, block : 0 .. MaxBlock]
        BY DEF None, Nothing
  <2>9. commitment' = [commitment EXCEPT ![<<n, h>>] = [fields |-> <<>>, block |-> 0]]
        /\ askedCommitment' = [askedCommitment EXCEPT ![<<n, h>>] = None]
        /\ UNCHANGED <<tempo, since, subnet, weightVars>>
        BY <1>11 DEF Reveal
  <2> QED BY <2>1, <2>2, <2>6, <2>7, <2>8, <2>9, NewBlockType
          DEF TypeOK, weightVars, Raws, Askeds
<1> QED BY <1>1, <1>2, <1>3, <1>4, <1>5, <1>6, <1>7, <1>8, <1>9, <1>10, <1>11 DEF Next

-----------------------------------------------------------------------------
(* Epochs                                                                  *)

\* Since its tempo was set, a subnet has had the steps that tempo gives.
EpochsInv ==
    \A n \in Netuids :
        /\ since[n] <= block /\ steps[n] \subseteq 1 .. block
        /\ \A b \in 1 .. block : b > since[n] => (b \in steps[n] <=> Steps(n, tempo[n], b))

LEMMA BlockKeepsEpochs ==
    ASSUME TypeOK, EpochsInv, NewBlock,
           \A n \in Netuids : since'[n] = block + 1 \/ (since'[n] = since[n] /\ tempo'[n] = tempo[n])
    PROVE  EpochsInv'
<1> SUFFICES ASSUME NEW n \in Netuids
             PROVE  /\ since'[n] <= block' /\ steps'[n] \subseteq 1 .. block'
                    /\ \A b \in 1 .. block' :
                         b > since'[n] => (b \in steps'[n] <=> Steps(n, tempo'[n], b))
    BY DEF EpochsInv
<1> block \in Nat /\ since[n] \in Nat  BY DEF TypeOK
<1>1. block' = block + 1  BY NewBlockType
<1>2. steps'[n] = steps[n] \cup {b \in {block + 1} : Steps(n, tempo[n], b)}  BY DEF NewBlock
<1>3. since[n] <= block /\ steps[n] \subseteq 1 .. block  BY DEF EpochsInv
<1>4. since'[n] <= block' /\ steps'[n] \subseteq 1 .. block'  BY <1>1, <1>2, <1>3
<1>5. ASSUME NEW b \in 1 .. block', b > since'[n]
      PROVE  b \in steps'[n] <=> Steps(n, tempo'[n], b)
  <2>1. since'[n] = since[n] /\ tempo'[n] = tempo[n]  BY <1>1, <1>5
  <2>2. CASE b = block + 1
        BY <1>2, <1>3, <2>1, <2>2
  <2>3. CASE b \in 1 .. block
        BY <1>2, <1>5, <2>1, <2>3 DEF EpochsInv
  <2> QED BY <1>1, <2>2, <2>3
<1> QED BY <1>4, <1>5

LEMMA NextEpochs == TypeOK /\ EpochsInv /\ [Next]_vars => EpochsInv'
<1> SUFFICES ASSUME TypeOK, EpochsInv, [Next]_vars PROVE EpochsInv'  OBVIOUS
<1>1. CASE UNCHANGED vars
      BY <1>1 DEF EpochsInv, vars, epochVars
<1>2. ASSUME NEW n \in Netuids, GetSubnet(n) PROVE EpochsInv'
      BY <1>2 DEF GetSubnet, EpochsInv
<1>3. ASSUME NEW n \in Netuids, NEW t \in Tempos, SetTempo(n, t) PROVE EpochsInv'
  <2>1. NewBlock /\ tempo' = [tempo EXCEPT ![n] = t] /\ since' = [since EXCEPT ![n] = block + 1]
        BY <1>3 DEF SetTempo
  <2>2. \A k \in Netuids :
          since'[k] = block + 1 \/ (since'[k] = since[k] /\ tempo'[k] = tempo[k])
        BY <2>1 DEF TypeOK
  <2> QED BY <2>1, <2>2, BlockKeepsEpochs
<1>4. ASSUME NewBlock, UNCHANGED <<tempo, since>> PROVE EpochsInv'
      BY <1>4, BlockKeepsEpochs
<1>5. CASE EmptyBlock  BY <1>4, <1>5 DEF EmptyBlock
<1>6. ASSUME NEW n \in Netuids, NEW m \in Mechanisms, NEW h \in Hotkeys, NEW w \in Weights,
             SetWeights(n, m, h, w) \/ CommitWeights(n, m, h, w)
      PROVE  EpochsInv'
      BY <1>4, <1>6 DEF SetWeights, CommitWeights
<1>7. ASSUME NEW i \in DOMAIN commits, RevealWeights(i) PROVE EpochsInv'
      BY <1>4, <1>7 DEF RevealWeights
<1>8. ASSUME NEW n \in Netuids, NEW h \in Hotkeys, NEW data \in Data,
             SetCommitment(n, h, data) \/ SetWithFlag(n, h, data)
      PROVE  EpochsInv'
      BY <1>4, <1>8 DEF SetCommitment, SetWithFlag, Commit
<1>9. ASSUME NEW n \in Netuids, NEW h \in Hotkeys, NEW text \in Texts, SetRevealed(n, h, text)
      PROVE  EpochsInv'
      BY <1>4, <1>9 DEF SetRevealed, Commit
<1>10. ASSUME NEW n \in Netuids, NEW h \in Hotkeys, SetFlag(n, h) \/ Reveal(n, h)
       PROVE  EpochsInv'
       BY <1>4, <1>10 DEF SetFlag, Commit, Reveal
<1> QED BY <1>1, <1>2, <1>3, <1>5, <1>6, <1>7, <1>8, <1>9, <1>10 DEF Next

LEMMA InitEpochs == Init => EpochsInv
BY DEF Init, EpochsInv

LEMMA EpochsInvImplies == TypeOK /\ EpochsInv => EpochsFollowChain
<1> SUFFICES ASSUME TypeOK, EpochsInv, NEW n \in Netuids, NEW b \in 1 .. block,
                    subnet[n] = tempo[n], since[n] < FirstOfEpoch(n, subnet[n], b)
             PROVE  /\ b \in Epoch(n, subnet[n], b)
                    /\ steps[n] \cap Epoch(n, subnet[n], b) = {FirstOfEpoch(n, subnet[n], b)}
    BY DEF EpochsFollowChain
<1>1. n \in Nat /\ b \in Nat /\ block \in Nat /\ since[n] \in Nat
  <2>1. n \in Nat /\ block \in Nat  BY TemposArePositive
  <2>2. since[n] \in 0 .. MaxBlock /\ MaxBlock \in Nat
        BY SubnetRecordsAssumption DEF TypeOK
  <2> QED BY <2>1, <2>2
<1>2. PICK t \in Nat \ {0} : t = tempo[n] /\ t = subnet[n]
      BY TemposArePositive
<1>3. PICK first \in Int : first = FirstOfEpoch(n, t, b)  BY <1>1, EpochFromStep
<1>4. /\ first <= b /\ Epoch(n, t, b) = first .. first + t
      BY <1>1, <1>3, EpochFromStep
<1>5. /\ b \in Epoch(n, t, b) /\ Steps(n, t, first)
      /\ \A c \in Epoch(n, t, b) : Steps(n, t, c) => c = first
      BY <1>1, <1>3, EpochHasOneStep
<1>6. since[n] < first /\ first \in 1 .. block  BY <1>1, <1>2, <1>3, <1>4
<1>7. first \in steps[n]  BY <1>2, <1>5, <1>6 DEF EpochsInv
<1>8. ASSUME NEW c \in steps[n], c \in first .. first + t PROVE c = first
  <2>1. c \in 1 .. block  BY DEF EpochsInv
  <2>2. c > since[n]  BY <1>1, <1>6, <1>8, <2>1
  <2>3. Steps(n, t, c)  BY <1>2, <2>1, <2>2 DEF EpochsInv
  <2> QED BY <1>4, <1>5, <1>8, <2>3
<1>9. first \in first .. first + t  OBVIOUS
<1> QED BY <1>2, <1>3, <1>4, <1>5, <1>7, <1>8, <1>9

\* The epochs of a Subnet object are those of the chain, whatever the tempo, as
\* long as it is the one the object has and the epoch began with it.
THEOREM EpochsCorrect == Spec => [](TypeOK /\ EpochsFollowChain)
<1>1. Init => TypeOK /\ EpochsInv  BY InitType, InitEpochs
<1>2. TypeOK /\ EpochsInv /\ [Next]_vars => (TypeOK /\ EpochsInv)'
      BY NextType, NextEpochs
<1>3. TypeOK /\ EpochsInv => TypeOK /\ EpochsFollowChain  BY EpochsInvImplies
<1> QED BY <1>1, <1>2, <1>3, PTL DEF Spec

-----------------------------------------------------------------------------
(* Weights                                                                 *)

\* The weights stored for a mechanism, and those committed, are in proportion
\* to what was asked for.
WeightsInv ==
    /\ \A n \in Netuids, m \in Mechanisms, h \in Hotkeys :
         IsProportionOf(weights[<<StorageIndex(n, m), h>>], askedWeights[<<<<n, m>>, h>>])
    /\ \A c \in ToSet(commits) :
         /\ \E n \in Netuids, m \in Mechanisms :
              c.for = <<n, m>> /\ c.index = StorageIndex(n, m)
         /\ IsProportionOf(c.commit, c.asked)

\* Commits have their fields.
LEMMA CommitRecords ==
    ASSUME TypeOK, NEW c \in ToSet(commits)
    PROVE  c.hotkey \in Hotkeys /\ c.block \in Nat
<1> DEFINE Record == [index : Indexes, epoch : Nat, hotkey : Hotkeys,
                      block : 1 .. MaxBlock, commit : Proportions,
                      for : Subjects, asked : Weights]
<1>1. commits \in Seq(Record)  BY DEF TypeOK
<1>2. PICK i \in DOMAIN commits : c = commits[i]  BY DEF ToSet
<1>3. c \in Record
  <2> HIDE DEF Record
  <2> QED BY <1>1, <1>2
<1>4. c.hotkey \in Hotkeys /\ c.block \in 1 .. MaxBlock  BY <1>3
<1>5. MaxBlock \in Nat  BY SubnetRecordsAssumption
<1> QED BY <1>4, <1>5

LEMMA InitWeights == Init => WeightsInv
<1> SUFFICES ASSUME Init PROVE WeightsInv  OBVIOUS
<1>1. ASSUME NEW n \in Netuids, NEW m \in Mechanisms, NEW h \in Hotkeys
      PROVE  IsProportionOf(weights[<<StorageIndex(n, m), h>>], askedWeights[<<<<n, m>>, h>>])
  <2>1. weights[<<StorageIndex(n, m), h>>] = <<>>  BY IndexesHave DEF Init
  <2>2. askedWeights[<<<<n, m>>, h>>] = <<>>  BY IndexesHave DEF Init
  <2> QED BY <2>1, <2>2, EmptyIsProportion
<1>2. ToSet(commits) = {}  BY DEF Init, ToSet
<1> QED BY <1>1, <1>2 DEF WeightsInv

\* Setting the weights of one mechanism leaves those of the others.
LEMMA StoreKeepsWeights ==
    ASSUME TypeOK, WeightsInv, NEW n \in Netuids, NEW m \in Mechanisms, NEW h \in Hotkeys,
           NEW p, NEW w, IsProportionOf(p, w),
           weights' = [weights EXCEPT ![<<StorageIndex(n, m), h>>] = p],
           askedWeights' = [askedWeights EXCEPT ![<<<<n, m>>, h>>] = w],
           NEW k \in Netuids, NEW l \in Mechanisms, NEW g \in Hotkeys
    PROVE  IsProportionOf(weights'[<<StorageIndex(k, l), g>>], askedWeights'[<<<<k, l>>, g>>])
<1>1. /\ DOMAIN weights = Indexes \X Hotkeys /\ DOMAIN askedWeights = Subjects \X Hotkeys
      BY DEF TypeOK
<1>2. /\ <<StorageIndex(k, l), g>> \in Indexes \X Hotkeys
      /\ <<<<k, l>>, g>> \in Subjects \X Hotkeys
      BY IndexesHave
<1>3. CASE n = k /\ m = l /\ h = g
  <2>1. weights'[<<StorageIndex(k, l), g>>] = p  BY <1>1, <1>2, <1>3
  <2>2. askedWeights'[<<<<k, l>>, g>>] = w  BY <1>1, <1>2, <1>3
  <2> QED BY <2>1, <2>2
<1>4. CASE ~ (n = k /\ m = l /\ h = g)
  <2>1. <<StorageIndex(k, l), g>> # <<StorageIndex(n, m), h>>  BY <1>4, IndexInjective
  <2>2. <<<<k, l>>, g>> # <<<<n, m>>, h>>  BY <1>4
  <2>3. weights'[<<StorageIndex(k, l), g>>] = weights[<<StorageIndex(k, l), g>>]
        BY <1>1, <1>2, <2>1
  <2>4. askedWeights'[<<<<k, l>>, g>>] = askedWeights[<<<<k, l>>, g>>]
        BY <1>1, <1>2, <2>2
  <2> QED BY <2>3, <2>4 DEF WeightsInv
<1> QED BY <1>3, <1>4

LEMMA NextWeights == TypeOK /\ WeightsInv /\ [Next]_vars => WeightsInv'
<1> SUFFICES ASSUME TypeOK, WeightsInv, [Next]_vars PROVE WeightsInv'  OBVIOUS
<1>1. ASSUME UNCHANGED weightVars PROVE WeightsInv'
      BY <1>1 DEF WeightsInv, weightVars
<1>2. ASSUME NEW n \in Netuids, NEW m \in Mechanisms, NEW h \in Hotkeys, NEW w \in Weights,
             SetWeights(n, m, h, w)
      PROVE  WeightsInv'
  <2>1. IsProportionOf(Normalize(w), w)  BY NormalizeKeeps
  <2>2. /\ weights' = [weights EXCEPT ![<<StorageIndex(n, m), h>>] = Normalize(w)]
        /\ askedWeights' = [askedWeights EXCEPT ![<<<<n, m>>, h>>] = w]
        /\ commits' = commits
        BY <1>2 DEF SetWeights
  <2>3. \A k \in Netuids, l \in Mechanisms, g \in Hotkeys :
          IsProportionOf(weights'[<<StorageIndex(k, l), g>>], askedWeights'[<<<<k, l>>, g>>])
        BY <2>1, <2>2, StoreKeepsWeights
  <2> QED BY <2>2, <2>3 DEF WeightsInv
<1>3. ASSUME NEW n \in Netuids, NEW m \in Mechanisms, NEW h \in Hotkeys, NEW w \in Weights,
             CommitWeights(n, m, h, w)
      PROVE  WeightsInv'
  <2>1. PICK c : /\ commits' = Append(commits, c)
                 /\ c.for = <<n, m>> /\ c.index = StorageIndex(n, m)
                 /\ c.commit = Normalize(w) /\ c.asked = w
    <3> DEFINE c == [index |-> StorageIndex(n, m),
                     epoch |-> EpochIndex(n, tempo[n], block + 1), hotkey |-> h,
                     block |-> block + 1, commit |-> Normalize(w),
                     for |-> <<n, m>>, asked |-> w]
    <3>1. commits' = Append(commits, c)  BY <1>3 DEF CommitWeights
    <3>2. /\ c.for = <<n, m>> /\ c.index = StorageIndex(n, m)
          /\ c.commit = Normalize(w) /\ c.asked = w
          OBVIOUS
    <3> HIDE DEF c
    <3> QED BY <3>1, <3>2
  <2>2. IsProportionOf(c.commit, c.asked)  BY <2>1, NormalizeKeeps
  <2>3. ASSUME NEW d \in ToSet(commits') PROVE d = c \/ d \in ToSet(commits)
    <3>1. \E S : commits \in Seq(S)  BY DEF TypeOK
    <3>2. PICK i \in DOMAIN commits' : d = commits'[i]  BY <2>3 DEF ToSet
    <3> QED BY <2>1, <3>1, <3>2 DEF ToSet
  <2>4. weights' = weights /\ askedWeights' = askedWeights  BY <1>3 DEF CommitWeights
  <2> QED BY <2>1, <2>2, <2>3, <2>4 DEF WeightsInv
<1>4. ASSUME NEW i \in DOMAIN commits, RevealWeights(i) PROVE WeightsInv'
  <2> DEFINE c == commits[i]
  <2>1. c \in ToSet(commits)  BY DEF ToSet
  <2>2. PICK n \in Netuids, m \in Mechanisms : c.for = <<n, m>> /\ c.index = StorageIndex(n, m)
        BY <2>1 DEF WeightsInv
  <2>3. IsProportionOf(c.commit, c.asked)  BY <2>1 DEF WeightsInv
  <2>4. c.hotkey \in Hotkeys  BY <2>1, CommitRecords
  <2>5. /\ commits' = RemoveAt(commits, i)
        /\ weights' = [weights EXCEPT ![<<StorageIndex(n, m), c.hotkey>>] = c.commit]
        /\ askedWeights' = [askedWeights EXCEPT ![<<<<n, m>>, c.hotkey>>] = c.asked]
        BY <1>4, <2>2 DEF RevealWeights
  <2> HIDE DEF c
  <2>6. \A k \in Netuids, l \in Mechanisms, g \in Hotkeys :
          IsProportionOf(weights'[<<StorageIndex(k, l), g>>], askedWeights'[<<<<k, l>>, g>>])
        BY <2>3, <2>4, <2>5, StoreKeepsWeights
  <2>7. ASSUME NEW d \in ToSet(commits') PROVE d \in ToSet(commits)
    <3>1. PICK S : commits \in Seq(S)  BY DEF TypeOK
    <3>2. i \in 1 .. Len(commits)  BY <3>1
    <3>3. PICK j \in DOMAIN RemoveAt(commits, i) : d = RemoveAt(commits, i)[j]
          BY <2>5, <2>7 DEF ToSet
    <3> DEFINE a == SubSeq(commits, 1, i - 1)
               b == SubSeq(commits, i + 1, Len(commits))
    <3>4. /\ a \in Seq(S) /\ Len(a) = i - 1
          /\ \A e \in 1 .. i - 1 : a[e] = commits[e]
          BY <3>1, <3>2, SubSeqProperties
    <3>5. /\ b \in Seq(S) /\ Len(b) = Len(commits) - i
          /\ \A e \in 1 .. Len(commits) - i : b[e] = commits[i + e]
          BY <3>1, <3>2, SubSeqProperties
    <3>6. RemoveAt(commits, i) = a \o b  BY DEF RemoveAt
    <3> HIDE DEF a, b
    <3>7. CASE j <= i - 1
      <4>1. j \in 1 .. i - 1 /\ d = a[j]
            BY <3>2, <3>3, <3>4, <3>5, <3>6, <3>7, ConcatProperties
      <4>2. j \in DOMAIN commits /\ d = commits[j]  BY <3>1, <3>2, <3>4, <4>1
      <4> QED BY <4>2 DEF ToSet
    <3>8. CASE j > i - 1
      <4>1. j - (i - 1) \in 1 .. Len(commits) - i /\ d = b[j - (i - 1)]
            BY <3>2, <3>3, <3>4, <3>5, <3>6, <3>8, ConcatProperties
      <4>2. i + (j - (i - 1)) \in DOMAIN commits /\ d = commits[i + (j - (i - 1))]
            BY <3>1, <3>2, <3>5, <4>1
      <4> QED BY <4>2 DEF ToSet
    <3>9. j \in Nat  BY <3>3, <3>4, <3>5, <3>6, ConcatProperties
    <3> QED BY <3>2, <3>7, <3>8, <3>9
  <2> QED BY <2>6, <2>7 DEF WeightsInv
<1>5. CASE UNCHANGED vars  BY <1>1, <1>5 DEF vars
<1>6. CASE EmptyBlock  BY <1>1, <1>6 DEF EmptyBlock
<1>7. ASSUME NEW n \in Netuids,
             GetSubnet(n) \/ \E t \in Tempos : SetTempo(n, t)
      PROVE  WeightsInv'
      BY <1>1, <1>7 DEF GetSubnet, SetTempo
<1>8. ASSUME NEW n \in Netuids, NEW h \in Hotkeys, NEW data \in Data,
             SetCommitment(n, h, data) \/ SetWithFlag(n, h, data)
      PROVE  WeightsInv'
      BY <1>1, <1>8 DEF SetCommitment, SetWithFlag, Commit
<1>9. ASSUME NEW n \in Netuids, NEW h \in Hotkeys, NEW text \in Texts, SetRevealed(n, h, text)
      PROVE  WeightsInv'
      BY <1>1, <1>9 DEF SetRevealed, Commit
<1>10. ASSUME NEW n \in Netuids, NEW h \in Hotkeys, SetFlag(n, h) \/ Reveal(n, h)
       PROVE  WeightsInv'
       BY <1>1, <1>10 DEF SetFlag, Commit, Reveal
<1> QED BY <1>2, <1>3, <1>4, <1>5, <1>6, <1>7, <1>8, <1>9, <1>10 DEF Next

LEMMA WeightsInvImplies == TypeOK /\ WeightsInv => WeightsReadBack
<1> SUFFICES ASSUME TypeOK, WeightsInv, NEW n \in Netuids, NEW m \in Mechanisms
    PROVE  /\ \A h \in Hotkeys :
                IsProportionOf([u \in DOMAIN GetWeights(n, m, h) |-> GetWeights(n, m, h)[u].num],
                               askedWeights[<<<<n, m>>, h>>])
           /\ FetchPending(n, m) =
                {c \in ToSet(commits) :
                   /\ c.for = <<n, m>>
                   /\ IsProportionOf(c.commit, c.asked)
                   /\ ~ \E d \in ToSet(commits) :
                          /\ d.for = c.for /\ d.epoch = c.epoch /\ d.hotkey = c.hotkey
                          /\ d.block > c.block}
    BY DEF WeightsReadBack
<1>1. ASSUME NEW h \in Hotkeys
      PROVE  IsProportionOf([u \in DOMAIN GetWeights(n, m, h) |-> GetWeights(n, m, h)[u].num],
                            askedWeights[<<<<n, m>>, h>>])
  <2> DEFINE stored == weights[<<StorageIndex(n, m), h>>]
             read   == GetWeights(n, m, h)
  <2>1. IsProportionOf(stored, askedWeights[<<<<n, m>>, h>>])  BY DEF WeightsInv
  <2>2. DOMAIN read = DOMAIN stored /\ \A u \in DOMAIN stored : read[u].num = stored[u]
        BY DEF GetWeights, ToFloat
  <2> HIDE DEF stored, read
  <2> QED BY <2>1, <2>2 DEF IsProportionOf, read
<1>2. ASSUME NEW c \in ToSet(commits)
      PROVE  c.for = <<n, m>> <=> c.index = StorageIndex(n, m)
  <2>1. PICK k \in Netuids, l \in Mechanisms : c.for = <<k, l>> /\ c.index = StorageIndex(k, l)
        BY DEF WeightsInv
  <2> QED BY <2>1, IndexInjective
<1>3. ASSUME NEW c \in ToSet(commits), NEW d \in ToSet(commits)
      PROVE  c.for = d.for <=> c.index = d.index
  <2>1. PICK k \in Netuids, l \in Mechanisms : c.for = <<k, l>> /\ c.index = StorageIndex(k, l)
        BY DEF WeightsInv
  <2>2. PICK i \in Netuids, j \in Mechanisms : d.for = <<i, j>> /\ d.index = StorageIndex(i, j)
        BY DEF WeightsInv
  <2> QED BY <2>1, <2>2, IndexInjective
<1>4. \A c \in ToSet(commits) : c.block \in Nat /\ IsProportionOf(c.commit, c.asked)
      BY CommitRecords DEF WeightsInv
<1>5. \A c, d \in ToSet(commits) : (d.block <= c.block) <=> ~ (d.block > c.block)
      BY <1>4
<1> QED BY <1>1, <1>2, <1>3, <1>4, <1>5 DEF FetchPending

\* What is read of a mechanism's weights is in proportion to what was last set
\* for it, whatever the other mechanisms, subnets and hotkeys.
THEOREM WeightsCorrect == Spec => []WeightsReadBack
<1>1. Init => TypeOK /\ WeightsInv  BY InitType, InitWeights
<1>2. TypeOK /\ WeightsInv /\ [Next]_vars => (TypeOK /\ WeightsInv)'
      BY NextType, NextWeights
<1>3. TypeOK /\ WeightsInv => WeightsReadBack  BY WeightsInvImplies
<1> QED BY <1>1, <1>2, <1>3, PTL DEF Spec

-----------------------------------------------------------------------------
(* Commitments                                                             *)

\* Each commitment is read as what was asked for, and each revealed text is what
\* the codec makes of the text that was.
DataInv ==
    \A k \in Accounts :
        /\ MapToCommitment(commitment[k]) = askedCommitment[k]
        /\ DOMAIN revealed[k] = DOMAIN askedRevealed[k]
        /\ \A i \in DOMAIN revealed[k] :
             /\ askedRevealed[k][i] = [data  |-> askedRevealed[k][i].data,
                                       block |-> askedRevealed[k][i].block]
             /\ askedRevealed[k][i].data \in Texts
             /\ revealed[k][i].raw = Decoded(askedRevealed[k][i].data)
             /\ revealed[k][i].block = askedRevealed[k][i].block

\* The registrations there can be, and what is read of them.
LEMMA MapNothing ==
    ASSUME NEW b PROVE MapToCommitment([fields |-> <<>>, block |-> b]) = None
BY DEF MapToCommitment

LEMMA MapOne ==
    ASSUME NEW f, f # Flag, NEW b, NEW fields \in {<<f>>, <<Flag, f>>}
    PROVE  MapToCommitment([fields |-> fields, block |-> b]) =
             [kind  |-> IF f.kind = "TimelockEncrypted" THEN "timelock_encrypted" ELSE "hex_data",
              data  |-> f.data, block |-> b]
<1> DEFINE r == [fields |-> fields, block |-> b]
           IsFirst(i) == fields[i] # Flag /\ \A j \in 1 .. i - 1 : fields[j] = Flag
<1>1. \E i \in DOMAIN fields : IsFirst(i)
  <2>1. CASE fields = <<f>>
    <3>1. 1 \in DOMAIN fields /\ fields[1] = f  BY <2>1
    <3> QED BY <3>1
  <2>2. CASE fields = <<Flag, f>>
    <3>1. 2 \in DOMAIN fields /\ fields[2] = f /\ fields[1] = Flag  BY <2>2
    <3> QED BY <3>1
  <2> QED BY <2>1, <2>2
<1>2. \A i \in DOMAIN fields : IsFirst(i) => fields[i] = f
      OBVIOUS
<1>3. r.fields = fields /\ r.block = b  OBVIOUS
<1>4. FieldOf(r) = f
  <2> HIDE DEF r
  <2>1. FieldOf(r) = IF \E i \in DOMAIN fields : IsFirst(i)
                     THEN fields[CHOOSE i \in DOMAIN fields : IsFirst(i)] ELSE Flag
        BY <1>3 DEF FieldOf
  <2> HIDE DEF IsFirst
  <2> QED BY <1>1, <1>2, <2>1
<1>5. fields # <<>>  OBVIOUS
<1> HIDE DEF r
<1> QED BY <1>3, <1>4, <1>5 DEF MapToCommitment, r

LEMMA MapFlag ==
    ASSUME NEW b PROVE MapToCommitment([fields |-> <<Flag>>, block |-> b]) = Failed
<1> DEFINE r == [fields |-> <<Flag>>, block |-> b]
<1>1. r.fields = <<Flag>>  OBVIOUS
<1>2. \A i \in DOMAIN r.fields : r.fields[i] = Flag  BY <1>1
<1> HIDE DEF r
<1>3. FieldOf(r) = Flag  BY <1>2 DEF FieldOf
<1>4. r.fields # <<>>  BY <1>1
<1> QED BY <1>3, <1>4 DEF MapToCommitment, r

LEMMA InitData == Init => DataInv
<1> SUFFICES ASSUME Init, NEW k \in Accounts
             PROVE  /\ MapToCommitment(commitment[k]) = askedCommitment[k]
                    /\ revealed[k] = <<>> /\ askedRevealed[k] = <<>>
    BY DEF DataInv
<1>1. commitment[k] = [fields |-> <<>>, block |-> 0] /\ askedCommitment[k] = None
      BY DEF Init
<1> QED BY <1>1, MapNothing DEF Init

LEMMA CommitKeepsData ==
    ASSUME TypeOK, DataInv, NEW n \in Netuids, NEW h \in Hotkeys, NEW fields, NEW asked,
           Commit(n, h, fields, asked),
           MapToCommitment([fields |-> fields, block |-> block + 1]) = asked
    PROVE  DataInv'
<1>1. /\ commitment' = [commitment EXCEPT ![<<n, h>>] =
                          [fields |-> fields, block |-> block + 1]]
      /\ askedCommitment' = [askedCommitment EXCEPT ![<<n, h>>] = asked]
      /\ revealed' = revealed /\ askedRevealed' = askedRevealed
      BY DEF Commit
<1>2. DOMAIN commitment = Accounts /\ DOMAIN askedCommitment = Accounts  BY DEF TypeOK
<1>3. ASSUME NEW k \in Accounts
      PROVE  MapToCommitment(commitment'[k]) = askedCommitment'[k]
  <2>1. CASE k = <<n, h>>  BY <1>1, <1>2, <2>1
  <2>2. CASE k # <<n, h>>  BY <1>1, <1>2, <2>2 DEF DataInv
  <2> QED BY <2>1, <2>2
<1> QED BY <1>1, <1>3 DEF DataInv

LEMMA NextData == TypeOK /\ DataInv /\ [Next]_vars => DataInv'
<1> SUFFICES ASSUME TypeOK, DataInv, [Next]_vars PROVE DataInv'  OBVIOUS
<1>1. ASSUME UNCHANGED dataVars PROVE DataInv'
      BY <1>1 DEF DataInv, dataVars
<1>2. ASSUME NEW n \in Netuids, NEW h \in Hotkeys, NEW data \in Data,
             SetCommitment(n, h, data) \/ SetWithFlag(n, h, data)
      PROVE  DataInv'
  <2>1. /\ Raw(data) # Flag /\ Raw(data).kind # "TimelockEncrypted" /\ Raw(data).data = data
        BY DEF Raw, Flag
  <2>2. \A fields \in {<<Raw(data)>>, <<Flag, Raw(data)>>} :
          MapToCommitment([fields |-> fields, block |-> block + 1]) = Asked("hex_data", data)
        BY <2>1, MapOne DEF Asked
  <2> QED BY <1>2, <2>2, CommitKeepsData DEF SetCommitment, SetWithFlag
<1>3. ASSUME NEW n \in Netuids, NEW h \in Hotkeys, NEW text \in Texts, SetRevealed(n, h, text)
      PROVE  DataInv'
  <2>1. /\ Timelocked(text) # Flag /\ Timelocked(text).kind = "TimelockEncrypted"
        /\ Timelocked(text).data = text
        BY DEF Timelocked, Flag
  <2>2. MapToCommitment([fields |-> <<Timelocked(text)>>, block |-> block + 1])
          = Asked("timelock_encrypted", text)
        BY <2>1, MapOne DEF Asked
  <2> QED BY <1>3, <2>2, CommitKeepsData DEF SetRevealed
<1>4. ASSUME NEW n \in Netuids, NEW h \in Hotkeys, SetFlag(n, h) PROVE DataInv'
      BY <1>4, MapFlag, CommitKeepsData DEF SetFlag
<1>5. ASSUME NEW n \in Netuids, NEW h \in Hotkeys, Reveal(n, h) PROVE DataInv'
  <2>1. PICK text \in Texts :
          /\ revealed' = [revealed EXCEPT ![<<n, h>>] =
                            Append(@, [raw |-> Decoded(text), block |-> block + 1])]
          /\ askedRevealed' = [askedRevealed EXCEPT ![<<n, h>>] =
                                 Append(@, [data |-> text, block |-> block + 1])]
        BY <1>5 DEF Reveal
  <2>2. /\ commitment' = [commitment EXCEPT ![<<n, h>>] = [fields |-> <<>>, block |-> 0]]
        /\ askedCommitment' = [askedCommitment EXCEPT ![<<n, h>>] = None]
        BY <1>5 DEF Reveal
  <2>3. /\ DOMAIN commitment = Accounts /\ DOMAIN askedCommitment = Accounts
        /\ DOMAIN revealed = Accounts /\ DOMAIN askedRevealed = Accounts
        BY DEF TypeOK
  <2>4. ASSUME NEW k \in Accounts
        PROVE  /\ \E S : revealed[k] \in Seq(S)
               /\ \E S : askedRevealed[k] \in Seq(S)
        BY DEF TypeOK
  <2>5. ASSUME NEW k \in Accounts
        PROVE  MapToCommitment(commitment'[k]) = askedCommitment'[k]
    <3>1. CASE k = <<n, h>>  BY <2>2, <2>3, <3>1, MapNothing
    <3>2. CASE k # <<n, h>>  BY <2>2, <2>3, <3>2 DEF DataInv
    <3> QED BY <3>1, <3>2
  <2>6. ASSUME NEW k \in Accounts
        PROVE  /\ DOMAIN revealed'[k] = DOMAIN askedRevealed'[k]
               /\ \A i \in DOMAIN revealed'[k] :
                    /\ askedRevealed'[k][i] = [data  |-> askedRevealed'[k][i].data,
                                               block |-> askedRevealed'[k][i].block]
                    /\ askedRevealed'[k][i].data \in Texts
                    /\ revealed'[k][i].raw = Decoded(askedRevealed'[k][i].data)
                    /\ revealed'[k][i].block = askedRevealed'[k][i].block
    <3>1. CASE k # <<n, h>>
      <4>1. revealed'[k] = revealed[k] /\ askedRevealed'[k] = askedRevealed[k]
            BY <2>1, <2>3, <3>1
      <4> QED BY <4>1 DEF DataInv
    <3>2. CASE k = <<n, h>>
      <4>1. PICK r, S : r = revealed[k] /\ r \in Seq(S)  BY <2>4
      <4>2. PICK a, T : a = askedRevealed[k] /\ a \in Seq(T)  BY <2>4
      <4>3. PICK x : x = [raw |-> Decoded(text), block |-> block + 1]  OBVIOUS
      <4>4. PICK y : y = [data |-> text, block |-> block + 1]  OBVIOUS
      <4>5. revealed'[k] = Append(r, x) /\ askedRevealed'[k] = Append(a, y)
            BY <2>1, <2>3, <3>2, <4>1, <4>2, <4>3, <4>4
      <4>6. DOMAIN r = DOMAIN a  BY <4>1, <4>2 DEF DataInv
      <4>7. Len(r) = Len(a)  BY <4>1, <4>2, <4>6
      <4>8. DOMAIN Append(r, x) = DOMAIN Append(a, y)  BY <4>1, <4>2, <4>7
      <4>9. /\ y = [data |-> y.data, block |-> y.block]
            /\ y.data \in Texts /\ x.raw = Decoded(y.data) /\ x.block = y.block
            BY <4>3, <4>4
      <4>10. ASSUME NEW i \in DOMAIN Append(r, x)
             PROVE  \/ i \in DOMAIN r /\ Append(r, x)[i] = r[i] /\ Append(a, y)[i] = a[i]
                    \/ Append(r, x)[i] = x /\ Append(a, y)[i] = y
             BY <4>1, <4>2, <4>7
      <4>11. ASSUME NEW i \in DOMAIN r
             PROVE  /\ a[i] = [data |-> a[i].data, block |-> a[i].block]
                    /\ a[i].data \in Texts /\ r[i].raw = Decoded(a[i].data)
                    /\ r[i].block = a[i].block
             BY <4>1, <4>2 DEF DataInv
      <4> QED BY <4>5, <4>8, <4>9, <4>10, <4>11
    <3> QED BY <3>1, <3>2
  <2> QED BY <2>5, <2>6 DEF DataInv
<1>6. CASE UNCHANGED vars  BY <1>1, <1>6 DEF vars
<1>7. CASE EmptyBlock  BY <1>1, <1>7 DEF EmptyBlock
<1>8. ASSUME NEW n \in Netuids, GetSubnet(n) \/ \E t \in Tempos : SetTempo(n, t)
      PROVE  DataInv'
      BY <1>1, <1>8 DEF GetSubnet, SetTempo
<1>9. ASSUME NEW n \in Netuids, NEW m \in Mechanisms, NEW h \in Hotkeys, NEW w \in Weights,
             SetWeights(n, m, h, w) \/ CommitWeights(n, m, h, w)
      PROVE  DataInv'
      BY <1>1, <1>9 DEF SetWeights, CommitWeights
<1>10. ASSUME NEW i \in DOMAIN commits, RevealWeights(i) PROVE DataInv'
       BY <1>1, <1>10 DEF RevealWeights
<1> QED BY <1>2, <1>3, <1>4, <1>5, <1>6, <1>7, <1>8, <1>9, <1>10 DEF Next

LEMMA DataInvImplies == TypeOK /\ DataInv => CommitmentsReadBack
<1> SUFFICES ASSUME TypeOK, DataInv, NEW n \in Netuids
    PROVE  /\ \A h \in Hotkeys : GetCommitment(n, h) = askedCommitment[<<n, h>>]
           /\ \A h \in Hotkeys : FetchCommitments(n)[h] =
                IF \E g \in Hotkeys : askedCommitment[<<n, g>>] = Failed
                THEN Failed ELSE askedCommitment[<<n, h>>]
           /\ \A h \in Hotkeys : GetRevealed(n, h) = askedRevealed[<<n, h>>]
    BY DEF CommitmentsReadBack
<1>1. \A h \in Hotkeys : <<n, h>> \in Accounts  BY DEF Accounts
<1>2. \A h \in Hotkeys : GetCommitment(n, h) = askedCommitment[<<n, h>>]
      BY <1>1 DEF GetCommitment, DataInv
<1>3. ASSUME NEW h \in Hotkeys
      PROVE  FetchCommitments(n)[h] =
               IF \E g \in Hotkeys : askedCommitment[<<n, g>>] = Failed
               THEN Failed ELSE askedCommitment[<<n, h>>]
      BY <1>2 DEF FetchCommitments
<1>4. ASSUME NEW h \in Hotkeys PROVE GetRevealed(n, h) = askedRevealed[<<n, h>>]
  <2>1. PICK a : a = askedRevealed[<<n, h>>] /\ \E S : a \in Seq(S)  BY <1>1 DEF TypeOK
  <2>2. PICK r : r = revealed[<<n, h>>]  OBVIOUS
  <2>3. DOMAIN r = DOMAIN a  BY <1>1, <2>1, <2>2 DEF DataInv
  <2>4. ASSUME NEW i \in DOMAIN r
        PROVE  [data |-> DecodeRevealed(r[i].raw), block |-> r[i].block] = a[i]
    <3>1. /\ a[i] = [data |-> a[i].data, block |-> a[i].block]
          /\ a[i].data \in Texts /\ r[i].raw = Decoded(a[i].data) /\ r[i].block = a[i].block
          BY <1>1, <2>1, <2>2, <2>4 DEF DataInv
    <3>2. DecodeRevealed(r[i].raw) = a[i].data  BY <3>1, DecodeInverse
    <3> QED BY <3>1, <3>2
  <2>5. GetRevealed(n, h) = [i \in DOMAIN r |->
                               [data |-> DecodeRevealed(r[i].raw), block |-> r[i].block]]
        BY <2>2 DEF GetRevealed
  <2>6. a = [i \in DOMAIN a |-> a[i]]  BY <2>1
  <2> QED BY <2>1, <2>3, <2>4, <2>5, <2>6
<1> QED BY <1>2, <1>3, <1>4

\* Commitments are read as they were made, and revealed texts as they were
\* given, of any length a commitment can have.
THEOREM CommitmentsCorrect == Spec => []CommitmentsReadBack
<1>1. Init => TypeOK /\ DataInv  BY InitType, InitData
<1>2. TypeOK /\ DataInv /\ [Next]_vars => (TypeOK /\ DataInv)'
      BY NextType, NextData
<1>3. TypeOK /\ DataInv => CommitmentsReadBack  BY DataInvImplies
<1> QED BY <1>1, <1>2, <1>3, PTL DEF Spec

=============================================================================
