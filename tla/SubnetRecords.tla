--------------------------- MODULE SubnetRecords ---------------------------
(***************************************************************************)
(* turbobt/subnet.py, as far as it writes to the chain and reads back what *)
(* was written: weights, set or committed for later; commitments, plain or *)
(* revealed later; and the epochs Subnet.epoch() computes from the tempo.  *)
(* What matters here is what becomes of the data on the way: the place in  *)
(* storage, 16-bit proportions, length prefixes, block numbers.            *)
(*                                                                         *)
(* A block of the chain has one extrinsic at most.  What the chain does    *)
(* with it is external.  Each variable with "asked" in its name holds what *)
(* the callers wanted, for the properties to compare.                      *)
(***************************************************************************)
EXTENDS Integers, Sequences, SequencesExt

CONSTANTS
    Netuids,      \* subnets
    Mechanisms,   \* their mechanism ids
    Hotkeys,      \* validators
    Weights,      \* the weights callers give: functions from uids to integers
    Data,         \* bytes given to commitments.set(): texts, too
    Texts,        \* strings given to commitments.set_revealed()
    Tempos,       \* the tempos a subnet may have
    MaxBlock      \* bound: the height of the chain

\* A text: the bytes it has in UTF-8, and whether it begins with an x.
Text == {t \in [bytes : Nat, x : BOOLEAN] : t.x => t.bytes > 0}
NoText == [bytes |-> 0, x |-> TRUE]

\* Longer texts do not fit in a commitment, and from 8192 bytes on the prefix
\* could be taken for a letter.
MaxText == 8191

ASSUME SubnetRecordsAssumption ==
    /\ Netuids \subseteq Nat /\ \A n \in Netuids : n < 4096
    /\ Mechanisms \subseteq Nat
    /\ \A w \in Weights :
         /\ \A u \in DOMAIN w : w[u] \in Int
         /\ DOMAIN w # {} => \E u \in DOMAIN w : \A v \in DOMAIN w : w[v] <= w[u]
    /\ \A t \in Data \cup Texts : t \in Text /\ t.bytes <= MaxText
    /\ Tempos \subseteq Nat \ {0}
    /\ MaxBlock \in Nat

VARIABLES
    block,         \* the number of the last block
    tempo,         \* the tempo of each subnet
    since,         \* the block that set it
    steps,         \* the blocks each subnet's epochs began with
    subnet,        \* the tempo of a Subnet object for each, read at some time
    weights,       \* the map Weights
    commits,       \* the map TimelockedWeightCommits, in order of commitment
    commitment,    \* the map CommitmentOf
    revealed,      \* the map RevealedCommitments
    askedWeights, askedCommitment, askedRevealed

epochVars  == <<tempo, since, steps, subnet>>
weightVars == <<weights, commits, askedWeights>>
dataVars   == <<commitment, revealed, askedCommitment, askedRevealed>>
vars == <<block, epochVars, weightVars, dataVars>>

-----------------------------------------------------------------------------
(* Weights                                                                 *)

U16_MAX == 65535

\* Mutant of StorageIndex: one set of weights for all mechanisms.
NetuidOnly(netuid, mechanism) == netuid

\* _get_mechid_storage_index().
StorageIndex(netuid, mechanism) == mechanism * 4096 + netuid

Indexes == {StorageIndex(n, m) : n \in Netuids, m \in Mechanisms}

\* round(n / d), ties to the even number, d > 0.
Round(n, d) ==
    LET up == (2 * n + d) \div (2 * d) IN
    IF (2 * n + d) % (2 * d) = 0 /\ up % 2 = 1 THEN up - 1 ELSE up

\* float_to_u16_proportion(n / d), n and d of any sign.
ToProportion(n, d) ==
    IF d > 0 THEN Round(n * U16_MAX, d) ELSE Round(-n * U16_MAX, -d)

\* max(w.values()).
Largest(w) == w[CHOOSE u \in DOMAIN w : \A v \in DOMAIN w : w[v] <= w[u]]

\* _normalize(): max() of nothing raises ValueError, and {} is returned.
Normalize(w) ==
    [u \in DOMAIN w |-> IF Largest(w) = 0 THEN 0 ELSE ToProportion(w[u], Largest(w))]

\* Mutant of Encodable: whatever comes out is sent.
Unchecked(p) == TRUE

\* What can be encoded as Vec<u16>; of anything else set() and commit() raise.
Encodable(p) == \A u \in DOMAIN p : p[u] \in 0 .. U16_MAX

\* A proportion as a fraction: u16_proportion_to_float().
ToFloat(x) == [num |-> x, den |-> U16_MAX]

\* weights.get(), and of all validators weights.fetch().
GetWeights(netuid, mechanism, h) ==
    LET stored == weights[<<StorageIndex(netuid, mechanism), h>>] IN
    [u \in DOMAIN stored |-> ToFloat(stored[u])]

\* weights.fetch_pending(): the dict of an epoch has one entry for a hotkey,
\* the last.
FetchPending(netuid, mechanism) ==
    {c \in ToSet(commits) :
        /\ c.index = StorageIndex(netuid, mechanism)
        /\ \A d \in ToSet(commits) :
             d.index = c.index /\ d.epoch = c.epoch /\ d.hotkey = c.hotkey
             => d.block <= c.block}

-----------------------------------------------------------------------------
(* Epochs                                                                  *)

\* Mutant of Remainder: the last block of an epoch is the one that ends it.
NoCarry(netuid, t, b) == (b + netuid + 1) % (t + 1)

\* How far into its epoch a block is, less one.
Remainder(netuid, t, b) ==
    LET r == (b + netuid + 1) % (t + 1) IN IF r = t THEN -1 ELSE r

\* Subnet.epoch(): range(first, first + tempo + 1).
FirstOfEpoch(netuid, t, b) == b - Remainder(netuid, t, b) - 1
Epoch(netuid, t, b) ==
    FirstOfEpoch(netuid, t, b) .. b - Remainder(netuid, t, b) + t - 1

\* When the chain runs an epoch, and how it counts them.
Steps(netuid, t, b)      == (b + netuid + 1) % (t + 1) = t
EpochIndex(netuid, t, b) == (b + netuid + 1) \div (t + 1)

-----------------------------------------------------------------------------
(* Commitments                                                             *)

\* CommitmentInfo has Raw0 to Raw128.  An empty Raw is decoded as no value.
Fits(data) == data.bytes \in 1 .. 128

Flag == [kind |-> "resetBondsFlag", data |-> NoText]
Raw(data) == [kind |-> "Raw", data |-> data]
Timelocked(text) == [kind |-> "TimelockEncrypted", data |-> text]

\* The first field that is a dict, the flag when there is none.
FieldOf(registration) ==
    LET fields == registration.fields
        IsFirst(i) == fields[i] # Flag /\ \A j \in 1 .. i - 1 : fields[j] = Flag
    IN IF \E i \in DOMAIN fields : IsFirst(i)
       THEN fields[CHOOSE i \in DOMAIN fields : IsFirst(i)] ELSE Flag

Nothing(why) == [kind |-> why, data |-> NoText, block |-> 0]
None   == Nothing("None")
Failed == Nothing("ValueError")

\* _map_to_commitment(), None where there is none.
MapToCommitment(registration) ==
    CASE registration.fields = <<>> -> None
      [] registration.fields # <<>> /\ FieldOf(registration) = Flag -> Failed
      [] OTHER ->
           [kind  |-> IF FieldOf(registration).kind = "TimelockEncrypted"
                      THEN "timelock_encrypted" ELSE "hex_data",
            data  |-> FieldOf(registration).data,
            block |-> registration.block]

\* commitments.get(), and commitments.fetch(), which fails when one of them
\* does.
GetCommitment(n, h) == MapToCommitment(commitment[<<n, h>>])
FetchCommitments(n) ==
    LET got == [h \in Hotkeys |-> GetCommitment(n, h)] IN
    IF \E h \in Hotkeys : got[h] = Failed THEN [h \in Hotkeys |-> Failed] ELSE got

\* A text is committed with its length before it: one byte, or two, four times
\* the length in the low bits' mode.
Compact(n) == IF n < 64 THEN <<4 * n>> ELSE <<4 * (n % 64) + 1, n \div 64>>

\* What the codec makes of a Vec<u8>: a string if it is UTF-8, else the bytes in
\* hexadecimal.  No text begins with a continuation byte, so a prefix of 128 or
\* more is not UTF-8.
Decoded(text) ==
    LET prefix == Compact(text.bytes) IN
    [prefix |-> prefix, text |-> text,
     hex |-> \E i \in DOMAIN prefix : prefix[i] >= 128]

\* "0" is 48, and what comes next begins the text.
StartsWith0x(raw) == raw.hex \/ (raw.prefix = <<48>> /\ raw.text.x)

\* len(raw.encode()).
Length(raw) == IF raw.hex THEN 2 + 2 * (Len(raw.prefix) + raw.text.bytes)
                          ELSE Len(raw.prefix) + raw.text.bytes

\* Mutant of IsHex: `raw.startswith("0x")`.
LooksHex(raw) == StartsWith0x(raw)

\* `raw.startswith("0x") and len(raw.encode()) != 13`.
IsHex(raw) == StartsWith0x(raw) /\ Length(raw) # 13

\* get_scale_offset(), of the first byte or character.
ScaleOffset(value) == CASE value % 4 = 0 -> 1 [] value % 4 = 1 -> 2 [] value % 4 = 2 -> 4

\* _decode_revealed_commitment_str().  A string is not hexadecimal, and what is
\* hexadecimal is not the text: either gives something else.
DecodeRevealed(raw) ==
    IF raw.hex = IsHex(raw) /\ ScaleOffset(raw.prefix[1]) = Len(raw.prefix)
    THEN raw.text ELSE NoText

\* commitments.get_revealed().
GetRevealed(n, h) == [i \in DOMAIN revealed[<<n, h>>] |->
    [data |-> DecodeRevealed(revealed[<<n, h>>][i].raw), block |-> revealed[<<n, h>>][i].block]]

-----------------------------------------------------------------------------
(* The chain and its callers                                               *)

Subjects    == Netuids \X Mechanisms
Accounts    == Netuids \X Hotkeys
Proportions == {p \in {Normalize(w) : w \in Weights} \cup {<<>>} :
                  \A u \in DOMAIN p : p[u] \in 0 .. U16_MAX}
Fields == {Flag} \cup {Raw(d) : d \in Data} \cup {Timelocked(t) : t \in Texts}

\* Every variable has its type, and what is stored as proportions fits 16 bits.
TypeOK ==
    /\ block \in 0 .. MaxBlock
    /\ tempo \in [Netuids -> Tempos]
    /\ since \in [Netuids -> 0 .. MaxBlock]
    /\ steps \in [Netuids -> SUBSET (1 .. MaxBlock)]
    /\ subnet \in [Netuids -> Tempos]
    /\ weights \in [Indexes \X Hotkeys -> Proportions]
    /\ commits \in Seq([index : Indexes, epoch : Nat, hotkey : Hotkeys,
                        block : 1 .. MaxBlock, commit : Proportions,
                        for : Subjects, asked : Weights])
    /\ commitment \in [Accounts -> [fields : Seq(Fields), block : 0 .. MaxBlock]]
    /\ revealed \in [Accounts -> Seq([raw : {Decoded(t) : t \in Texts},
                                      block : 1 .. MaxBlock])]
    /\ askedWeights \in [Subjects \X Hotkeys -> Weights \cup {<<>>}]
    /\ askedCommitment \in
         [Accounts -> [kind : {"hex_data", "timelock_encrypted", "None", "ValueError"},
                       data : Data \cup Texts \cup {NoText}, block : 0 .. MaxBlock]]
    /\ askedRevealed \in [Accounts -> Seq([data : Texts, block : 1 .. MaxBlock])]

\* A block: first the epochs that are due, then what it contains.
NewBlock ==
    /\ block < MaxBlock
    /\ block' = block + 1
    /\ steps' = [n \in Netuids |-> steps[n] \cup
                   {b \in {block + 1} : Steps(n, tempo[n], b)}]

EmptyBlock ==
    /\ NewBlock
    /\ UNCHANGED <<tempo, since, subnet, weightVars, dataVars>>

\* sudo_set_tempo().
SetTempo(n, t) ==
    /\ NewBlock
    /\ tempo' = [tempo EXCEPT ![n] = t]
    /\ since' = [since EXCEPT ![n] = block + 1]
    /\ UNCHANGED <<subnet, weightVars, dataVars>>

\* SubnetReference.get() makes a new Subnet.
GetSubnet(n) ==
    /\ subnet' = [subnet EXCEPT ![n] = tempo[n]]
    /\ UNCHANGED <<block, tempo, since, steps, weightVars, dataVars>>

\* weights.set().
SetWeights(n, m, h, w) ==
    /\ Encodable(Normalize(w))
    /\ NewBlock
    /\ weights' = [weights EXCEPT ![<<StorageIndex(n, m), h>>] = Normalize(w)]
    /\ askedWeights' = [askedWeights EXCEPT ![<<<<n, m>>, h>>] = w]
    /\ UNCHANGED <<tempo, since, subnet, commits, dataVars>>

\* weights.commit(): the chain keeps it under the storage index and the epoch.
CommitWeights(n, m, h, w) ==
    /\ Encodable(Normalize(w))
    /\ NewBlock
    /\ commits' = Append(commits,
         [index |-> StorageIndex(n, m), epoch |-> EpochIndex(n, tempo[n], block + 1),
          hotkey |-> h, block |-> block + 1, commit |-> Normalize(w),
          for |-> <<n, m>>, asked |-> w])
    /\ UNCHANGED <<tempo, since, subnet, weights, askedWeights, dataVars>>

\* A commit is due, the first of its subnet and mechanism: the chain decrypts it
\* and sets the weights.
RevealWeights(i) ==
    LET c == commits[i] IN
    /\ \A j \in 1 .. i - 1 : commits[j].index # c.index
    /\ NewBlock
    /\ commits' = RemoveAt(commits, i)
    /\ weights' = [weights EXCEPT ![<<c.index, c.hotkey>>] = c.commit]
    /\ askedWeights' = [askedWeights EXCEPT ![<<c.for, c.hotkey>>] = c.asked]
    /\ UNCHANGED <<tempo, since, subnet, dataVars>>

Commit(n, h, fields, asked) ==
    /\ NewBlock
    /\ commitment' = [commitment EXCEPT ![<<n, h>>] = [fields |-> fields, block |-> block + 1]]
    /\ askedCommitment' = [askedCommitment EXCEPT ![<<n, h>>] = asked]
    /\ UNCHANGED <<tempo, since, subnet, weightVars, revealed, askedRevealed>>

Asked(kind, text) == [kind |-> kind, data |-> text, block |-> block + 1]

\* commitments.set().
SetCommitment(n, h, data) ==
    /\ Fits(data)
    /\ Commit(n, h, <<Raw(data)>>, Asked("hex_data", data))

\* commitments.set_revealed().
SetRevealed(n, h, text) ==
    Commit(n, h, <<Timelocked(text)>>, Asked("timelock_encrypted", text))

\* Other clients may put a flag before the data, or commit nothing else.
SetWithFlag(n, h, data) ==
    /\ Fits(data)
    /\ Commit(n, h, <<Flag, Raw(data)>>, Asked("hex_data", data))
SetFlag(n, h) == Commit(n, h, <<Flag>>, Failed)

\* The round of a text has come: the chain decrypts it.
Reveal(n, h) ==
    /\ \E text \in Texts :
         /\ commitment[<<n, h>>].fields = <<Timelocked(text)>>
         /\ revealed' = [revealed EXCEPT ![<<n, h>>] =
                            Append(@, [raw |-> Decoded(text), block |-> block + 1])]
         /\ askedRevealed' = [askedRevealed EXCEPT ![<<n, h>>] =
                                 Append(@, [data |-> text, block |-> block + 1])]
    /\ NewBlock
    /\ commitment' = [commitment EXCEPT ![<<n, h>>] = [fields |-> <<>>, block |-> 0]]
    /\ askedCommitment' = [askedCommitment EXCEPT ![<<n, h>>] = None]
    /\ UNCHANGED <<tempo, since, subnet, weightVars>>

Init ==
    /\ block = 0
    /\ tempo \in [Netuids -> Tempos]
    /\ since = [n \in Netuids |-> 0]
    /\ steps = [n \in Netuids |-> {}]
    /\ subnet = tempo
    /\ weights = [k \in Indexes \X Hotkeys |-> <<>>]
    /\ commits = <<>>
    /\ commitment = [k \in Accounts |-> [fields |-> <<>>, block |-> 0]]
    /\ revealed = [k \in Accounts |-> <<>>]
    /\ askedWeights = [k \in Subjects \X Hotkeys |-> <<>>]
    /\ askedCommitment = [k \in Accounts |-> None]
    /\ askedRevealed = [k \in Accounts |-> <<>>]

Next ==
    \/ EmptyBlock
    \/ \E n \in Netuids :
         \/ GetSubnet(n)
         \/ \E t \in Tempos : SetTempo(n, t)
         \/ \E m \in Mechanisms, h \in Hotkeys, w \in Weights :
              SetWeights(n, m, h, w) \/ CommitWeights(n, m, h, w)
         \/ \E h \in Hotkeys :
              \/ \E data \in Data : SetCommitment(n, h, data) \/ SetWithFlag(n, h, data)
              \/ \E text \in Texts : SetRevealed(n, h, text)
              \/ SetFlag(n, h)
              \/ Reveal(n, h)
    \/ \E i \in DOMAIN commits : RevealWeights(i)

Spec == Init /\ [][Next]_vars

-----------------------------------------------------------------------------
(* Properties                                                              *)

Abs(x) == IF x < 0 THEN -x ELSE x

\* Each is the fraction of the largest weight, to the nearest of 65535; zeros
\* when the largest is 0.  (Weights of both signs, or all negative, give
\* proportions below 0 or above 65535, as a rule, and those are not encoded.)
IsProportionOf(p, w) ==
    /\ DOMAIN p = DOMAIN w
    /\ \A u \in DOMAIN w :
         LET top == Largest(w) IN
         IF top = 0 THEN p[u] = 0
         ELSE 2 * Abs(p[u] * top - w[u] * U16_MAX) <= Abs(top)

\* Weights read from a mechanism are in proportion to those last set there, at
\* once or by a commit that has been revealed, whatever was set for other
\* mechanisms; and fetch_pending() shows the commits of the mechanism that have
\* not been, but of a hotkey only the last in an epoch.
WeightsReadBack ==
    \A n \in Netuids, m \in Mechanisms :
        /\ \A h \in Hotkeys :
             LET read == GetWeights(n, m, h) IN
             IsProportionOf([u \in DOMAIN read |-> read[u].num], askedWeights[<<<<n, m>>, h>>])
        /\ FetchPending(n, m) =
             {c \in ToSet(commits) :
                /\ c.for = <<n, m>>
                /\ IsProportionOf(c.commit, c.asked)
                /\ ~ \E d \in ToSet(commits) :
                       /\ d.for = c.for /\ d.epoch = c.epoch /\ d.hotkey = c.hotkey
                       /\ d.block > c.block}

\* The epoch a Subnet object computes for a block is the one the chain was in:
\* it began with a step of the chain and has no other, unless the tempo has
\* changed since it began, or since the object was read.
EpochsFollowChain ==
    \A n \in Netuids : \A b \in 1 .. block :
        LET first == FirstOfEpoch(n, subnet[n], b) IN
        subnet[n] = tempo[n] /\ since[n] < first =>
            /\ b \in Epoch(n, subnet[n], b)
            /\ steps[n] \cap Epoch(n, subnet[n], b) = {first}

\* Commitments read are those last made, and revealed texts those that were
\* committed, in order, whatever their length and first letter.  What was made
\* without data cannot be read, by get() of that hotkey or fetch() of the subnet.
CommitmentsReadBack ==
    \A n \in Netuids :
        /\ \A h \in Hotkeys : GetCommitment(n, h) = askedCommitment[<<n, h>>]
        /\ \A h \in Hotkeys : FetchCommitments(n)[h] =
             IF \E g \in Hotkeys : askedCommitment[<<n, g>>] = Failed
             THEN Failed ELSE askedCommitment[<<n, h>>]
        /\ \A h \in Hotkeys : GetRevealed(n, h) = askedRevealed[<<n, h>>]

=============================================================================
