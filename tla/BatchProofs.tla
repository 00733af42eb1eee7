---------------------------- MODULE BatchProofs ----------------------------
(***************************************************************************)
(* Proofs about Batch, for any number of jobs and batches, in one another  *)
(* in any way, whatever calls fail.                                        *)
(***************************************************************************)
EXTENDS Batch, SequenceTheorems, FiniteSetTheorems, TLAPS

-----------------------------------------------------------------------------
(* What is reached from a set                                              *)

LEMMA ReachedHas ==
    ASSUME NEW S, NEW links
    PROVE  S \cap Items \subseteq Reached(S, links)
BY DEF Reached

LEMMA ReachedStep ==
    ASSUME NEW S, NEW links, NEW l \in links,
           l[1] \in Reached(S, links), l[2] \in Items
    PROVE  l[2] \in Reached(S, links)
BY DEF Reached

LEMMA ReachedLeast ==
    ASSUME NEW S, NEW links, NEW T \in SUBSET Items, S \subseteq T,
           \A l \in links : l[1] \in T => l[2] \in T
    PROVE  Reached(S, links) \subseteq T
BY DEF Reached

LEMMA ReachedItems ==
    ASSUME NEW S, NEW links
    PROVE  Reached(S, links) \subseteq Items
BY DEF Reached

\* An item is there because it was given, or for another that is.
LEMMA ReachedFrom ==
    ASSUME NEW S \in SUBSET Items, NEW links \in SUBSET (Items \X Items),
           NEW x \in Reached(S, links), x \notin S
    PROVE  \E l \in links : l[1] \in Reached(S, links) /\ l[2] = x
<1> DEFINE R == Reached(S, links)
           T == {y \in R : y \in S \/ \E l \in links : l[1] \in R /\ l[2] = y}
<1>1. T \in SUBSET Items
  BY ReachedItems
<1>2. S \subseteq T
  BY ReachedHas
<1>3. ASSUME NEW l \in links, l[1] \in T PROVE l[2] \in T
  <2>1. l[2] \in Items
    OBVIOUS
  <2> QED BY <1>3, <2>1, ReachedStep
<1>4. R \subseteq T
  <2> HIDE DEF T
  <2> QED BY <1>1, <1>2, <1>3, ReachedLeast
<1> QED BY <1>4

LEMMA ReachedMore ==
    ASSUME NEW S, NEW U, NEW links, NEW more \in SUBSET (Items \X Items),
           S \subseteq Reached(U, more), links \subseteq more
    PROVE  Reached(S, links) \subseteq Reached(U, more)
<1> DEFINE T == Reached(U, more)
<1>1. T \in SUBSET Items
  BY ReachedItems
<1>2. ASSUME NEW l \in links, l[1] \in T PROVE l[2] \in T
  <2>1. l \in more /\ l[2] \in Items
    OBVIOUS
  <2> QED BY <1>2, <2>1, ReachedStep
<1> HIDE DEF T
<1> QED BY <1>1, <1>2, ReachedLeast DEF T

-----------------------------------------------------------------------------
(* Types, and the batches the main task is inside of                       *)

Nesting ==
    /\ main = "exit" => open # <<>> /\ ctx = ContextOfSubmission
    /\ \A m, n \in 1 .. Len(open) : open[m] = open[n] => m = n
    /\ Elements(open) \cap closed = {}

NestInv == TypeOK /\ Nesting

Stages == {"idle", "running", "done", "raised"}

JobTypes == [op : Tasks, stage : Stages, ctx : Batches \cup {None}, waits : 0 .. MaxWaits]

LEMMA JobsTyped == TypeOK <=> TypeOK /\ job \in [Jobs -> JobTypes]
BY DEF TypeOK, JobTypes, Stages

\* Of the jobs only j changes, and only these two fields of it.
Becomes(j, stage, waits) ==
    /\ job' \in [Jobs -> JobTypes]
    /\ job'[j].stage = stage /\ job'[j].waits = waits
    /\ job'[j].op = job[j].op /\ job'[j].ctx = job[j].ctx
    /\ \A k \in Jobs : k # j => job'[k] = job[k]

LEMMA JobBecomes ==
    ASSUME job \in [Jobs -> JobTypes], NEW j \in Jobs,
           NEW stage \in Stages, NEW waits \in 0 .. MaxWaits,
           job' = [job EXCEPT ![j] = [job[j] EXCEPT !.stage = stage, !.waits = waits]]
    PROVE  Becomes(j, stage, waits)
<1> DEFINE new == [job[j] EXCEPT !.stage = stage, !.waits = waits]
<1>1. /\ new \in JobTypes /\ new.stage = stage /\ new.waits = waits
      /\ new.op = job[j].op /\ new.ctx = job[j].ctx
  BY DEF JobTypes
<1>2. job' = [job EXCEPT ![j] = new]
  OBVIOUS
<1> HIDE DEF new, JobTypes
<1>3. /\ job' \in [Jobs -> JobTypes] /\ job'[j] = new
      /\ \A k \in Jobs : k # j => job'[k] = job[k]
  BY <1>1, <1>2
<1> QED BY <1>1, <1>3 DEF Becomes

\* The end of a job, and a wait for its Extrinsic.
LEMMA EndBecomes ==
    ASSUME job \in [Jobs -> JobTypes], NEW j \in Jobs, NEW stage \in Stages,
           job' = [job EXCEPT ![j].stage = stage]
    PROVE  Becomes(j, stage, job[j].waits)
<1>1. job[j].waits \in 0 .. MaxWaits
  BY DEF JobTypes
<1>2. [job[j] EXCEPT !.stage = stage] = [job[j] EXCEPT !.stage = stage, !.waits = job[j].waits]
  BY DEF JobTypes
<1>3. job' = [job EXCEPT ![j] = [job[j] EXCEPT !.stage = stage]]
  OBVIOUS
<1> QED BY <1>1, <1>2, <1>3, JobBecomes

LEMMA WaitBecomes ==
    ASSUME job \in [Jobs -> JobTypes], NEW j \in Jobs, MayWait(j),
           job' = [job EXCEPT ![j].waits = @ + 1]
    PROVE  Becomes(j, job[j].stage, job[j].waits + 1)
<1>1. job[j].waits \in Nat /\ job[j].waits + 1 \in 0 .. MaxWaits /\ job[j].stage \in Stages
  BY BatchAssumption DEF JobTypes, MayWait
<1>2. [job[j] EXCEPT !.waits = job[j].waits + 1]
        = [job[j] EXCEPT !.stage = job[j].stage, !.waits = job[j].waits + 1]
  BY DEF JobTypes
<1>3. job' = [job EXCEPT ![j] = [job[j] EXCEPT !.waits = job[j].waits + 1]]
  OBVIOUS
<1> QED BY <1>1, <1>2, <1>3, JobBecomes

LEMMA SubmitBecomes ==
    ASSUME job \in [Jobs -> JobTypes], NEW j \in Jobs,
           NEW waits \in BOOLEAN, NEW raised \in BOOLEAN,
           job' = [job EXCEPT ![j].stage = IF raised THEN "raised" ELSE "done",
                              ![j].waits = IF waits THEN 1 ELSE 0]
    PROVE  Becomes(j, IF raised THEN "raised" ELSE "done", IF waits THEN 1 ELSE 0)
<1> DEFINE stage == IF raised THEN "raised" ELSE "done"
           n == IF waits THEN 1 ELSE 0
<1>1. stage \in Stages /\ n \in 0 .. MaxWaits
  BY BatchAssumption DEF Stages
<1>2. job' = [job EXCEPT ![j] = [job[j] EXCEPT !.stage = stage, !.waits = n]]
  OBVIOUS
<1> HIDE DEF stage, n
<1>3. Becomes(j, stage, n)
  BY <1>1, <1>2, JobBecomes
<1> QED BY <1>3 DEF stage, n

LEMMA NothingOpen == ASSUME NEW s, s = <<>> PROVE Elements(s) = {} /\ s \in Seq(Batches)
BY DEF Elements

LEMMA NestInit == Init => NestInv
<1> SUFFICES ASSUME Init PROVE NestInv
  OBVIOUS
<1>1. /\ main = "body" /\ open = <<>> /\ failing = FALSE /\ ctx = None
      /\ closed = {} /\ sent = {} /\ took = {}
  BY DEF Init
<1>2. PICK ops \in [Jobs -> Tasks] :
        job = [j \in Jobs |-> [op |-> ops[j], stage |-> "idle", ctx |-> None, waits |-> 0]]
  BY DEF Init
<1>3. class \in [Batches -> Classes]
  BY DEF Init, Classes
<1>4. calls \in [Batches -> Seq(Items)] /\ encoded \in [Batches -> Seq(Items)]
  <2>1. << >> \in Seq(Items)
    BY EmptySeq
  <2> QED BY <2>1, Zenon DEF Init
<1>5. Elements(open) = {} /\ open \in Seq(Batches) /\ Len(open) = 0
  BY <1>1, NothingOpen
<1>6. job \in [Jobs -> JobTypes]
  BY <1>2, BatchAssumption DEF JobTypes, Stages
<1>7. TypeOK
  BY <1>1, <1>3, <1>4, <1>5, <1>6 DEF TypeOK, JobTypes, Stages
<1> QED BY <1>1, <1>5, <1>7 DEF NestInv, Nesting

LEMMA AllButLast ==
    ASSUME NEW S, NEW q \in Seq(S), Len(q) \in Nat \ {0}
    PROVE  /\ SubSeq(q, 1, Len(q) - 1) \in Seq(S)
           /\ Len(SubSeq(q, 1, Len(q) - 1)) = Len(q) - 1
           /\ \A n \in 1 .. Len(q) - 1 : SubSeq(q, 1, Len(q) - 1)[n] = q[n]
<1> DEFINE k == Len(q) - 1
           s == SubSeq(q, 1, k)
<1>1. k \in Nat /\ \A n \in 1 .. k : q[n] \in S
  OBVIOUS
<1> HIDE DEF k
<1>2. /\ s \in Seq(S)
      /\ Len(s) = IF 1 <= k THEN k - 1 + 1 ELSE 0
      /\ \A n \in 1 .. k - 1 + 1 : s[n] = q[1 + n - 1]
  BY <1>1, SubSeqProperties
<1>3. Len(s) = k /\ \A n \in 1 .. k : n \in 1 .. k - 1 + 1 /\ 1 + n - 1 = n
  BY <1>1, <1>2
<1> HIDE DEF s
<1>4. \A n \in 1 .. k : s[n] = q[n]
  BY <1>2, <1>3
<1> QED BY <1>2, <1>3, <1>4 DEF k, s

\* The innermost batch, and what is left without it.
LEMMA Inside ==
    ASSUME NestInv, open # <<>>
    PROVE  /\ Len(open) \in Nat \ {0}
           /\ Innermost \in Batches /\ Innermost \in Elements(open)
           /\ Innermost \notin closed
           /\ \A s : s = SubSeq(open, 1, Len(open) - 1) =>
                /\ s \in Seq(Batches)
                /\ Len(s) = Len(open) - 1
                /\ \A n \in 1 .. Len(s) : s[n] = open[n]
                /\ Elements(s) = Elements(open) \ {Innermost}
<1>1. open \in Seq(Batches)
  BY DEF NestInv, TypeOK
<1>2. Len(open) \in Nat \ {0}
  BY <1>1
<1>3. Innermost \in Batches /\ Innermost \in Elements(open)
  BY <1>1, <1>2 DEF Innermost, Elements
<1>4. Innermost \notin closed
  BY <1>3 DEF NestInv, Nesting
<1>5. ASSUME NEW s, s = SubSeq(open, 1, Len(open) - 1)
      PROVE  /\ s \in Seq(Batches)
             /\ Len(s) = Len(open) - 1
             /\ \A n \in 1 .. Len(s) : s[n] = open[n]
             /\ Elements(s) = Elements(open) \ {Innermost}
  <2>1. /\ s \in Seq(Batches)
        /\ Len(s) = Len(open) - 1
        /\ \A n \in 1 .. Len(s) : s[n] = open[n]
    BY <1>1, <1>2, <1>5, AllButLast
  <2>2. \A n \in 1 .. Len(open) - 1 : open[n] # Innermost
    BY <1>2 DEF Innermost, NestInv, Nesting
  <2>3. \A n \in 1 .. Len(open) : n = Len(open) \/ n \in 1 .. Len(open) - 1
    BY <1>2
  <2>4. Elements(s) = Elements(open) \ {Innermost}
    BY <1>2, <2>1, <2>2, <2>3 DEF Elements, Innermost
  <2> QED BY <2>1, <2>4
<1> QED BY <1>2, <1>3, <1>4, <1>5

LEMMA ElementsAppend ==
    ASSUME NEW S, NEW s \in Seq(S), NEW x \in S
    PROVE  /\ Append(s, x) \in Seq(S)
           /\ Elements(Append(s, x)) = Elements(s) \cup {x}
<1>1. /\ Append(s, x) \in Seq(S) /\ Len(Append(s, x)) = Len(s) + 1
      /\ \A n \in 1 .. Len(s) : Append(s, x)[n] = s[n]
      /\ Append(s, x)[Len(s) + 1] = x
      /\ Len(s) \in Nat
  OBVIOUS
<1>2. \A n \in 1 .. Len(s) + 1 : n = Len(s) + 1 \/ n \in 1 .. Len(s)
  BY <1>1
<1>3. Len(s) + 1 \in 1 .. Len(s) + 1 /\ 1 .. Len(s) \subseteq 1 .. Len(s) + 1
  BY <1>1
<1> QED BY <1>1, <1>2, <1>3 DEF Elements

\* What the main task and a batch become when it is encoded.
LEMMA Encoded ==
    ASSUME NestInv, main = "exit", Encode(Innermost)
    PROVE  /\ open # <<>> /\ Innermost \in Batches
           /\ Innermost \in Elements(open) /\ Innermost \notin closed
           /\ closed' = closed \cup {Innermost}
           /\ encoded' = [encoded EXCEPT ![Innermost] = calls[Innermost]]
           /\ main' = "body"
           /\ Elements(open)' = Elements(open) \ {Innermost}
<1>1. open # <<>>
  BY DEF NestInv, Nesting
<1> QED BY ZenonT(40), <1>1, Inside DEF Encode, Elements

\* The main task goes out of a batch: the context is that of the one around.
LEMMA GoesOut ==
    ASSUME NestInv, main = "exit", open' = SubSeq(open, 1, Len(open) - 1),
           closed' = closed \cup {Innermost}, main' = "body", ctx' = ctx
    PROVE  /\ open' \in Seq(Batches)
           /\ ctx' = IF open' = <<>> THEN None ELSE open'[Len(open')]
           /\ ctx # None => ctx \in Elements(open')
           /\ Nesting'
<1>1. open # <<>> /\ ctx = ContextOfSubmission
  BY DEF NestInv, Nesting
<1>2. /\ Len(open) \in Nat \ {0}
      /\ open' \in Seq(Batches)
      /\ Len(open') = Len(open) - 1
      /\ \A n \in 1 .. Len(open') : open'[n] = open[n]
      /\ Elements(open') = Elements(open) \ {Innermost}
  BY <1>1, Inside
<1>3. open' = <<>> <=> Len(open) = 1
  <2>1. open' # <<>> => Len(open') \in Nat \ {0}
    BY <1>2, EmptySeq
  <2>2. open' = <<>> => Len(open') = 0
    OBVIOUS
  <2> QED BY <1>2, <2>1, <2>2
<1>4. ctx' = IF open' = <<>> THEN None ELSE open'[Len(open')]
  BY <1>1, <1>2, <1>3 DEF ContextOfSubmission
<1>5. ctx # None => ctx \in Elements(open')
  BY <1>2, <1>3, <1>4 DEF Elements
<1>6. \A m, n \in 1 .. Len(open') : open'[m] = open'[n] => m = n
  BY <1>2 DEF NestInv, Nesting
<1>7. Elements(open') \cap closed' = {}
  BY <1>2 DEF NestInv, Nesting
<1> QED BY <1>2, <1>4, <1>5, <1>6, <1>7 DEF Nesting, Elements

LEMMA TookJobs ==
    ASSUME NEW item, NEW signer, Executed(item, signer), took \subseteq Jobs
    PROVE  took' \subseteq Jobs
BY DEF Executed, Effect

LEMMA NestNext == NestInv /\ [Next]_vars => NestInv'
<1> SUFFICES ASSUME NestInv, [Next]_vars PROVE NestInv'
  OBVIOUS
<1> USE BatchAssumption
<1>0. TypeOK /\ Nesting
  BY DEF NestInv
<1>1. ASSUME NEW b \in Batches, NEW made \in Classes, Enter(b, made)
      PROVE  NestInv'
  <2>1. /\ open' = Append(open, b) /\ open' \in Seq(Batches)
        /\ Len(open') = Len(open) + 1 /\ Len(open) \in Nat
        /\ open'[Len(open')] = b
        /\ \A n \in 1 .. Len(open) : open'[n] = open[n] /\ open[n] # b
    BY <1>0, <1>1 DEF Enter, TypeOK, Elements
  <2>2. open' # <<>>
    BY <2>1, EmptySeq
  <2>3. \A n \in 1 .. Len(open') : n \in 1 .. Len(open) \/ n = Len(open')
    BY <2>1
  <2>4. \A m, n \in 1 .. Len(open') : open'[m] = open'[n] => m = n
    BY <1>0, <2>1, <2>3 DEF Nesting
  <2>5. Elements(open') \cap closed' = {}
    BY <1>0, <1>1, <2>1, <2>3 DEF Nesting, Elements, Enter
  <2>6. Nesting'
    BY <1>1, <2>4, <2>5 DEF Nesting, Enter, Elements
  <2>7. TypeOK'
    BY <1>0, <1>1, <2>1, <2>2 DEF Enter, TypeOK
  <2> QED BY <2>6, <2>7 DEF NestInv
<1>2. ASSUME NEW jobs \in SUBSET Jobs, Gather(jobs) PROVE NestInv'
  <2>1. job' \in [Jobs -> JobTypes]
    <3>1. job \in [Jobs -> JobTypes] /\ ctx \in Batches \cup {None}
      BY <1>0, JobsTyped DEF TypeOK
    <3>2. ASSUME NEW j \in Jobs
          PROVE  [job[j] EXCEPT !.stage = "running", !.ctx = ctx] \in JobTypes
      BY <3>1 DEF JobTypes, Stages
    <3> HIDE DEF JobTypes
    <3> QED BY <1>2, <3>1, <3>2 DEF Gather
  <2>2. TypeOK'
    BY <1>0, <1>2, <2>1 DEF Gather, TypeOK, JobTypes, Stages
  <2>3. Nesting'
    <3>1. main' = "gather" /\ open' = open /\ closed' = closed
      BY <1>2 DEF Gather
    <3> QED BY <1>0, <3>1 DEF Nesting, Elements
  <2> QED BY <2>2, <2>3 DEF NestInv
<1>3. CASE Gathered \/ GatherRaises
  <2>1. /\ main = "gather" /\ main' = "body"
        /\ failing' \in {failing, TRUE}
        /\ UNCHANGED <<open, ctx, job, class, calls, closed, encoded, sent, took>>
    BY <1>3 DEF Gathered, GatherRaises
  <2>2. Nesting'
    BY <1>0, <2>1 DEF Nesting, Elements
  <2>3. TypeOK'
    BY <1>0, <2>1 DEF TypeOK
  <2> QED BY <2>2, <2>3 DEF NestInv
<1>4. CASE Leave
  <2>1. Len(open) \in Nat \ {0} /\ open # <<>>
    BY <1>4, Inside DEF Leave
  <2>2. ctx' \in Batches \cup {None}
    <3>1. open \in Seq(Batches)
      BY <1>0 DEF TypeOK
    <3>2. Len(open) # 1 => Len(open) - 1 \in 1 .. Len(open)
      <4>1. PICK k \in Nat \ {0} : k = Len(open)
        BY <2>1
      <4>2. k # 1 => k - 1 \in 1 .. k
        OBVIOUS
      <4> QED BY <4>1, <4>2
    <3>3. Len(open) # 1 => open[Len(open) - 1] \in Batches
      BY <3>1, <3>2
    <3> QED BY <1>4, <3>3 DEF Leave, ContextOfSubmission
  <2>3. TypeOK'
    BY <1>0, <1>4, <2>2 DEF Leave, TypeOK
  <2>4. Nesting'
    BY <1>0, <1>4, <2>1 DEF Leave, Nesting, ContextOfSubmission, Elements
  <2> QED BY <2>3, <2>4 DEF NestInv
<1>5. CASE SubmitBatch
  <2>1. PICK raised \in BOOLEAN : /\ Submitted(Innermost, BatchSigner, raised)
                                  /\ failing' = (failing \/ raised)
    BY <1>5 DEF SubmitBatch
  <2>2. /\ main = "exit" /\ Encode(Innermost)
        /\ ctx' = ctx /\ job' = job /\ class' = class /\ calls' = calls
    BY <1>5 DEF SubmitBatch
  <2>3. /\ Innermost \in Batches /\ closed' = closed \cup {Innermost}
        /\ encoded' = [encoded EXCEPT ![Innermost] = calls[Innermost]]
        /\ main' = "body"
    BY <2>2, Encoded
  <2>4. /\ open' \in Seq(Batches)
        /\ ctx' = IF open' = <<>> THEN None ELSE open'[Len(open')]
        /\ Nesting'
    BY <2>2, <2>3, GoesOut DEF Encode
  <2>5. sent' \subseteq Items /\ took' \subseteq Jobs
    BY <1>0, <2>1, <2>3, TookJobs DEF Submitted, TypeOK, Items
  <2>6. /\ failing' \in BOOLEAN /\ encoded' \in [Batches -> Seq(Items)]
        /\ closed' \subseteq Batches
    BY <1>0, <2>1, <2>3 DEF TypeOK
  <2> HIDE DEF Innermost
  <2>7. TypeOK'
    BY <1>0, <2>2, <2>3, <2>4, <2>5, <2>6 DEF TypeOK
  <2> QED BY <2>4, <2>7 DEF NestInv
<1>6. CASE AddBatch
  <2>1. /\ main = "exit" /\ Encode(Innermost) /\ ctx # None
        /\ calls' = [calls EXCEPT ![ctx] = Append(@, Innermost)]
        /\ UNCHANGED <<failing, ctx, job, class, sent, took>>
    BY <1>6 DEF AddBatch
  <2>2. /\ Innermost \in Batches /\ closed' = closed \cup {Innermost}
        /\ encoded' = [encoded EXCEPT ![Innermost] = calls[Innermost]]
        /\ main' = "body"
    BY <2>1, Encoded
  <2>3. /\ open' \in Seq(Batches)
        /\ ctx' = IF open' = <<>> THEN None ELSE open'[Len(open')]
        /\ Nesting'
    BY <2>1, <2>2, GoesOut DEF Encode
  <2>4. /\ encoded' \in [Batches -> Seq(Items)] /\ closed' \subseteq Batches
        /\ ctx \in Batches
    BY <1>0, <2>1, <2>2 DEF TypeOK
  <2>5. Append(calls[ctx], Innermost) \in Seq(Items)
    BY <1>0, <2>2, <2>4, ElementsAppend DEF TypeOK, Items
  <2>6. calls' \in [Batches -> Seq(Items)]
    BY <1>0, <2>1, <2>4, <2>5 DEF TypeOK
  <2>7. TypeOK'
    BY <1>0, <2>1, <2>2, <2>3, <2>4, <2>6 DEF TypeOK
  <2> QED BY <2>3, <2>7 DEF NestInv
<1>7. CASE LeaveRaises
  <2>1. /\ open # <<>> /\ main = "exit" /\ main' = "body" /\ ctx' = ctx
        /\ open' = SubSeq(open, 1, Len(open) - 1)
        /\ closed' = closed \cup {Innermost}
    BY <1>0, <1>7 DEF LeaveRaises, Nesting
  <2>2. Innermost \in Batches
    BY <2>1, Inside
  <2>3. /\ open' \in Seq(Batches)
        /\ ctx' = IF open' = <<>> THEN None ELSE open'[Len(open')]
        /\ Nesting'
    BY <2>1, GoesOut
  <2>4. TypeOK'
    BY <1>0, <1>7, <2>1, <2>2, <2>3 DEF TypeOK, LeaveRaises
  <2> QED BY <2>3, <2>4 DEF NestInv
<1>8. ASSUME NEW j \in Jobs, NEW b \in Batches \cup {None}, Waited(j, b) PROVE NestInv'
  <2>1. /\ b \in Batches
        /\ calls' = [calls EXCEPT ![b] = Append(@, j)]
        /\ UNCHANGED <<main, open, failing, ctx, class, closed, encoded, sent, took>>
    BY <1>8 DEF Waited, AddCall
  <2>2. Append(calls[b], j) \in Seq(Items)
    BY <1>0, <2>1, ElementsAppend DEF TypeOK, Items
  <2>3. calls' \in [Batches -> Seq(Items)]
    BY <1>0, <2>1, <2>2 DEF TypeOK
  <2>4. job' \in [Jobs -> JobTypes]
    BY <1>0, <1>8, JobsTyped, WaitBecomes DEF Waited, Becomes
  <2>5. TypeOK'
    BY <1>0, <2>1, <2>3, <2>4 DEF TypeOK, JobTypes, Stages
  <2>6. Nesting'
    BY <1>0, <2>1 DEF Nesting, ContextOfSubmission, Elements
  <2> QED BY <2>5, <2>6 DEF NestInv
<1>9. ASSUME NEW j \in Jobs, SubmitCall(j) PROVE NestInv'
  <2>1. PICK waits \in BOOLEAN, raised \in BOOLEAN :
          /\ Submitted(j, Signer(job[j].op), raised \/ ~ waits)
          /\ job' = [job EXCEPT ![j].stage = IF raised THEN "raised" ELSE "done",
                                ![j].waits = IF waits THEN 1 ELSE 0]
    BY <1>9 DEF SubmitCall
  <2>2. job' \in [Jobs -> JobTypes]
    BY <1>0, <2>1, JobsTyped, SubmitBecomes DEF Becomes
  <2>3. sent' \subseteq Items /\ took' \subseteq Jobs
    BY <1>0, <2>1, TookJobs DEF Submitted, TypeOK, Items
  <2>4. UNCHANGED <<main, open, failing, ctx, class, calls, closed, encoded>>
    BY <1>9 DEF SubmitCall
  <2>5. TypeOK'
    BY <1>0, <2>2, <2>3, <2>4 DEF TypeOK, JobTypes, Stages
  <2>6. Nesting'
    BY <1>0, <2>4 DEF Nesting, ContextOfSubmission, Elements
  <2> QED BY <2>5, <2>6 DEF NestInv
<1>10. ASSUME NEW j \in Jobs, JobReturns(j) \/ JobRaises(j) PROVE NestInv'
  <2>1. /\ \E stage \in Stages : job' = [job EXCEPT ![j].stage = stage]
        /\ UNCHANGED <<main, open, failing, ctx, class, calls, closed, encoded, sent, took>>
    BY <1>10 DEF JobReturns, JobRaises, JobEnds, Stages
  <2>2. job' \in [Jobs -> JobTypes]
    BY <1>0, <2>1, JobsTyped, EndBecomes DEF Becomes
  <2>3. TypeOK'
    BY <1>0, <2>1, <2>2 DEF TypeOK, JobTypes, Stages
  <2>4. Nesting'
    BY <1>0, <2>1 DEF Nesting, ContextOfSubmission, Elements
  <2> QED BY <2>3, <2>4 DEF NestInv
<1>11. ASSUME NEW j \in Jobs, Add(j) PROVE NestInv'
  <2>1. job[j].ctx \in Batches \cup {None}
    BY <1>0 DEF TypeOK
  <2> QED BY <1>8, <1>11, <2>1 DEF Add
<1>12. ASSUME NEW j \in Jobs, AddLater(j) PROVE NestInv'
  <2>1. ctx \in Batches \cup {None}
    BY <1>0 DEF TypeOK
  <2>2. CASE Waited(j, ctx)
    BY <1>8, <2>1, <2>2
  <2>3. CASE /\ failing' = TRUE
             /\ UNCHANGED <<main, open, ctx, job, class, calls, closed, encoded, sent, took>>
    <3>1. TypeOK'
      BY <1>0, <2>3 DEF TypeOK
    <3>2. Nesting'
      BY <1>0, <2>3 DEF Nesting, ContextOfSubmission, Elements
    <3> QED BY <3>1, <3>2 DEF NestInv
  <2> QED BY <1>12, <2>2, <2>3 DEF AddLater
<1>13. CASE UNCHANGED vars
  <2>1. TypeOK'
    BY <1>0, <1>13 DEF vars, TypeOK
  <2>2. Nesting'
    BY <1>0, <1>13 DEF vars, Nesting, ContextOfSubmission, Elements
  <2> QED BY <2>1, <2>2 DEF NestInv
<1> QED
  BY <1>1, <1>2, <1>3, <1>4, <1>5, <1>6, <1>7, <1>9, <1>10, <1>13, <1>11, <1>12 DEF Next

\* Every variable has its type, and outside an __aexit__ a task that is started
\* copies the innermost batch the main task is inside of.
THEOREM BatchTyped == Spec => []TypeOK
BY NestInit, NestNext, PTL DEF Spec, NestInv

-----------------------------------------------------------------------------
(* The kinds of step, by what happens to the calls                         *)

\* Nothing: a job may start, return or raise; a batch may be entered.
Still ==
    /\ UNCHANGED <<calls, encoded, closed, sent, took>>
    /\ \A b \in closed : class'[b] = class[b]
    /\ \A j \in Jobs : /\ job'[j].op = job[j].op /\ job'[j].waits = job[j].waits
                       /\ job[j].stage # "idle" => job'[j].ctx = job[j].ctx
                       /\ \/ job'[j].stage = job[j].stage
                          \/ job[j].stage = "idle" /\ job'[j].stage = "running"
                          \/ job[j].stage = "running" /\ job'[j].stage \in {"done", "raised"}

\* A batch is never sent.
GivesUp(r) ==
    /\ r \notin closed /\ closed' = closed \cup {r}
    /\ UNCHANGED <<calls, encoded, sent, took, class, job>>

\* A batch is encoded: and submitted, or added to another.
Closes(r) ==
    /\ r \notin closed /\ closed' = closed \cup {r}
    /\ encoded' = [encoded EXCEPT ![r] = calls[r]]
    /\ UNCHANGED <<class, job>>

Submits(r) ==
    /\ Closes(r)
    /\ calls' = calls
    /\ sent' = sent \cup {r}
    /\ took' = took \/ Executed(r, BatchSigner)

Joins(r, b) ==
    /\ Closes(r)
    /\ calls' = [calls EXCEPT ![b] = Append(@, r)]
    /\ UNCHANGED <<sent, took>>

\* The call of a job is added to a batch, or submitted.
Adds(j, b) ==
    /\ job[j].stage \in {"running", "done"} /\ job[j].ctx # None
    /\ Becomes(j, job[j].stage, job[j].waits + 1)
    /\ calls' = [calls EXCEPT ![b] = Append(@, j)]
    /\ UNCHANGED <<encoded, closed, class, sent, took>>

Sends(j) ==
    /\ job[j].stage = "running" /\ job[j].ctx = None
    /\ \E stage \in {"done", "raised"}, waits \in {0, 1} : Becomes(j, stage, waits)
    /\ sent' = sent \cup {j}
    /\ took' = took \/ Executed(j, Signer(job[j].op))
    /\ UNCHANGED <<calls, encoded, closed, class>>

\* The steps that leave the calls alone.
StillStep ==
    \/ \E b \in Batches, made \in Classes : Enter(b, made)
    \/ \E jobs \in SUBSET Jobs : Gather(jobs)
    \/ Gathered \/ GatherRaises \/ Leave
    \/ \E j \in Jobs : JobReturns(j) \/ JobRaises(j) \/ (AddLater(j) /\ ctx = None)
    \/ UNCHANGED vars

LEMMA StepsAre ==
    ASSUME [Next]_vars
    PROVE  \/ StillStep \/ SubmitBatch \/ AddBatch \/ LeaveRaises
           \/ \E j \in Jobs : Add(j) \/ SubmitCall(j) \/ (AddLater(j) /\ ctx # None)
<1>1. CASE \E j \in Jobs : \/ Add(j) \/ JobReturns(j) \/ AddLater(j)
                          \/ SubmitCall(j) \/ JobRaises(j)
  BY <1>1 DEF StillStep
<1>2. CASE UNCHANGED vars
  BY <1>2 DEF StillStep
<1> QED BY <1>1, <1>2 DEF Next, StillStep

LEMMA StillSteps ==
    ASSUME NestInv, StillStep
    PROVE  Still
<1>0. TypeOK /\ Nesting
  BY DEF NestInv
<1>1. ASSUME NEW b \in Batches, NEW made \in Classes, Enter(b, made) PROVE Still
  BY <1>0, <1>1 DEF Enter, Still, TypeOK
<1>2. ASSUME NEW jobs \in SUBSET Jobs, Gather(jobs) PROVE Still
  <2>1. ASSUME NEW j \in Jobs
        PROVE  /\ job'[j].op = job[j].op /\ job'[j].waits = job[j].waits
               /\ job[j].stage # "idle" => job'[j].ctx = job[j].ctx
               /\ \/ job'[j].stage = job[j].stage
                  \/ job[j].stage = "idle" /\ job'[j].stage = "running"
    <3>1. job[j] \in JobTypes
      BY <1>0, JobsTyped
    <3>2. job'[j] = IF j \in jobs
                    THEN [job[j] EXCEPT !.stage = "running", !.ctx = ctx] ELSE job[j]
      BY <1>2 DEF Gather
    <3>3. j \in jobs => job[j].stage = "idle"
      BY <1>2 DEF Gather
    <3> QED BY <3>1, <3>2, <3>3 DEF JobTypes
  <2> QED BY <1>2, <2>1 DEF Gather, Still
<1>3. CASE Gathered \/ GatherRaises \/ Leave
  BY <1>3 DEF Gathered, GatherRaises, Leave, Still
<1>4. ASSUME NEW j \in Jobs, JobReturns(j) \/ JobRaises(j) PROVE Still
  <2>1. PICK stage \in {"done", "raised"} : job' = [job EXCEPT ![j].stage = stage]
    BY <1>4 DEF JobReturns, JobRaises, JobEnds
  <2>2. Becomes(j, stage, job[j].waits)
    BY <1>0, <2>1, JobsTyped, EndBecomes DEF Stages
  <2>3. /\ job[j].stage = "running"
        /\ UNCHANGED <<calls, encoded, closed, sent, took, class>>
    BY <1>4 DEF JobReturns, JobRaises
  <2> QED BY <2>2, <2>3 DEF Still, Becomes
<1>5. CASE UNCHANGED vars
  BY <1>5 DEF vars, Still
<1>6. ASSUME NEW j \in Jobs, AddLater(j), ctx = None PROVE Still
  BY <1>6 DEF AddLater, Waited, Still
<1> QED BY <1>1, <1>2, <1>3, <1>4, <1>5, <1>6 DEF StillStep

\* A wait in a batch adds the call to it, by the job or later.
LEMMA WaitAdds ==
    ASSUME NestInv, NEW j \in Jobs, NEW b, Waited(j, b), b \in Batches \cup {None},
           job[j].stage \in {"running", "done"}, job[j].ctx # None
    PROVE  b \in Batches /\ Adds(j, b)
<1>1. b \in Batches
  BY DEF Waited
<1>2. Becomes(j, job[j].stage, job[j].waits + 1)
  BY JobsTyped, WaitBecomes DEF NestInv, Waited
<1> QED BY <1>1, <1>2 DEF Waited, AddCall, Adds

LEMMA SubmitSends ==
    ASSUME NestInv, NEW j \in Jobs, SubmitCall(j)
    PROVE  Sends(j)
<1>1. PICK waits \in BOOLEAN, raised \in BOOLEAN :
        /\ Submitted(j, Signer(job[j].op), raised \/ ~ waits)
        /\ job' = [job EXCEPT ![j].stage = IF raised THEN "raised" ELSE "done",
                              ![j].waits = IF waits THEN 1 ELSE 0]
  BY DEF SubmitCall
<1>2. Becomes(j, IF raised THEN "raised" ELSE "done", IF waits THEN 1 ELSE 0)
  BY <1>1, JobsTyped, SubmitBecomes DEF NestInv
<1>3. \E stage \in {"done", "raised"}, n \in {0, 1} : Becomes(j, stage, n)
  <2>1. /\ (IF raised THEN "raised" ELSE "done") \in {"done", "raised"}
        /\ (IF waits THEN 1 ELSE 0) \in {0, 1}
    OBVIOUS
  <2> QED BY Zenon, <1>2, <2>1
<1>4. sent' = sent \cup {j} /\ (took' = took \/ Executed(j, Signer(job[j].op)))
  BY <1>1 DEF Submitted
<1> QED BY <1>3, <1>4 DEF SubmitCall, Sends

LEMMA KindsOfSteps ==
    ASSUME NestInv, [Next]_vars
    PROVE  \/ Still
           \/ \E r \in Batches : GivesUp(r) \/ Submits(r)
           \/ \E r, b \in Batches : Joins(r, b)
           \/ \E j \in Jobs, b \in Batches : Adds(j, b)
           \/ \E j \in Jobs : Sends(j)
<1> USE BatchAssumption
<1>0. TypeOK /\ Nesting
  BY DEF NestInv
<1>1. CASE SubmitBatch
  <2>1. Closes(Innermost) /\ Innermost \in Batches
    BY <1>1, Encoded DEF SubmitBatch, Closes
  <2>2. calls' = calls /\ sent' = sent \cup {Innermost}
    BY <1>1 DEF SubmitBatch, Submitted
  <2>3. took' = took \/ Executed(Innermost, BatchSigner)
    BY <1>1 DEF SubmitBatch, Submitted
  <2> QED BY <2>1, <2>2, <2>3 DEF Submits
<1>2. CASE AddBatch
  <2>1. Closes(Innermost) /\ Innermost \in Batches
    BY <1>2, Encoded DEF AddBatch, Closes
  <2>2. ctx \in Batches
    BY <1>0, <1>2 DEF AddBatch, TypeOK
  <2> QED BY <1>2, <2>1, <2>2 DEF AddBatch, Joins
<1>3. CASE LeaveRaises
  <2>1. open # <<>>
    BY <1>0, <1>3 DEF LeaveRaises, Nesting
  <2>2. Innermost \in Batches /\ Innermost \notin closed
    BY <2>1, Inside
  <2> QED BY <1>3, <2>2 DEF LeaveRaises, GivesUp
<1>4. ASSUME NEW j \in Jobs, Add(j) PROVE \E b \in Batches : Adds(j, b)
  <2>1. job[j].ctx \in Batches \cup {None}
    BY <1>0 DEF TypeOK
  <2>2. job[j].ctx # None
    BY <1>4 DEF Add, Waited
  <2> QED BY <1>4, <2>1, <2>2, WaitAdds DEF Add
<1>5. ASSUME NEW j \in Jobs, SubmitCall(j) PROVE Sends(j)
  BY <1>5, SubmitSends
<1>6. ASSUME NEW j \in Jobs, AddLater(j), ctx # None PROVE \E b \in Batches : Adds(j, b)
  <2>1. ctx \in Batches \cup {None}
    BY <1>0 DEF TypeOK
  <2> QED BY <1>6, <2>1, WaitAdds DEF AddLater
<1> QED
  BY <1>1, <1>2, <1>3, <1>4, <1>5, <1>6, StepsAre, StillSteps

\* What the chain executes of an item: calls it takes from the signer, each of
\* them the item itself or in a batch that is executed, and all of a Transaction.
LEMMA Execution ==
    ASSUME TypeOK, NEW item \in Items, NEW signer, Executed(item, signer)
    PROVE  \E R \in SUBSET Items :
             /\ item \in R /\ took' = took \cup (Jobs \cap R)
             /\ item \in Jobs => R = {item}
             /\ \A j \in Jobs \cap R : Takes(signer, j)
             /\ \A x \in R : x = item \/ \E b \in Batches \cap R : x \in Elements(List(b))
             /\ \A b \in Batches \cap R : class[b] = "Transaction" =>
                  Elements(List(b)) \subseteq R
<1> USE BatchAssumption
<1>1. PICK bad \in SUBSET Jobs :
        /\ \A j \in Jobs \ bad : Takes(signer, j)
        /\ item \notin Failing(bad)
        /\ took' = took \cup Effect(item, Failing(bad))
  BY DEF Executed
<1> DEFINE failed == Failing(bad)
           reverts == UNION {Elements(List(b)) \X {b} :
                             b \in {c \in Batches : Function(class[c]) = "batch_all"}}
           executes == UNION {{b} \X Executes(b, failed) : b \in Batches}
           R == Reached({item} \ failed, executes)
<1>2. \A b \in Batches : Elements(List(b)) \subseteq Items
  BY DEF List, TypeOK, Elements
<1>3. \A b \in Batches : Executes(b, failed) \subseteq Elements(List(b)) \ failed
  BY DEF Executes, Elements
<1>4. \A b \in Batches : b \in R => Executes(b, failed) \subseteq R
  <2>1. ASSUME NEW b \in Batches, NEW x \in Executes(b, failed), b \in R PROVE x \in R
    <3>1. <<b, x>> \in executes /\ x \in Items
      BY <1>2, <1>3
    <3> HIDE DEF executes, failed
    <3>2. <<b, x>>[1] = b /\ <<b, x>>[2] = x
      OBVIOUS
    <3> QED BY <2>1, <3>1, <3>2, ReachedStep
  <2> QED BY <2>1
<1>5. item \in R /\ R \in SUBSET Items
  BY <1>1, ReachedHas, ReachedItems
<1>6. executes \in SUBSET (Items \X Items)
  BY <1>2, <1>3 DEF Items
<1>7. ASSUME NEW x \in R, x # item
      PROVE  \E b \in Batches \cap R : x \in Executes(b, failed)
  <2>1. PICK l \in executes : l[1] \in R /\ l[2] = x
    <3> HIDE DEF executes, failed
    <3> QED BY <1>6, <1>7, ReachedFrom
  <2>2. PICK b \in Batches : l \in {b} \X Executes(b, failed)
    BY <2>1
  <2> QED BY <2>1, <2>2
<1>8. \A x \in R : x \notin failed
  BY <1>1, <1>3, <1>7
<1>9. bad \subseteq failed
  BY ReachedHas DEF Failing, Items
<1>10. ASSUME NEW b \in Batches, class[b] = "Transaction",
              NEW x \in Elements(List(b)), x \in failed
       PROVE  b \in failed
  <2>1. Function(class[b]) = "batch_all"
    BY <1>10 DEF Function
  <2>2. <<x, b>> \in reverts /\ b \in Items
    BY <2>1 DEF Items
  <2>3. x \in Reached(bad, reverts)
    BY <1>10 DEF Failing
  <2>4. <<x, b>>[1] = x /\ <<x, b>>[2] = b
    OBVIOUS
  <2>5. b \in Reached(bad, reverts)
    <3> HIDE DEF reverts, failed
    <3> QED BY <2>2, <2>3, <2>4, ReachedStep
  <2> QED BY <2>5 DEF Failing
<1>11. ASSUME NEW b \in Batches \cap R, class[b] = "Transaction"
       PROVE  Elements(List(b)) \subseteq R
  <2>1. \A x \in Elements(List(b)) : x \notin failed
    BY <1>8, <1>10, <1>11
  <2>2. Function(class[b]) # "batch"
    BY <1>11 DEF Function
  <2>3. Elements(List(b)) \subseteq Executes(b, failed)
    BY <2>1, <2>2 DEF Executes, Elements
  <2> QED BY <1>4, <2>3
<1>12. \A j \in Jobs \cap R : Takes(signer, j)
  BY <1>1, <1>8, <1>9
<1>13. item \in Jobs => R = {item}
  <2> SUFFICES ASSUME item \in Jobs PROVE R \subseteq {item}
    BY <1>5
  <2>1. \A l \in executes : l[1] \in {item} => l[2] \in {item}
    OBVIOUS
  <2>2. {item} \in SUBSET Items /\ {item} \ failed \subseteq {item}
    OBVIOUS
  <2> HIDE DEF executes, failed
  <2> QED BY <2>1, <2>2 DEF Reached
<1>14. took' = took \cup (Jobs \cap R)
  BY <1>1 DEF Effect
<1>15. \A x \in R : x = item \/ \E b \in Batches \cap R : x \in Elements(List(b))
  BY <1>3, <1>7
<1> HIDE DEF R
<1> QED BY <1>5, <1>11, <1>12, <1>13, <1>14, <1>15

-----------------------------------------------------------------------------
(* Where the calls are                                                     *)

\* What was encoded is what had been added, and only closed batches are sent or
\* in another.
Lists ==
    /\ \A b \in Batches : b \notin closed => encoded[b] = <<>>
    /\ \A b \in Batches : \A n \in DOMAIN encoded[b] :
         n \in DOMAIN calls[b] /\ calls[b][n] = encoded[b][n]
    /\ \A b \in Batches : Elements(calls[b]) \cap Batches \subseteq closed
    /\ sent \cap Batches \subseteq closed

\* A call is in the lists as often as its Extrinsic was waited for, at most; a
\* batch once; and what is sent by itself is in none.
Counted ==
    /\ \A x \in Items : IsFiniteSet(Places(x, calls))
    /\ \A j \in Jobs : Cardinality(Places(j, calls)) <= job[j].waits
    /\ \A b \in Batches : Cardinality(Places(b, calls)) <= 1
    /\ \A x \in sent : Places(x, calls) = {}

\* A call that has been sent by itself is of a job outside any batch, and one
\* that is in a list of a job inside.
InOrOut ==
    \A j \in Jobs :
        /\ j \in sent => job[j].stage # "idle" /\ job[j].ctx = None
        /\ Places(j, calls) # {} => job[j].stage # "idle" /\ job[j].ctx # None

\* What has had an effect was signed for, alone or in a batch.
EffectsAreSent ==
    \A j \in took : j \notin sent =>
        /\ Takes(BatchSigner, j)
        /\ \E b \in Batches : j \in Elements(encoded[b])

SentInv == NestInv /\ Lists /\ Counted /\ InOrOut /\ EffectsAreSent

LEMMA ElementsAt ==
    ASSUME NEW S, NEW q \in Seq(S)
    PROVE  /\ DOMAIN q = 1 .. Len(q) /\ Len(q) \in Nat
           /\ Elements(q) \subseteq S
           /\ \A x : x \in Elements(q) <=> \E n \in DOMAIN q : q[n] = x
BY DEF Elements

\* An item has a place where the lists have it.
LEMMA PlacesAt ==
    ASSUME NEW lists \in [Batches -> Seq(Items)], NEW x
    PROVE  /\ \A b, n : <<b, n>> \in Places(x, lists)
                 <=> b \in Batches /\ n \in DOMAIN lists[b] /\ lists[b][n] = x
           /\ \A p \in Places(x, lists) : p = <<p[1], p[2]>>
           /\ Places(x, lists) = {} <=> \A b \in Batches : x \notin Elements(lists[b])
<1>1. ASSUME NEW b, NEW n
      PROVE  <<b, n>> \in Places(x, lists)
                 <=> b \in Batches /\ n \in DOMAIN lists[b] /\ lists[b][n] = x
  BY DEF Places
<1>2. \A p \in Places(x, lists) : p = <<p[1], p[2]>>
  BY DEF Places
<1>3. \A b \in Batches : x \in Elements(lists[b])
        <=> \E n \in DOMAIN lists[b] : lists[b][n] = x
  BY ElementsAt
<1>4. ASSUME Places(x, lists) = {}, NEW b \in Batches, x \in Elements(lists[b]) PROVE FALSE
  <2>1. PICK n \in DOMAIN lists[b] : lists[b][n] = x
    BY <1>3, <1>4
  <2>2. <<b, n>> \in Places(x, lists)
    BY <1>1, <2>1
  <2> QED BY <1>4, <2>2
<1>5. ASSUME \A b \in Batches : x \notin Elements(lists[b]), NEW p \in Places(x, lists)
      PROVE  FALSE
  <2>1. <<p[1], p[2]>> \in Places(x, lists)
    BY <1>2
  <2>2. p[1] \in Batches /\ p[2] \in DOMAIN lists[p[1]] /\ lists[p[1]][p[2]] = x
    BY <1>1, <2>1
  <2> QED BY <1>3, <1>5, <2>2
<1>6. Places(x, lists) = {} <=> \A b \in Batches : x \notin Elements(lists[b])
  BY <1>4, <1>5
<1> QED BY <1>1, <1>2, <1>6

LEMMA SentInit == Init => SentInv
<1> SUFFICES ASSUME Init PROVE SentInv
  OBVIOUS
<1>1. /\ \A b \in Batches : calls[b] = <<>> /\ encoded[b] = <<>>
      /\ sent = {} /\ took = {}
  BY DEF Init
<1>2. \A b \in Batches : /\ DOMAIN calls[b] = {} /\ DOMAIN encoded[b] = {}
                         /\ Elements(calls[b]) = {}
  BY <1>1, NothingOpen
<1>3. calls \in [Batches -> Seq(Items)] /\ \A j \in Jobs : job[j].waits \in Nat
  BY NestInit, JobsTyped DEF NestInv, TypeOK, JobTypes
<1>4. \A x : Places(x, calls) = {}
  BY <1>2, <1>3, PlacesAt
<1>5. Counted
  <2>1. IsFiniteSet({}) /\ Cardinality({}) = 0
    BY FS_EmptySet
  <2>2. \A x : IsFiniteSet(Places(x, calls)) /\ Cardinality(Places(x, calls)) = 0
    BY <1>4, <2>1
  <2> QED BY <1>1, <1>3, <2>2 DEF Counted
<1> QED BY <1>1, <1>2, <1>4, <1>5, NestInit DEF SentInv, Lists, InOrOut, EffectsAreSent

\* One item more in the list of a batch.
Grows(b, x) ==
    /\ \A c \in Batches : \A n \in DOMAIN calls'[c] :
         \/ n \in DOMAIN calls[c] /\ calls'[c][n] = calls[c][n]
         \/ c = b /\ n = Len(calls[b]) + 1 /\ calls'[c][n] = x
    /\ \A c \in Batches : \A n \in DOMAIN calls[c] :
         n \in DOMAIN calls'[c] /\ calls'[c][n] = calls[c][n]
    /\ \A c \in Batches : Elements(calls'[c])
         = Elements(calls[c]) \cup (IF c = b THEN {x} ELSE {})

LEMMA Appended ==
    ASSUME TypeOK, NEW b \in Batches, NEW x \in Items,
           calls' = [calls EXCEPT ![b] = Append(@, x)]
    PROVE  Grows(b, x)
<1>1. \A c \in Batches : c # b => calls'[c] = calls[c]
  BY DEF TypeOK
<1>2. calls'[b] = Append(calls[b], x) /\ calls[b] \in Seq(Items)
  BY DEF TypeOK
<1>3. Elements(calls'[b]) = Elements(calls[b]) \cup {x}
  BY <1>2, ElementsAppend
<1>4. /\ DOMAIN calls'[b] = 1 .. Len(calls[b]) + 1 /\ DOMAIN calls[b] = 1 .. Len(calls[b])
      /\ Len(calls[b]) \in Nat
      /\ \A n \in 1 .. Len(calls[b]) : calls'[b][n] = calls[b][n]
      /\ calls'[b][Len(calls[b]) + 1] = x
  BY <1>2
<1>5. \A n \in DOMAIN calls'[b] :
        \/ n \in DOMAIN calls[b] /\ calls'[b][n] = calls[b][n]
        \/ n = Len(calls[b]) + 1 /\ calls'[b][n] = x
  BY <1>4
<1>6. \A n \in DOMAIN calls[b] : n \in DOMAIN calls'[b] /\ calls'[b][n] = calls[b][n]
  BY <1>4
<1> QED BY <1>1, <1>3, <1>5, <1>6 DEF Grows

\* The item has a place more, and the others have the ones they had.
LEMMA PlacesGrow ==
    ASSUME TypeOK, TypeOK', NEW b \in Batches, NEW x \in Items,
           calls' = [calls EXCEPT ![b] = Append(@, x)],
           IsFiniteSet(Places(x, calls))
    PROVE  /\ \A y : y # x => Places(y, calls') = Places(y, calls)
           /\ IsFiniteSet(Places(x, calls'))
           /\ Cardinality(Places(x, calls')) = Cardinality(Places(x, calls)) + 1
           /\ Places(x, calls') # {}
<1>1. calls \in [Batches -> Seq(Items)] /\ calls' \in [Batches -> Seq(Items)]
  BY DEF TypeOK
<1>2. \A c \in Batches : c # b => calls'[c] = calls[c]
  BY <1>1
<1> DEFINE n == Len(calls[b]) + 1
<1>3. /\ \A m : m \in DOMAIN calls'[b] <=> m \in DOMAIN calls[b] \/ m = n
      /\ \A m \in DOMAIN calls[b] : calls'[b][m] = calls[b][m]
      /\ calls'[b][n] = x /\ n \notin DOMAIN calls[b]
  <2>1. calls'[b] = Append(calls[b], x) /\ calls[b] \in Seq(Items)
    BY <1>1
  <2> QED BY <2>1
<1> HIDE DEF n
<1>4. \A y, c, m : <<c, m>> \in Places(y, calls')
        <=> <<c, m>> \in Places(y, calls) \/ (y = x /\ c = b /\ m = n)
  <2> TAKE y, c, m
  <2>1. <<c, m>> \in Places(y, calls')
          <=> c \in Batches /\ m \in DOMAIN calls'[c] /\ calls'[c][m] = y
    BY <1>1, PlacesAt
  <2>2. <<c, m>> \in Places(y, calls)
          <=> c \in Batches /\ m \in DOMAIN calls[c] /\ calls[c][m] = y
    BY <1>1, PlacesAt
  <2>3. CASE c = b
    BY <1>3, <2>1, <2>2, <2>3
  <2>4. CASE c # b
    BY <1>2, <2>1, <2>2, <2>4
  <2> QED BY <2>3, <2>4
<1>5. ASSUME NEW y, NEW p
      PROVE  p \in Places(y, calls')
               <=> p \in Places(y, calls) \/ (y = x /\ p = <<b, n>>)
  <2>1. /\ p \in Places(y, calls') => p = <<p[1], p[2]>>
        /\ p \in Places(y, calls) => p = <<p[1], p[2]>>
    BY <1>1, PlacesAt
  <2>2. <<p[1], p[2]>> \in Places(y, calls')
          <=> <<p[1], p[2]>> \in Places(y, calls) \/ (y = x /\ p[1] = b /\ p[2] = n)
    BY <1>4
  <2>3. <<b, n>> \in Places(x, calls')
    BY <1>4
  <2> QED BY <2>1, <2>2, <2>3
<1>6. /\ \A y : y # x => Places(y, calls') = Places(y, calls)
      /\ Places(x, calls') = Places(x, calls) \cup {<<b, n>>}
  <2>1. ASSUME NEW y, y # x PROVE Places(y, calls') = Places(y, calls)
    <3>1. \A p : p \in Places(y, calls') <=> p \in Places(y, calls)
      BY <1>5, <2>1
    <3> QED BY <3>1
  <2>2. Places(x, calls') = Places(x, calls) \cup {<<b, n>>}
    <3>1. \A p : p \in Places(x, calls') <=> p \in Places(x, calls) \/ p = <<b, n>>
      BY <1>5
    <3> QED BY <3>1
  <2> QED BY <2>1, <2>2
<1>7. <<b, n>> \notin Places(x, calls)
  BY <1>1, <1>3, PlacesAt
<1>8. /\ IsFiniteSet(Places(x, calls) \cup {<<b, n>>})
      /\ Cardinality(Places(x, calls) \cup {<<b, n>>}) = Cardinality(Places(x, calls)) + 1
  BY <1>7, FS_AddElement
<1> QED BY <1>6, <1>8

\* When a batch is closed its list is what is encoded.
LEMMA ClosesLists ==
    ASSUME SentInv, NEW r \in Batches, Closes(r)
    PROVE  /\ encoded'[r] = calls[r] /\ encoded[r] = <<>>
           /\ \A b \in Batches : b # r => encoded'[b] = encoded[b]
           /\ \A b \in Batches : Elements(encoded[b]) \subseteq Elements(encoded'[b])
           /\ \A b \in Batches : b \in closed' => encoded'[b] = List(b)
<1>1. encoded'[r] = calls[r] /\ encoded[r] = <<>>
  BY DEF SentInv, NestInv, TypeOK, Closes, Lists
<1>2. \A b \in Batches : b # r => encoded'[b] = encoded[b]
  BY DEF SentInv, NestInv, TypeOK, Closes
<1>3. Elements(encoded[r]) = {}
  BY <1>1, NothingOpen
<1> QED BY <1>1, <1>2, <1>3 DEF List, Closes

\* A call that is in a batch, added or encoded, is not sent by itself.
LEMMA NotAlone ==
    ASSUME SentInv, NEW j \in Jobs, NEW b \in Batches,
           j \in Elements(calls[b]) \/ j \in Elements(encoded[b])
    PROVE  j \in Elements(calls[b]) /\ j \notin sent
<1>1. /\ calls \in [Batches -> Seq(Items)] /\ encoded[b] \in Seq(Items)
      /\ calls[b] \in Seq(Items)
  BY DEF SentInv, NestInv, TypeOK
<1>2. j \in Elements(calls[b])
  BY <1>1, ElementsAt DEF SentInv, Lists
<1>3. Places(j, calls) # {}
  BY <1>1, <1>2, PlacesAt
<1> QED BY <1>2, <1>3 DEF SentInv, Counted

\* What is executed of a batch that is submitted, in terms of what is encoded.
LEMMA SubmitExecutes ==
    ASSUME SentInv, NEW r \in Batches, Closes(r), Executed(r, BatchSigner)
    PROVE  \E R \in SUBSET Items :
             /\ r \in R /\ R \cap Batches \subseteq closed'
             /\ took' = took \cup (Jobs \cap R)
             /\ \A j \in Jobs \cap R : Takes(BatchSigner, j)
             /\ \A x \in R : x = r \/ \E b \in Batches \cap R : x \in Elements(encoded'[b])
             /\ \A b \in Batches \cap R : class[b] = "Transaction" =>
                  Elements(encoded'[b]) \subseteq R
<1>1. r \in Items
  BY DEF Items
<1>2. PICK R \in SUBSET Items :
        /\ r \in R /\ took' = took \cup (Jobs \cap R)
        /\ \A j \in Jobs \cap R : Takes(BatchSigner, j)
        /\ \A x \in R : x = r \/ \E b \in Batches \cap R : x \in Elements(List(b))
        /\ \A b \in Batches \cap R : class[b] = "Transaction" =>
             Elements(List(b)) \subseteq R
  BY <1>1, Execution DEF SentInv, NestInv
<1>3. /\ \A b \in Batches : b \in closed' => encoded'[b] = List(b)
      /\ closed' = closed \cup {r}
  BY ClosesLists DEF Closes
<1>4. \A b \in Batches : Elements(List(b)) \cap Batches \subseteq closed
  <2>1. \A b \in Batches : Elements(encoded[b]) \subseteq Elements(calls[b])
    BY ElementsAt DEF SentInv, NestInv, TypeOK, Lists
  <2> QED BY <2>1 DEF List, SentInv, Lists
<1>5. R \cap Batches \subseteq closed'
  BY <1>2, <1>3, <1>4
<1> QED BY <1>2, <1>3, <1>5

\* A call sent by itself has the effect of nothing else.
LEMMA SendsOne ==
    ASSUME NestInv, NEW j \in Jobs, Sends(j)
    PROVE  took \subseteq took' /\ took' \subseteq took \cup {j}
<1>1. CASE took' = took
  BY <1>1
<1>2. CASE Executed(j, Signer(job[j].op))
  <2>1. j \in Items
    BY DEF Items
  <2>2. PICK R \in SUBSET Items :
          took' = took \cup (Jobs \cap R) /\ (j \in Jobs => R = {j})
    BY <1>2, <2>1, Execution DEF NestInv
  <2> QED BY <2>2
<1> QED BY <1>1, <1>2 DEF Sends

LEMMA SentNext == SentInv /\ [Next]_vars => SentInv'
<1> SUFFICES ASSUME SentInv, [Next]_vars PROVE SentInv'
  OBVIOUS
<1> USE BatchAssumption
<1>0. /\ NestInv /\ NestInv' /\ TypeOK /\ TypeOK'
      /\ Lists /\ Counted /\ InOrOut /\ EffectsAreSent
      /\ calls \in [Batches -> Seq(Items)] /\ calls' \in [Batches -> Seq(Items)]
  BY NestNext DEF SentInv, NestInv, TypeOK
<1>1. \A j \in Jobs : j \in Items /\ job[j].waits \in Nat
  BY <1>0, JobsTyped DEF JobTypes, Items
<1>2. ASSUME NEW r \in Batches, r \notin closed PROVE Places(r, calls) = {} /\ r \notin sent
  <2>1. \A b \in Batches : r \notin Elements(calls[b])
    BY <1>0, <1>2 DEF Lists
  <2> QED BY <1>0, <1>2, <2>1, PlacesAt DEF Lists
<1>3. CASE Still
  <2>1. Lists'
    BY <1>0, <1>3 DEF Still, Lists, Elements
  <2>2. Counted'
    <3>1. \A x : Places(x, calls)' = Places(x, calls)
      BY <1>3 DEF Still, Places
    <3> QED BY <1>0, <1>3, <3>1 DEF Still, Counted
  <2>3. InOrOut'
    BY <1>0, <1>3 DEF Still, InOrOut, Places
  <2>4. EffectsAreSent'
    BY SMTT(30), <1>0, <1>3 DEF Still, EffectsAreSent, Elements, Takes, TypeOK
  <2> QED BY <1>0, <2>1, <2>2, <2>3, <2>4 DEF SentInv
<1>4. ASSUME NEW r \in Batches, GivesUp(r) PROVE SentInv'
  <2>1. Lists'
    BY <1>0, <1>4 DEF GivesUp, Lists, Elements
  <2>2. Counted' /\ InOrOut'
    <3>1. \A x : Places(x, calls)' = Places(x, calls)
      BY <1>4 DEF GivesUp, Places
    <3> QED BY <1>0, <1>4, <3>1 DEF GivesUp, Counted, InOrOut
  <2>3. EffectsAreSent'
    BY <1>0, <1>4 DEF GivesUp, EffectsAreSent, Elements, Takes
  <2> QED BY <1>0, <2>1, <2>2, <2>3 DEF SentInv
<1>5. ASSUME NEW r \in Batches, Submits(r) PROVE SentInv'
  <2>1. Closes(r) /\ calls' = calls /\ sent' = sent \cup {r}
    BY <1>5 DEF Submits
  <2>2. /\ encoded'[r] = calls[r]
        /\ \A b \in Batches : b # r => encoded'[b] = encoded[b]
        /\ \A b \in Batches : Elements(encoded[b]) \subseteq Elements(encoded'[b])
        /\ \A b \in Batches : b \in closed' => encoded'[b] = List(b)
    BY <2>1, ClosesLists
  <2>3. closed' = closed \cup {r} /\ job' = job
    BY <2>1 DEF Closes
  <2>4. Lists'
    BY <1>0, <2>1, <2>2, <2>3 DEF Lists, Elements
  <2>5. Counted' /\ InOrOut'
    <3>1. \A x : Places(x, calls)' = Places(x, calls)
      BY <2>1 DEF Places
    <3>2. Places(r, calls) = {}
      BY <1>2, <2>1 DEF Closes
    <3>3. Counted'
      BY <1>0, <2>1, <2>3, <3>1, <3>2 DEF Counted
    <3>4. InOrOut'
      BY <1>0, <2>1, <2>3, <3>1 DEF InOrOut
    <3> QED BY <3>3, <3>4
  <2>6. ASSUME NEW j \in took', j \notin sent'
        PROVE  Takes(BatchSigner, j)' /\ \E b \in Batches : j \in Elements(encoded'[b])
    <3>1. CASE j \in took
      <4>1. Takes(BatchSigner, j) /\ \E b \in Batches : j \in Elements(encoded[b])
        BY <1>0, <2>1, <2>6, <3>1 DEF EffectsAreSent
      <4> QED BY <2>2, <2>3, <4>1 DEF Takes
    <3>2. CASE j \notin took
      <4>1. PICK R \in SUBSET Items :
              /\ R \cap Batches \subseteq closed'
              /\ took' = took \cup (Jobs \cap R)
              /\ \A k \in Jobs \cap R : Takes(BatchSigner, k)
              /\ \A x \in R : x = r \/ \E b \in Batches \cap R : x \in Elements(encoded'[b])
        BY <1>5, <2>6, <3>2, SubmitExecutes DEF Submits
      <4>2. j \in Jobs \cap R /\ j # r
        BY <2>6, <3>2, <4>1
      <4> QED BY <2>3, <4>1, <4>2 DEF Takes
    <3> QED BY <3>1, <3>2
  <2>7. EffectsAreSent'
    BY <2>6 DEF EffectsAreSent, Elements
  <2> QED BY <1>0, <2>4, <2>5, <2>7 DEF SentInv
<1>6. ASSUME NEW r \in Batches, NEW b \in Batches, Joins(r, b) PROVE SentInv'
  <2>1. /\ Closes(r) /\ calls' = [calls EXCEPT ![b] = Append(@, r)]
        /\ sent' = sent /\ took' = took /\ r \in Items
    BY <1>6 DEF Joins, Items
  <2>2. /\ encoded'[r] = calls[r]
        /\ \A c \in Batches : c # r => encoded'[c] = encoded[c]
        /\ \A c \in Batches : Elements(encoded[c]) \subseteq Elements(encoded'[c])
    BY <2>1, ClosesLists
  <2>3. closed' = closed \cup {r} /\ job' = job
    BY <2>1 DEF Closes
  <2>4. /\ \A c \in Batches : \A n \in DOMAIN calls'[c] :
             \/ n \in DOMAIN calls[c] /\ calls'[c][n] = calls[c][n]
             \/ c = b /\ n = Len(calls[b]) + 1 /\ calls'[c][n] = r
        /\ \A c \in Batches : \A n \in DOMAIN calls[c] :
             n \in DOMAIN calls'[c] /\ calls'[c][n] = calls[c][n]
        /\ \A c \in Batches : Elements(calls'[c])
             = Elements(calls[c]) \cup (IF c = b THEN {r} ELSE {})
    <3>1. Grows(b, r)
      BY <1>0, <2>1, Appended
    <3> QED BY <3>1 DEF Grows
  <2>5. Lists'
    <3>1. \A c \in Batches : Elements(calls'[c]) \cap Batches \subseteq closed'
      BY <1>0, <2>3, <2>4 DEF Lists
    <3>2. \A c \in Batches : \A n \in DOMAIN encoded'[c] :
            n \in DOMAIN calls'[c] /\ calls'[c][n] = encoded'[c][n]
      <4>1. ASSUME NEW c \in Batches, NEW n \in DOMAIN encoded'[c]
            PROVE  n \in DOMAIN calls[c] /\ calls[c][n] = encoded'[c][n]
        <5>1. CASE c = r
          BY <2>2, <4>1, <5>1
        <5>2. CASE c # r
          <6>1. encoded'[c] = encoded[c]
            BY <2>2, <5>2
          <6>2. \A m \in DOMAIN encoded[c] : m \in DOMAIN calls[c] /\ calls[c][m] = encoded[c][m]
            BY <1>0 DEF Lists
          <6> QED BY <4>1, <6>1, <6>2
        <5> QED BY <5>1, <5>2
      <4> QED BY <2>4, <4>1
    <3> QED BY <1>0, <2>1, <2>2, <2>3, <3>1, <3>2 DEF Lists, Elements
  <2>6. Places(r, calls) = {} /\ r \notin sent
    BY <1>2, <2>1 DEF Closes
  <2>7. Counted' /\ InOrOut'
    <3>1. IsFiniteSet(Places(r, calls)) /\ Cardinality(Places(r, calls)) = 0
      BY <2>6, FS_EmptySet
    <3>2. /\ \A y : y # r => Places(y, calls') = Places(y, calls)
          /\ IsFiniteSet(Places(r, calls'))
          /\ Cardinality(Places(r, calls')) = Cardinality(Places(r, calls)) + 1
      BY <1>0, <2>1, <3>1, PlacesGrow
    <3>3. \A x : Places(x, calls)' = Places(x, calls')
      BY DEF Places
    <3>4. \A x \in Items : IsFiniteSet(Places(x, calls'))
      BY <1>0, <3>2 DEF Counted
    <3>5. /\ \A j \in Jobs : Cardinality(Places(j, calls')) <= job[j].waits
          /\ \A c \in Batches : Cardinality(Places(c, calls')) <= 1
      <4>1. \A j \in Jobs : j # r
        BY <2>1
      <4>2. \A j \in Jobs : Cardinality(Places(j, calls')) <= job[j].waits
        BY <1>0, <3>2, <4>1 DEF Counted
      <4>3. ASSUME NEW c \in Batches PROVE Cardinality(Places(c, calls')) <= 1
        <5>1. CASE c = r
          BY <3>1, <3>2, <5>1
        <5>2. CASE c # r
          BY <1>0, <3>2, <5>2 DEF Counted
        <5> QED BY <5>1, <5>2
      <4> QED BY <4>2, <4>3
    <3>6. \A x \in sent : Places(x, calls') = {}
      BY <1>0, <2>6, <3>2 DEF Counted
    <3>7. Counted'
      BY <2>1, <2>3, <3>3, <3>4, <3>5, <3>6 DEF Counted
    <3>8. InOrOut'
      BY <1>0, <2>1, <2>3, <3>2, <3>3 DEF InOrOut
    <3> QED BY <3>8, <3>7
  <2>8. EffectsAreSent'
    BY <1>0, <2>1, <2>2, <2>3 DEF EffectsAreSent, Elements, Takes
  <2> QED BY <1>0, <2>5, <2>7, <2>8 DEF SentInv
<1>7. ASSUME NEW j \in Jobs, NEW b \in Batches, Adds(j, b) PROVE SentInv'
  <2>1. /\ calls' = [calls EXCEPT ![b] = Append(@, j)] /\ j \in Items
        /\ UNCHANGED <<encoded, closed, sent, took>>
        /\ job[j].stage # "idle" /\ job[j].ctx # None
    BY <1>7 DEF Adds, Items
  <2>2. /\ job'[j].stage = job[j].stage /\ job'[j].ctx = job[j].ctx
        /\ job'[j].waits = job[j].waits + 1
        /\ \A k \in Jobs : k # j => job'[k] = job[k]
        /\ \A k \in Jobs : job'[k].op = job[k].op
    BY <1>7 DEF Adds, Becomes
  <2>3. /\ \A c \in Batches : \A n \in DOMAIN calls'[c] :
             \/ n \in DOMAIN calls[c] /\ calls'[c][n] = calls[c][n]
             \/ c = b /\ n = Len(calls[b]) + 1 /\ calls'[c][n] = j
        /\ \A c \in Batches : \A n \in DOMAIN calls[c] :
             n \in DOMAIN calls'[c] /\ calls'[c][n] = calls[c][n]
        /\ \A c \in Batches : Elements(calls'[c])
             = Elements(calls[c]) \cup (IF c = b THEN {j} ELSE {})
    <3>1. Grows(b, j)
      BY <1>0, <2>1, Appended
    <3> QED BY <3>1 DEF Grows
  <2>4. Lists'
    <3>1. \A c \in Batches : Elements(calls'[c]) \cap Batches \subseteq closed'
      BY <1>0, <2>1, <2>3 DEF Lists
    <3>2. \A c \in Batches : \A n \in DOMAIN encoded'[c] :
            n \in DOMAIN calls'[c] /\ calls'[c][n] = encoded'[c][n]
      BY <1>0, <2>1, <2>3 DEF Lists
    <3> QED BY <1>0, <2>1, <3>1, <3>2 DEF Lists, Elements
  <2>5. j \notin sent
    BY <1>0, <2>1 DEF InOrOut
  <2>6. /\ IsFiniteSet(Places(j, calls)) /\ Cardinality(Places(j, calls)) <= job[j].waits
        /\ \A y : y # j => Places(y, calls') = Places(y, calls)
        /\ IsFiniteSet(Places(j, calls'))
        /\ Cardinality(Places(j, calls')) = Cardinality(Places(j, calls)) + 1
    BY <1>0, <2>1, PlacesGrow DEF Counted
  <2>7. Counted' /\ InOrOut'
    <3>1. \A x : Places(x, calls)' = Places(x, calls')
      BY DEF Places
    <3>2. Cardinality(Places(j, calls')) <= job'[j].waits
      <4>1. Cardinality(Places(j, calls)) \in Nat
        BY <2>6, FS_CardinalityType
      <4> QED BY <1>1, <2>2, <2>6, <4>1
    <3>3. \A k \in Jobs : Cardinality(Places(k, calls')) <= job'[k].waits
      BY <1>0, <2>2, <2>6, <3>2 DEF Counted
    <3>4. \A c \in Batches : Cardinality(Places(c, calls')) <= 1
      BY <1>0, <2>6 DEF Counted
    <3>5. Counted'
      BY <1>0, <2>1, <2>5, <2>6, <3>1, <3>3, <3>4 DEF Counted
    <3>6. InOrOut'
      BY <1>0, <2>1, <2>2, <2>6, <3>1 DEF InOrOut
    <3> QED BY <3>5, <3>6
  <2>8. EffectsAreSent'
    <3>1. \A k \in took : k \in Jobs /\ (Takes(BatchSigner, k)' <=> Takes(BatchSigner, k))
      BY <1>0, <2>2 DEF Takes, TypeOK
    <3>2. EffectsAreSent
      BY <1>0
    <3> QED BY <2>1, <3>1, <3>2 DEF EffectsAreSent, Elements
  <2> QED BY <1>0, <2>4, <2>7, <2>8 DEF SentInv
<1>8. ASSUME NEW j \in Jobs, Sends(j) PROVE SentInv'
  <2>1. /\ UNCHANGED <<calls, encoded, closed>>
        /\ sent' = sent \cup {j} /\ j \in Items /\ j \notin Batches
        /\ took' = took \/ Executed(j, Signer(job[j].op))
        /\ job[j].ctx = None
    BY <1>8 DEF Sends, Items
  <2>2. PICK stage \in {"done", "raised"}, waits \in {0, 1} : Becomes(j, stage, waits)
    BY <1>8 DEF Sends
  <2>3. /\ job'[j].stage = stage /\ job'[j].waits = waits /\ job'[j].ctx = None
        /\ \A k \in Jobs : k # j => job'[k] = job[k]
        /\ \A k \in Jobs : job'[k].op = job[k].op
    BY <2>1, <2>2 DEF Becomes
  <2>4. took' \subseteq took \cup {j}
    BY <1>0, <1>8, SendsOne
  <2>5. Lists'
    BY <1>0, <2>1 DEF Lists, Elements
  <2>6. Counted' /\ InOrOut'
    <3>1. \A x : Places(x, calls)' = Places(x, calls)
      BY <2>1 DEF Places
    <3>2. Places(j, calls) = {}
      BY <1>0, <2>1 DEF InOrOut
    <3>3. Cardinality(Places(j, calls)) = 0 /\ job'[j].waits \in {0, 1}
      BY <2>2, <2>3, <3>2, FS_EmptySet
    <3>4. \A k \in Jobs : Cardinality(Places(k, calls)) <= job'[k].waits
      BY <1>0, <2>3, <3>3 DEF Counted
    <3>5. Counted'
      BY <1>0, <2>1, <3>1, <3>2, <3>4 DEF Counted
    <3>6. InOrOut'
      BY <1>0, <2>1, <2>3, <3>1, <3>2 DEF InOrOut
    <3> QED BY <3>5, <3>6
  <2>7. EffectsAreSent'
    BY SMTT(30), <1>0, <2>1, <2>3, <2>4 DEF EffectsAreSent, Elements, Takes, TypeOK
  <2> QED BY <1>0, <2>5, <2>6, <2>7 DEF SentInv
<1> QED
  BY <1>0, <1>3, <1>4, <1>5, <1>6, <1>7, <1>8, KindsOfSteps

\* However jobs and batches interleave and whatever raises: what is submitted by
\* itself is in no batch, a batch is in one other at most, once, and a call is
\* sent no more often than its Extrinsic was waited for.
THEOREM SentOnceCorrect == Spec => []SentOnce
<1>1. ASSUME SentInv, NEW x \in Items
      PROVE  /\ Places(x, encoded) \subseteq Places(x, calls)
             /\ Cardinality(Places(x, encoded)) <= Cardinality(Places(x, calls))
             /\ Cardinality(Places(x, encoded)) \in Nat
             /\ Cardinality(Places(x, calls)) \in Nat
  <2>1. calls \in [Batches -> Seq(Items)] /\ encoded \in [Batches -> Seq(Items)]
    BY <1>1 DEF SentInv, NestInv, TypeOK
  <2>2. Places(x, encoded) \subseteq Places(x, calls)
    <3> SUFFICES ASSUME NEW p \in Places(x, encoded) PROVE p \in Places(x, calls)
      OBVIOUS
    <3>1. p = <<p[1], p[2]>>
      BY <2>1, PlacesAt
    <3>2. p[1] \in Batches /\ p[2] \in DOMAIN encoded[p[1]] /\ encoded[p[1]][p[2]] = x
      BY <2>1, <3>1, PlacesAt
    <3>3. p[2] \in DOMAIN calls[p[1]] /\ calls[p[1]][p[2]] = x
      BY <1>1, <3>2 DEF SentInv, Lists
    <3> QED BY <2>1, <3>1, <3>2, <3>3, PlacesAt
  <2>3. IsFiniteSet(Places(x, calls))
    BY <1>1 DEF SentInv, Counted
  <2> QED BY <2>2, <2>3, FS_Subset, FS_CardinalityType
<1>2. SentInv => SentOnce
  <2> SUFFICES ASSUME SentInv PROVE SentOnce
    OBVIOUS
  <2>1. /\ sent \subseteq Items /\ Jobs \cup Batches = Items
        /\ \A j \in Jobs : job[j].waits \in Nat
    BY JobsTyped DEF SentInv, NestInv, TypeOK, JobTypes, Items
  <2>2. \A item \in sent : Places(item, encoded) = {}
    BY <1>1, <2>1 DEF SentInv, Counted
  <2>3. \A b \in Batches : Cardinality(Places(b, encoded)) <= 1
    BY <1>1, <2>1 DEF SentInv, Counted
  <2>4. \A j \in Jobs : Cardinality(Places(j, encoded)) <= job[j].waits
    BY <1>1, <2>1 DEF SentInv, Counted
  <2> QED BY <2>2, <2>3, <2>4 DEF SentOnce
<1> QED BY <1>2, SentInit, SentNext, PTL DEF Spec

-----------------------------------------------------------------------------
(* Who signs                                                               *)

\* The methods sign with the key the chain takes the call from.
LEMMA RightKeys ==
    ASSUME NEW call \in HighLevel \cup LowLevel
    PROVE  call.key = RoleOf(call.function)
BY DEF HighLevel, LowLevel, SignedBy, RoleOf, HotkeyFunctions, AddStake, RemoveStake,
       BurnedRegister, RootRegister, RegisterNetwork, ServeAxon, ServeAxonTls,
       SetMechanismWeights, SetMechanism0, CommitMechanismWeights, CommitTimelocked0,
       CommitCrv3, SetCommitment, Sudo, SetCommitReveal, SetTempo, SetRateLimit,
       NeuronsRegister, NeuronsServe, CommitmentsSet, CommitmentsSetRevealed,
       WeightsSet, WeightsCommit, NeuronAddStake, NeuronRemoveStake, SubnetsRegister

LEMMA SignerIsMeant ==
    ASSUME NEW op \in Operations
    PROVE  /\ Signer(op) = Meant(op)
           /\ Signer(op).key = RoleOf(op.call.function)
           /\ op.wallet \in {None, Own} /\ RoleOf(op.call.function) = "coldkey" =>
                BatchSigner = Meant(op)
<1>1. op.call.key = RoleOf(op.call.function)
  BY RightKeys DEF Operations
<1> QED BY <1>1 DEF Signer, Meant, WalletOf, Account, BatchSigner

\* A call acts for the account it is meant for: alone always, and in a batch,
\* which the coldkey of the client's wallet signs, unless another wallet was
\* given; and the chain refuses no call sent alone for its key.
THEOREM CallsCorrect == Spec => []CallsActForTheirOwn
<1>1. ASSUME SentInv PROVE CallsActForTheirOwn
  <2>1. \A j \in Jobs : job[j].op \in Operations
    BY <1>1, BatchAssumption DEF SentInv, NestInv, TypeOK
  <2>2. took \subseteq Jobs
    BY <1>1 DEF SentInv, NestInv, TypeOK
  <2>3. ASSUME NEW j \in took, Origin(j) # Meant(job[j].op)
        PROVE  j \notin sent /\ job[j].op.wallet \notin {None, Own}
    <3>1. j \notin sent
      BY <2>1, <2>2, <2>3, SignerIsMeant DEF Origin
    <3>2. Takes(BatchSigner, j)
      BY <1>1, <3>1 DEF SentInv, EffectsAreSent
    <3>3. RoleOf(job[j].op.call.function) = "coldkey"
      BY <3>2 DEF Takes, BatchSigner, Account
    <3> QED BY <2>1, <2>2, <2>3, <3>1, <3>3, SignerIsMeant DEF Origin
  <2>4. ASSUME NEW j \in sent \cap Jobs PROVE Takes(Origin(j), j)
    BY <2>1, <2>4, SignerIsMeant DEF Origin, Takes
  <2> QED BY <2>3, <2>4 DEF CallsActForTheirOwn
<1> QED BY <1>1, SentInit, SentNext, PTL DEF Spec

-----------------------------------------------------------------------------
(* Transactions                                                            *)

\* The transaction b has all its calls in took, or none.
LEMMA WholeStays ==
    ASSUME SentInv, TransactionsAreWhole, NEW b \in Batches, b \in closed,
           class'[b] = class[b], class[b] = "Transaction",
           encoded'[b] = encoded[b], took \subseteq took',
           \A c \in Batches : Elements(encoded[c]) \subseteq Elements(encoded'[c]),
           \A j \in Jobs : j \in CallsOf(b)' /\ j \in took' => j \in took
    PROVE  CallsOf(b)' \subseteq took' \/ CallsOf(b)' \cap took' = {}
<1>1. CallsOf(b)' \subseteq CallsOf(b)
  BY DEF CallsOf, Elements
<1>2. CallsOf(b) \subseteq took \/ CallsOf(b) \cap took = {}
  BY DEF TransactionsAreWhole
<1>3. CallsOf(b)' \subseteq Jobs
  BY DEF CallsOf
<1> QED BY <1>1, <1>2, <1>3

\* A batch that is closed has none of its calls in took.
LEMMA NoneYet ==
    ASSUME SentInv, NEW r \in Batches, Closes(r)
    PROVE  CallsOf(r)' \cap took = {}
<1>1. /\ encoded'[r] = calls[r] /\ encoded[r] = <<>>
      /\ \A c \in Batches : Elements(encoded[c]) \subseteq Elements(encoded'[c])
  BY ClosesLists
<1>2. Elements(encoded[r]) = {}
  BY <1>1, NothingOpen
<1>3. SUFFICES ASSUME NEW j \in Jobs, j \in CallsOf(r)', j \in took PROVE FALSE
  BY DEF CallsOf
<1>4. /\ j \in Elements(calls[r])
      /\ \A c \in Batches : j \in Elements(encoded'[c]) => c = r
  BY <1>1, <1>3 DEF CallsOf, Elements
<1>5. j \notin sent
  BY <1>4, NotAlone
<1>6. PICK b \in Batches : j \in Elements(encoded[b])
  BY <1>3, <1>5 DEF SentInv, EffectsAreSent
<1>7. b = r
  BY <1>1, <1>4, <1>6
<1> QED BY <1>2, <1>6, <1>7

LEMMA WholeNext ==
    SentInv /\ TransactionsAreWhole /\ [Next]_vars => TransactionsAreWhole'
<1> SUFFICES ASSUME SentInv, TransactionsAreWhole, [Next]_vars,
                    NEW b \in closed', class'[b] = "Transaction"
             PROVE  CallsOf(b)' \subseteq took' \/ CallsOf(b)' \cap took' = {}
  BY DEF TransactionsAreWhole
<1> USE BatchAssumption
<1>1. NestInv /\ NestInv'
  BY NestNext DEF SentInv
<1>2. b \in Batches
  BY <1>1 DEF NestInv, TypeOK
<1>3. CASE Still
  BY <1>2, <1>3, WholeStays DEF Still
<1>4. ASSUME NEW r \in Batches, GivesUp(r)
      PROVE  CallsOf(b)' \subseteq took' \/ CallsOf(b)' \cap took' = {}
  <2>1. CASE b = r
    <3>1. encoded'[r] = <<>>
      BY <1>4 DEF GivesUp, SentInv, Lists
    <3>2. Elements(encoded'[r]) = {}
      BY <3>1, NothingOpen
    <3> QED BY <2>1, <3>2 DEF CallsOf, Elements
  <2>2. CASE b # r
    BY <1>2, <1>4, <2>2, WholeStays DEF GivesUp
  <2> QED BY <2>1, <2>2
<1>5. ASSUME NEW r \in Batches, NEW c \in Batches, Joins(r, c)
      PROVE  CallsOf(b)' \subseteq took' \/ CallsOf(b)' \cap took' = {}
  <2>1. Closes(r) /\ took' = took
    BY <1>5 DEF Joins
  <2>2. closed' = closed \cup {r} /\ class' = class
    BY <2>1 DEF Closes
  <2>3. CASE b = r
    BY <2>1, <2>3, NoneYet
  <2>4. CASE b # r
    <3>1. /\ encoded'[b] = encoded[b] /\ b \in closed
          /\ \A d \in Batches : Elements(encoded[d]) \subseteq Elements(encoded'[d])
      BY <1>2, <2>1, <2>2, <2>4, ClosesLists
    <3> QED BY <1>2, <2>1, <2>2, <3>1, WholeStays
  <2> QED BY <2>3, <2>4
<1>6. ASSUME NEW r \in Batches, Submits(r)
      PROVE  CallsOf(b)' \subseteq took' \/ CallsOf(b)' \cap took' = {}
  <2>1. Closes(r)
    BY <1>6 DEF Submits
  <2>2. closed' = closed \cup {r} /\ class' = class
    BY <2>1 DEF Closes
  <2>3. \A c \in Batches : c \in closed' => encoded'[c] = List(c)
    BY <2>1, ClosesLists
  <2>4. CallsOf(b)' \subseteq took \/ CallsOf(b)' \cap took = {}
    <3>1. CASE b = r
      BY <2>1, <3>1, NoneYet
    <3>2. CASE b # r
      <4>1. /\ encoded'[b] = encoded[b] /\ b \in closed
            /\ \A c \in Batches : Elements(encoded[c]) \subseteq Elements(encoded'[c])
        BY <1>2, <2>1, <2>2, <3>2, ClosesLists
      <4>2. CallsOf(b)' \subseteq CallsOf(b)
        BY <4>1 DEF CallsOf, Elements
      <4>3. CallsOf(b) \subseteq took \/ CallsOf(b) \cap took = {}
        BY <2>2, <4>1 DEF TransactionsAreWhole
      <4> QED BY <4>2, <4>3
    <3> QED BY <3>1, <3>2
  <2>5. CASE took' = took
    BY <2>4, <2>5
  <2>6. CASE took' # took
    <3>1. PICK R \in SUBSET Items :
            /\ R \cap Batches \subseteq closed'
            /\ took' = took \cup (Jobs \cap R)
            /\ \A x \in R : x = r \/ \E c \in Batches \cap R : x \in Elements(encoded'[c])
            /\ \A c \in Batches \cap R : class[c] = "Transaction" =>
                 Elements(encoded'[c]) \subseteq R
      BY <1>6, <2>6, SubmitExecutes DEF Submits
    <3>2. ASSUME NEW j \in CallsOf(b)'
          PROVE  /\ j \in Jobs /\ j \in Elements(encoded'[b])
                 /\ \A c \in Batches : j \in Elements(encoded'[c]) => c = b
      BY <3>2 DEF CallsOf, Elements
    <3>3. CASE b \in R
      <4>1. Elements(encoded'[b]) \subseteq R
        BY <1>2, <2>2, <3>1, <3>3
      <4> QED BY <3>1, <3>2, <4>1
    <3>4. CASE b \notin R
      <4>1. ASSUME NEW j \in CallsOf(b)', j \in R PROVE FALSE
        <5>1. j # r
          BY <3>2
        <5>2. PICK c \in Batches \cap R : j \in Elements(encoded'[c])
          BY <3>1, <4>1, <5>1
        <5> QED BY <3>2, <3>4, <5>2
      <4> QED BY <2>4, <3>1, <4>1
    <3> QED BY <3>3, <3>4
  <2> QED BY <2>5, <2>6
<1>7. ASSUME NEW j \in Jobs, NEW c \in Batches, Adds(j, c)
      PROVE  CallsOf(b)' \subseteq took' \/ CallsOf(b)' \cap took' = {}
  BY <1>2, <1>7, WholeStays DEF Adds
<1>8. ASSUME NEW j \in Jobs, Sends(j)
      PROVE  CallsOf(b)' \subseteq took' \/ CallsOf(b)' \cap took' = {}
  <2>1. UNCHANGED <<encoded, closed, class>>
    BY <1>8 DEF Sends
  <2>2. took \subseteq took' /\ took' \subseteq took \cup {j}
    BY <1>1, <1>8, SendsOne
  <2>3. \A c \in Batches : j \notin Elements(encoded[c])
    <3>1. ASSUME NEW c \in Batches, j \in Elements(encoded[c]) PROVE FALSE
      <4>1. j \in Elements(calls[c])
        BY <3>1, NotAlone
      <4>2. Places(j, calls) # {}
        BY <1>1, <4>1, PlacesAt DEF NestInv, TypeOK
      <4> QED BY <1>8, <4>2 DEF Sends, SentInv, InOrOut
    <3> QED BY <3>1
  <2>4. j \notin CallsOf(b)'
    BY <1>2, <2>1, <2>3 DEF CallsOf, Elements
  <2> QED BY <1>2, <2>1, <2>2, <2>4, WholeStays
<1> QED
  BY <1>1, <1>3, <1>4, <1>5, <1>6, <1>7, <1>8, KindsOfSteps

\* However transactions and batches are nested, interleaved and failed, of the
\* calls of a Transaction, and of no other batch, all have an effect or none.
THEOREM TransactionsCorrect == Spec => []TransactionsAreWhole
<1>1. Init => TransactionsAreWhole
  BY DEF Init, TransactionsAreWhole
<1> QED BY <1>1, SentInit, SentNext, WholeNext, PTL DEF Spec

-----------------------------------------------------------------------------
(* What becomes of a call                                                  *)

\* A batch leads to what a list of it holds.
Held(lists) == UNION {{b} \X Elements(lists[b]) : b \in Batches}

LEMMA HeldLinks ==
    ASSUME NEW lists \in [Batches -> Seq(Items)]
    PROVE  Held(lists) \in SUBSET (Items \X Items)
<1>1. \A b \in Batches : b \in Items /\ Elements(lists[b]) \subseteq Items
  BY ElementsAt DEF Items
<1> QED BY <1>1 DEF Held

LEMMA HeldMore ==
    ASSUME NEW f, NEW g, \A b \in Batches : Elements(f[b]) \subseteq Elements(g[b])
    PROVE  Held(f) \subseteq Held(g)
BY DEF Held

LEMMA HeldIn ==
    ASSUME NEW S, NEW lists \in [Batches -> Seq(Items)], NEW b \in Batches,
           b \in Reached(S, Held(lists)), NEW x \in Elements(lists[b])
    PROVE  x \in Reached(S, Held(lists))
<1>1. <<b, x>> \in Held(lists) /\ x \in Items
  BY ElementsAt DEF Held
<1>2. <<b, x>>[1] = b /\ <<b, x>>[2] = x
  OBVIOUS
<1> QED BY <1>1, <1>2, ReachedStep

\* A set that has the items of S and, with a batch, what the batch holds.
LEMMA HeldLeast ==
    ASSUME NEW S, NEW lists, NEW T \in SUBSET Items, S \subseteq T,
           \A b \in Batches : b \in T => Elements(lists[b]) \subseteq T
    PROVE  Reached(S, Held(lists)) \subseteq T
<1>1. ASSUME NEW l \in Held(lists), l[1] \in T PROVE l[2] \in T
  <2>1. PICK b \in Batches : l \in {b} \X Elements(lists[b])
    BY <1>1 DEF Held
  <2>2. l[1] = b /\ l[2] \in Elements(lists[b])
    BY <2>1
  <2> QED BY <1>1, <2>2
<1> QED BY <1>1, ReachedLeast

LEMMA WithinHeld == ASSUME NEW S PROVE Within(S) = Reached(S, Held(encoded))
BY DEF Within, Held

\* While nothing has failed: jobs run only in a gather(), in the context of it.
JobsInv ==
    ~ failing =>
        /\ main # "gather" => \A j \in Jobs : job[j].stage \in {"idle", "done"}
        /\ main = "gather" =>
             \A j \in Jobs : job[j].stage = "running" => job[j].ctx = ctx

\* Then a batch is closed with all it ever holds, the call of a job that has not
\* raised has been executed or is in a batch once its Extrinsic is waited for, and
\* a batch is open or has gone the same way.
HeldInv ==
    ~ failing =>
        /\ \A b \in closed : encoded[b] = calls[b]
        /\ \A b \in Batches : b \in closed \cup Elements(open) \/ calls[b] = <<>>
        /\ \A j \in Jobs : job[j].stage # "raised" /\ job[j].waits > 0 =>
             \/ j \in sent /\ j \in took
             \/ \E b \in Batches : j \in Elements(calls[b])
        /\ closed \subseteq Reached(sent \cup Elements(open), Held(calls))

\* And a call that was sent in a batch has had its effect, unless it was in a
\* batch that may skip it.
KeptInv ==
    ~ failing =>
        \A j \in Jobs : j \in Within(sent) =>
            \/ j \in sent \/ j \in took
            \/ \E b \in closed : class[b] # "Transaction" /\ j \in Within({b})

LEMMA LostInit == Init => JobsInv /\ HeldInv /\ KeptInv
<1> SUFFICES ASSUME Init PROVE JobsInv /\ HeldInv /\ KeptInv
  OBVIOUS
<1>1. /\ main = "body" /\ closed = {} /\ sent = {} /\ took = {}
      /\ \A b \in Batches : calls[b] = <<>> /\ encoded[b] = <<>>
  BY DEF Init
<1>2. \A j \in Jobs : job[j].stage = "idle" /\ job[j].waits = 0
  <2>1. PICK ops \in [Jobs -> Tasks] :
          job = [j \in Jobs |-> [op |-> ops[j], stage |-> "idle", ctx |-> None, waits |-> 0]]
    BY DEF Init
  <2> QED BY <2>1
<1>3. \A b \in Batches : Elements(encoded[b]) \subseteq {}
  BY <1>1, NothingOpen
<1>4. Within(sent) = {}
  BY <1>1, <1>3, HeldLeast, WithinHeld
<1> QED BY <1>1, <1>4, <1>2 DEF JobsInv, HeldInv, KeptInv

LEMMA JobsNext ==
    ASSUME NestInv, JobsInv, [Next]_vars
    PROVE  JobsInv' /\ (~ failing' => ~ failing)
<1>0. /\ TypeOK /\ \A j \in Jobs : job[j] \in JobTypes
      /\ job \in [Jobs -> JobTypes]
  BY JobsTyped DEF NestInv
<1>1. ASSUME NEW b \in Batches, NEW made \in Classes, Enter(b, made)
      PROVE  JobsInv' /\ (~ failing' => ~ failing)
  BY <1>1 DEF Enter, JobsInv
<1>2. ASSUME NEW jobs \in SUBSET Jobs, Gather(jobs)
      PROVE  JobsInv' /\ (~ failing' => ~ failing)
  <2>1. /\ main = "body" /\ ~ failing /\ main' = "gather" /\ ctx' = ctx
        /\ failing' = failing
    BY <1>2 DEF Gather
  <2>2. ASSUME NEW j \in Jobs, job'[j].stage = "running" PROVE job'[j].ctx = ctx
    <3>1. job'[j] = IF j \in jobs
                    THEN [job[j] EXCEPT !.stage = "running", !.ctx = ctx] ELSE job[j]
      BY <1>2 DEF Gather
    <3>2. job[j].stage \in {"idle", "done"}
      BY <2>1 DEF JobsInv
    <3> QED BY <1>0, <2>2, <3>1, <3>2 DEF JobTypes
  <2> QED BY <2>1, <2>2 DEF JobsInv
<1>3. CASE Gathered
  <2>1. \A j \in Jobs : job[j].stage \in {"idle", "done"}
    BY <1>3 DEF Gathered, Started
  <2> QED BY <1>3, <2>1 DEF Gathered, JobsInv
<1>4. CASE GatherRaises \/ LeaveRaises
  BY <1>4 DEF GatherRaises, LeaveRaises, JobsInv
<1>5. CASE Leave
  BY <1>5 DEF Leave, JobsInv
<1>6. CASE SubmitBatch
  <2>1. main = "exit" /\ main' = "body" /\ job' = job /\ (~ failing' => ~ failing)
    BY <1>0, <1>6 DEF SubmitBatch, Encode, TypeOK
  <2> QED BY <2>1 DEF JobsInv
<1>7. CASE AddBatch
  <2>1. main = "exit" /\ main' = "body" /\ job' = job /\ failing' = failing
    BY <1>7 DEF AddBatch, Encode
  <2> QED BY <2>1 DEF JobsInv
<1>8. ASSUME NEW j \in Jobs, JobReturns(j) \/ SubmitCall(j) \/ JobRaises(j)
      PROVE  JobsInv' /\ (~ failing' => ~ failing)
  <2>1. job[j].stage = "running" /\ UNCHANGED <<main, failing, ctx>>
    BY <1>8 DEF JobReturns, SubmitCall, JobRaises
  <2>2. \E stage \in {"done", "raised"}, waits \in Nat : Becomes(j, stage, waits)
    <3>1. CASE JobReturns(j) \/ JobRaises(j)
      <4>1. PICK stage \in {"done", "raised"} : job' = [job EXCEPT ![j].stage = stage]
        BY <3>1 DEF JobReturns, JobRaises, JobEnds
      <4>2. Becomes(j, stage, job[j].waits)
        BY <1>0, <4>1, EndBecomes DEF Stages
      <4>3. job[j].waits \in Nat
        BY <1>0 DEF JobTypes
      <4> QED BY <4>2, <4>3
    <3>2. CASE SubmitCall(j)
      <4>1. Sends(j)
        BY <3>2, SubmitSends
      <4> QED BY <4>1 DEF Sends
    <3> QED BY <1>8, <3>1, <3>2
  <2>3. PICK stage \in {"done", "raised"}, waits \in Nat : Becomes(j, stage, waits)
    BY <2>2
  <2>4. ~ failing => main = "gather"
    BY <2>1 DEF JobsInv
  <2> QED BY <2>1, <2>3, <2>4 DEF JobsInv, Becomes
<1>9. ASSUME NEW j \in Jobs, NEW b, Waited(j, b) PROVE JobsInv' /\ (~ failing' => ~ failing)
  <2>1. Becomes(j, job[j].stage, job[j].waits + 1)
    BY <1>0, <1>9, WaitBecomes DEF Waited
  <2>2. \A k \in Jobs : job'[k].stage = job[k].stage /\ job'[k].ctx = job[k].ctx
    BY <2>1 DEF Becomes
  <2> QED BY <1>9, <2>2 DEF JobsInv, Waited
<1>10. ASSUME NEW j \in Jobs, Add(j) \/ AddLater(j)
       PROVE  JobsInv' /\ (~ failing' => ~ failing)
  BY <1>9, <1>10 DEF Add, AddLater, JobsInv
<1>11. CASE UNCHANGED vars
  BY <1>11 DEF vars, JobsInv
<1> QED
  BY <1>1, <1>2, <1>3, <1>4, <1>5, <1>6, <1>7, <1>8, <1>11, <1>10 DEF Next

\* What every step of the lists does to HeldInv, in the terms it is about.
LEMMA HeldStill ==
    ASSUME SentInv, SentInv', HeldInv, ~ failing, Still,
           Elements(open) \subseteq Elements(open')
    PROVE  HeldInv'
<1>1. /\ calls' = calls /\ encoded' = encoded /\ closed' = closed
      /\ sent' = sent /\ took' = took
  BY DEF Still
<1>2. \A j \in Jobs : /\ job'[j].stage # "raised" => job[j].stage # "raised"
                      /\ job'[j].waits = job[j].waits
  BY DEF Still
<1>3. Held(calls)' = Held(calls)
  BY <1>1 DEF Held, Elements
<1>4. Held(calls) \in SUBSET (Items \X Items)
  BY HeldLinks DEF SentInv, NestInv, TypeOK
<1>5. sent \cup Elements(open)
        \subseteq Reached(sent \cup Elements(open'), Held(calls))
  <2>1. sent \cup Elements(open') \subseteq Items
    <3>1. open' \in Seq(Batches) /\ sent \subseteq Items
      BY <1>1 DEF SentInv, NestInv, TypeOK
    <3> QED BY <3>1, ElementsAt DEF Items
  <2> QED BY <2>1, ReachedHas
<1>6. closed' \subseteq Reached(sent \cup Elements(open'), Held(calls))
  BY <1>1, <1>4, <1>5, ReachedMore DEF HeldInv
<1>7. /\ \A b \in closed' : encoded'[b] = calls'[b]
      /\ \A b \in Batches : b \in closed' \cup Elements(open') \/ calls'[b] = <<>>
  BY <1>1 DEF HeldInv
<1>8. \A j \in Jobs : job'[j].stage # "raised" /\ job'[j].waits > 0 =>
        \/ j \in sent' /\ j \in took'
        \/ \E b \in Batches : j \in Elements(calls'[b])
  BY <1>1, <1>2 DEF HeldInv
<1>9. closed' \subseteq Reached(sent' \cup Elements(open'), Held(calls'))
  BY <1>1, <1>6
<1> QED BY <1>7, <1>8, <1>9 DEF HeldInv, Held, Elements

\* The batches that are closed stay reachable when the lists grow.
LEMMA StaysReached ==
    ASSUME SentInv, HeldInv, ~ failing, calls' \in [Batches -> Seq(Items)],
           NEW U \in SUBSET Items,
           \A b \in Batches : Elements(calls[b]) \subseteq Elements(calls'[b]),
           sent \cup Elements(open) \subseteq Reached(U, Held(calls'))
    PROVE  closed \subseteq Reached(U, Held(calls'))
<1>1. Held(calls) \subseteq Held(calls') /\ Held(calls') \in SUBSET (Items \X Items)
  BY HeldMore, HeldLinks
<1> QED BY <1>1, ReachedMore DEF HeldInv

LEMMA HeldNext ==
    SentInv /\ JobsInv /\ HeldInv /\ [Next]_vars => HeldInv'
<1> SUFFICES ASSUME SentInv, JobsInv, HeldInv, [Next]_vars, ~ failing' PROVE HeldInv'
  BY DEF HeldInv
<1> USE BatchAssumption
<1>0. /\ NestInv /\ NestInv' /\ TypeOK /\ TypeOK' /\ SentInv' /\ ~ failing
  BY SentNext, JobsNext DEF SentInv, NestInv
<1>a. /\ calls \in [Batches -> Seq(Items)] /\ calls' \in [Batches -> Seq(Items)]
      /\ open \in Seq(Batches) /\ open' \in Seq(Batches)
      /\ sent \subseteq Items /\ sent' \subseteq Items
      /\ closed \subseteq Batches
      /\ Elements(open) \subseteq Items /\ Elements(open') \subseteq Items
  BY <1>0, ElementsAt DEF TypeOK, Items
<1>b. /\ \A b \in closed : encoded[b] = calls[b]
      /\ \A b \in Batches : b \in closed \cup Elements(open) \/ calls[b] = <<>>
      /\ \A j \in Jobs : job[j].stage # "raised" /\ job[j].waits > 0 =>
           \/ j \in sent /\ j \in took
           \/ \E b \in Batches : j \in Elements(calls[b])
      /\ closed \subseteq Reached(sent \cup Elements(open), Held(calls))
  BY <1>0 DEF HeldInv
<1>1. ASSUME NEW b \in Batches, NEW made \in Classes, Enter(b, made) PROVE HeldInv'
  <2>1. Still
    BY <1>0, <1>1, StillSteps DEF StillStep
  <2>2. Elements(open') = Elements(open) \cup {b}
    BY <1>a, <1>1, ElementsAppend DEF Enter
  <2> QED BY <1>0, <2>1, <2>2, HeldStill
<1>2. CASE SubmitBatch
  <2> DEFINE r == Innermost
  <2>1. /\ main = "exit" /\ Encode(Innermost) /\ calls' = calls /\ job' = job
        /\ sent' = sent \cup {r} /\ class' = class /\ took \subseteq took'
    BY <1>2 DEF SubmitBatch, Submitted, Executed
  <2>2. /\ r \in Batches /\ r \notin closed /\ r \in Elements(open)
        /\ closed' = closed \cup {r}
        /\ encoded' = [encoded EXCEPT ![r] = calls[r]]
        /\ Elements(open)' = Elements(open) \ {r}
    BY <1>0, <2>1, Encoded
  <2>3. Closes(r)
    BY <2>1, <2>2 DEF Closes
  <2> HIDE DEF r
  <2>4. \A b \in closed' : encoded'[b] = calls'[b]
    BY <1>a, <1>b, <1>0, <2>1, <2>2, <2>3, ClosesLists
  <2>5. /\ sent \cup Elements(open) \subseteq sent' \cup Elements(open')
        /\ sent' \cup Elements(open') \subseteq Items
        /\ r \in sent' \cup Elements(open')
    BY <1>a, <2>1, <2>2 DEF Elements
  <2>6. closed \subseteq Reached(sent' \cup Elements(open'), Held(calls'))
    BY <1>0, <1>a, <2>1, <2>5, ReachedHas, StaysReached
  <2>7. closed' \subseteq Reached(sent' \cup Elements(open'), Held(calls'))
    BY <2>2, <2>5, <2>6, ReachedHas
  <2>8. /\ \A b \in Batches : b \in closed' \cup Elements(open') \/ calls'[b] = <<>>
        /\ \A j \in Jobs : job'[j].stage # "raised" /\ job'[j].waits > 0 =>
             \/ j \in sent' /\ j \in took'
             \/ \E b \in Batches : j \in Elements(calls'[b])
    <3>1. Elements(open') = Elements(open) \ {r}
      BY <2>2 DEF Elements
    <3>2. \A b \in Batches : b \in closed' \cup Elements(open') \/ calls'[b] = <<>>
      BY <1>b, <2>1, <2>2, <3>1
    <3>3. \A j \in Jobs : job'[j].stage # "raised" /\ job'[j].waits > 0 =>
             \/ j \in sent' /\ j \in took'
             \/ \E b \in Batches : j \in Elements(calls'[b])
      BY <1>b, <2>1
    <3> QED BY <3>2, <3>3
  <2> QED BY <2>4, <2>7, <2>8 DEF HeldInv, Held, Elements
<1>3. CASE AddBatch
  <2> DEFINE r == Innermost
  <2>1. /\ main = "exit" /\ Encode(Innermost) /\ job' = job /\ class' = class
        /\ sent' = sent /\ took' = took /\ ctx # None /\ ctx' = ctx
        /\ calls' = [calls EXCEPT ![ctx] = Append(@, r)]
    BY <1>3 DEF AddBatch
  <2>2. /\ r \in Batches /\ r \notin closed /\ r \in Elements(open)
        /\ closed' = closed \cup {r}
        /\ encoded' = [encoded EXCEPT ![r] = calls[r]]
        /\ Elements(open)' = Elements(open) \ {r}
        /\ main' = "body"
    BY <1>0, <2>1, Encoded
  <2>3. Closes(r)
    BY <2>1, <2>2 DEF Closes
  <2>4. ctx \in Elements(open') /\ Elements(open') \cap closed' = {} /\ ctx \in Batches
    <3>1. open' = SubSeq(open, 1, Len(open) - 1)
      BY <2>1 DEF Encode
    <3>2. ctx \in Elements(open') /\ Nesting'
      BY <1>0, <2>1, <2>2, <3>1, GoesOut
    <3>3. ctx \in Batches
      BY <1>0, <2>1 DEF TypeOK
    <3> QED BY <3>2, <3>3 DEF Nesting, Elements
  <2> HIDE DEF r
  <2>5. Grows(ctx, r)
    BY <1>0, <2>1, <2>2, <2>4, Appended DEF Items
  <2>6. \A b \in Batches : b # ctx => calls'[b] = calls[b]
    BY <1>a, <2>1
  <2>7. \A b \in closed' : encoded'[b] = calls'[b]
    BY <1>a, <1>b, <1>0, <2>2, <2>3, <2>4, <2>6, ClosesLists
  <2>8. /\ \A b \in Batches : Elements(calls[b]) \subseteq Elements(calls'[b])
        /\ r \in Elements(calls'[ctx])
    BY <2>4, <2>5 DEF Grows
  <2>9. /\ sent' \cup Elements(open') \subseteq Items
        /\ sent \cup Elements(open) \subseteq (sent' \cup Elements(open')) \cup {r}
    BY <1>a, <2>1, <2>2 DEF Elements
  <2>10. ctx \in Reached(sent' \cup Elements(open'), Held(calls'))
    BY <2>4, <2>9, ReachedHas
  <2>11. r \in Reached(sent' \cup Elements(open'), Held(calls'))
    BY <1>a, <2>4, <2>8, <2>10, HeldIn
  <2>12. closed \subseteq Reached(sent' \cup Elements(open'), Held(calls'))
    <3>1. sent \cup Elements(open) \subseteq Reached(sent' \cup Elements(open'), Held(calls'))
      BY <2>9, <2>11, ReachedHas
    <3> QED BY <1>0, <1>a, <2>8, <2>9, <3>1, StaysReached
  <2>13. /\ \A b \in Batches : b \in closed' \cup Elements(open') \/ calls'[b] = <<>>
         /\ \A j \in Jobs : job'[j].stage # "raised" /\ job'[j].waits > 0 =>
              \/ j \in sent' /\ j \in took'
              \/ \E b \in Batches : j \in Elements(calls'[b])
    <3>1. Elements(open') = Elements(open) \ {r}
      BY <2>2 DEF Elements
    <3>2. \A b \in Batches : b \in closed' \cup Elements(open') \/ calls'[b] = <<>>
      BY <1>b, <2>2, <2>4, <2>6, <3>1
    <3>3. \A j \in Jobs : job'[j].stage # "raised" /\ job'[j].waits > 0 =>
             \/ j \in sent' /\ j \in took'
             \/ \E b \in Batches : j \in Elements(calls'[b])
      BY <1>b, <2>1, <2>8
    <3> QED BY <3>2, <3>3
  <2> QED BY <2>2, <2>7, <2>11, <2>12, <2>13 DEF HeldInv, Held, Elements
<1>4. CASE LeaveRaises \/ GatherRaises
  BY <1>4 DEF LeaveRaises, GatherRaises
<1>5. ASSUME NEW j \in Jobs, NEW b \in Batches, Adds(j, b), b \in Elements(open),
             open' = open
      PROVE  HeldInv'
  <2>1. /\ calls' = [calls EXCEPT ![b] = Append(@, j)]
        /\ UNCHANGED <<open, closed, encoded, sent, took>>
    BY <1>5 DEF Adds
  <2>2. Elements(open) \cap closed = {}
    BY <1>0 DEF NestInv, Nesting
  <2>3. Grows(b, j)
    BY <1>0, <2>1, Appended DEF Items
  <2>4. \A c \in Batches : c # b => calls'[c] = calls[c]
    BY <1>a, <2>1
  <2>5. /\ \A c \in Batches : Elements(calls[c]) \subseteq Elements(calls'[c])
        /\ j \in Elements(calls'[b])
    BY <2>3 DEF Grows
  <2>6. \A k \in Jobs : k # j => job'[k] = job[k]
    BY <1>5 DEF Adds, Becomes
  <2>7. \A c \in closed' : encoded'[c] = calls'[c]
    BY <1>a, <1>b, <1>5, <2>1, <2>2, <2>4
  <2>8. \A c \in Batches : c \in closed' \cup Elements(open') \/ calls'[c] = <<>>
    BY <1>b, <1>5, <2>1, <2>4
  <2>9. \A k \in Jobs : job'[k].stage # "raised" /\ job'[k].waits > 0 =>
              \/ k \in sent' /\ k \in took'
              \/ \E c \in Batches : k \in Elements(calls'[c])
    <3> TAKE k \in Jobs
    <3>1. CASE k = j
      BY <2>5, <3>1
    <3>2. CASE k # j
      BY <1>b, <2>1, <2>5, <2>6, <3>2
    <3> QED BY <3>1, <3>2
  <2>10. sent \cup Elements(open) \subseteq Reached(sent' \cup Elements(open'), Held(calls'))
    BY <1>a, <2>1, ReachedHas
  <2>11. closed' \subseteq Reached(sent' \cup Elements(open'), Held(calls'))
    BY <1>0, <1>a, <2>1, <2>5, <2>10, StaysReached
  <2> QED BY <2>7, <2>8, <2>9, <2>11 DEF HeldInv, Held, Elements
<1>6. ASSUME NEW j \in Jobs, Add(j) \/ (AddLater(j) /\ ctx # None)
      PROVE  HeldInv'
  <2>1. Waited(j, ctx) /\ job[j].stage \in {"running", "done"} /\ job[j].ctx # None
    <3>1. CASE Add(j)
      <4>1. job[j].stage = "running" /\ Waited(j, job[j].ctx)
        BY <3>1 DEF Add
      <4>2. job[j].ctx = ctx
        BY <1>0, <4>1 DEF JobsInv
      <4> QED BY <4>1, <4>2 DEF Waited
    <3>2. CASE AddLater(j) /\ ctx # None
      BY <3>2 DEF AddLater
    <3> QED BY <1>6, <3>1, <3>2
  <2>2. main # "exit"
    BY <1>0, <1>6 DEF Add, AddLater, JobsInv
  <2>3. ctx \in Elements(open) /\ ctx \in Batches
    <3>1. open # <<>> /\ ctx = Innermost
      BY <1>0, <2>1, <2>2 DEF TypeOK, Innermost, Waited
    <3> QED BY <1>0, <3>1, Inside
  <2>4. Adds(j, ctx) /\ open' = open
    BY <1>0, <2>1, <2>3, WaitAdds DEF Waited
  <2> QED BY <1>5, <2>3, <2>4
<1>7. ASSUME NEW j \in Jobs, SubmitCall(j) PROVE HeldInv'
  <2>1. PICK waits \in BOOLEAN, raised \in BOOLEAN :
          /\ Submitted(j, Signer(job[j].op), raised \/ ~ waits)
          /\ job' = [job EXCEPT ![j].stage = IF raised THEN "raised" ELSE "done",
                                ![j].waits = IF waits THEN 1 ELSE 0]
    BY <1>7 DEF SubmitCall
  <2>2. /\ UNCHANGED <<main, open, failing, ctx, class, calls, closed, encoded>>
        /\ sent' = sent \cup {j} /\ took \subseteq took'
    BY <1>7, <2>1 DEF SubmitCall, Submitted, Executed
  <2>3. Becomes(j, IF raised THEN "raised" ELSE "done", IF waits THEN 1 ELSE 0)
    BY <1>0, <2>1, JobsTyped, SubmitBecomes
  <2>4. job'[j].stage # "raised" /\ job'[j].waits > 0 => j \in took'
    <3>1. CASE raised
      BY <2>3, <3>1 DEF Becomes
    <3>2. CASE ~ waits
      BY <2>3, <3>2 DEF Becomes
    <3>3. CASE ~ raised /\ waits
      <4>1. Executed(j, Signer(job[j].op)) /\ j \in Items
        BY <2>1, <3>3 DEF Submitted, Items
      <4>2. PICK R \in SUBSET Items : j \in R /\ took' = took \cup (Jobs \cap R)
        BY <1>0, <4>1, Execution
      <4> QED BY <4>2
    <3> QED BY <3>1, <3>2, <3>3
  <2>5. \A k \in Jobs : job'[k].stage # "raised" /\ job'[k].waits > 0 =>
              \/ k \in sent' /\ k \in took'
              \/ \E b \in Batches : k \in Elements(calls'[b])
    <3> TAKE k \in Jobs
    <3>1. CASE k = j
      BY <2>2, <2>4, <3>1
    <3>2. CASE k # j
      BY <1>b, <2>2, <2>3, <3>2 DEF Becomes
    <3> QED BY <3>1, <3>2
  <2>6. sent \cup Elements(open) \subseteq Reached(sent' \cup Elements(open'), Held(calls'))
    BY <1>a, <2>2, ReachedHas
  <2>7. closed' \subseteq Reached(sent' \cup Elements(open'), Held(calls'))
    BY <1>0, <1>a, <2>2, <2>6, StaysReached
  <2>8. /\ \A b \in closed' : encoded'[b] = calls'[b]
        /\ \A b \in Batches : b \in closed' \cup Elements(open') \/ calls'[b] = <<>>
    BY <1>b, <2>2
  <2> QED BY <2>5, <2>7, <2>8 DEF HeldInv, Held, Elements
<1>8. CASE StillStep
  <2>1. ASSUME open' = open PROVE HeldInv'
    BY <1>0, <1>8, <2>1, StillSteps, HeldStill
  <2>2. CASE \/ \E jobs \in SUBSET Jobs : Gather(jobs)
             \/ Gathered \/ Leave \/ UNCHANGED vars
    BY <2>1, <2>2 DEF Gather, Gathered, Leave, vars
  <2>3. CASE \E j \in Jobs : JobReturns(j) \/ JobRaises(j)
    BY <2>1, <2>3 DEF JobReturns, JobRaises
  <2>4. CASE \E j \in Jobs : AddLater(j) /\ ctx = None
    BY <2>4 DEF AddLater, Waited
  <2> QED BY <1>1, <1>4, <1>8, <2>2, <2>3, <2>4 DEF StillStep
<1> QED
  BY <1>2, <1>3, <1>4, <1>6, <1>7, <1>8, StepsAre

\* What is within an item stays within it when a batch is closed; and what was
\* sent before holds nothing more.
LEMMA ClosesWithin ==
    ASSUME SentInv, SentInv', NEW r \in Batches, Closes(r)
    PROVE  /\ \A b \in Batches : Within({b}) \subseteq Reached({b}, Held(encoded'))
           /\ Within(sent) \subseteq closed \cup Jobs
           /\ \A b \in Batches : b \in Within(sent) =>
                Elements(encoded'[b]) \subseteq Within(sent)
<1>1. /\ encoded \in [Batches -> Seq(Items)] /\ encoded' \in [Batches -> Seq(Items)]
      /\ calls \in [Batches -> Seq(Items)]
      /\ closed \subseteq Batches /\ sent \subseteq Items
  BY DEF SentInv, NestInv, TypeOK
<1>2. /\ \A b \in Batches : b # r => encoded'[b] = encoded[b]
      /\ \A b \in Batches : Elements(encoded[b]) \subseteq Elements(encoded'[b])
  BY ClosesLists
<1>3. ASSUME NEW b \in Batches PROVE Within({b}) \subseteq Reached({b}, Held(encoded'))
  <2>1. Held(encoded) \subseteq Held(encoded') /\ Held(encoded') \in SUBSET (Items \X Items)
    BY <1>1, <1>2, HeldMore, HeldLinks
  <2>2. {b} \subseteq Reached({b}, Held(encoded'))
    BY ReachedHas DEF Items
  <2> QED BY <2>1, <2>2, ReachedMore, WithinHeld
<1>4. Within(sent) \subseteq closed \cup Jobs
  <2>1. closed \cup Jobs \in SUBSET Items /\ sent \subseteq closed \cup Jobs
    BY <1>1 DEF Items, SentInv, Lists
  <2>2. \A b \in Batches : Elements(encoded[b]) \subseteq closed \cup Jobs
    <3>1. \A b \in Batches : Elements(encoded[b]) \subseteq Elements(calls[b])
      BY <1>1, ElementsAt DEF SentInv, Lists
    <3>2. \A b \in Batches : Elements(calls[b]) \subseteq Items
      BY <1>1, ElementsAt
    <3> QED BY <3>1, <3>2 DEF SentInv, Lists, Items
  <2> QED BY <2>1, <2>2, HeldLeast, WithinHeld
<1>5. ASSUME NEW b \in Batches, b \in Within(sent)
      PROVE  Elements(encoded'[b]) \subseteq Within(sent)
  <2>1. b # r
    BY <1>4, <1>5, BatchAssumption DEF Closes
  <2>2. Elements(encoded[b]) \subseteq Within(sent)
    BY <1>1, <1>5, HeldIn, WithinHeld
  <2> QED BY <1>2, <2>1, <2>2
<1> QED BY <1>3, <1>4, <1>5

\* A call in what was sent has had its effect, unless a batch that is no
\* Transaction holds it.
Kept(j) ==
    \/ j \in sent \/ j \in took
    \/ \E b \in closed : class[b] # "Transaction" /\ j \in Reached({b}, Held(encoded))

LEMMA KeptHeld ==
    KeptInv <=> (~ failing =>
        \A j \in Jobs : j \in Reached(sent, Held(encoded)) => Kept(j))
BY WithinHeld DEF KeptInv, Kept

LEMMA KeptGrows ==
    ASSUME SentInv, SentInv', NEW r \in Batches, Closes(r),
           sent \subseteq sent', took \subseteq took', NEW j, Kept(j)
    PROVE  Kept(j)'
<1>1. closed' = closed \cup {r} /\ class' = class
  BY DEF Closes
<1>2. ASSUME NEW b \in closed, class[b] # "Transaction", j \in Reached({b}, Held(encoded))
      PROVE  j \in Reached({b}, Held(encoded'))
  <2>1. b \in Batches
    BY DEF SentInv, NestInv, TypeOK
  <2> QED BY <1>2, <2>1, ClosesWithin, WithinHeld
<1>3. CASE j \in sent \/ j \in took
  BY <1>3 DEF Kept
<1>4. CASE \E b \in closed : class[b] # "Transaction" /\ j \in Reached({b}, Held(encoded))
  <2>1. PICK b \in closed : class[b] # "Transaction" /\ j \in Reached({b}, Held(encoded))
    BY <1>4
  <2>2. b \in closed' /\ class'[b] # "Transaction" /\ j \in Reached({b}, Held(encoded'))
    BY <1>1, <1>2, <2>1
  <2> QED BY <2>2 DEF Kept, Held, Elements
<1> QED BY <1>3, <1>4 DEF Kept

LEMMA KeptStays ==
    ASSUME UNCHANGED <<encoded, closed>>, \A b \in closed : class'[b] = class[b],
           sent \subseteq sent', took \subseteq took', NEW j, Kept(j)
    PROVE  Kept(j)'
<1>1. CASE j \in sent \/ j \in took
  BY <1>1 DEF Kept
<1>2. CASE \E b \in closed : class[b] # "Transaction" /\ j \in Reached({b}, Held(encoded))
  <2>1. PICK b \in closed : class[b] # "Transaction" /\ j \in Reached({b}, Held(encoded))
    BY <1>2
  <2>2. b \in closed' /\ class'[b] # "Transaction" /\ j \in Reached({b}, Held(encoded'))
    BY <2>1
  <2> QED BY <2>2 DEF Kept, Held, Elements
<1> QED BY <1>1, <1>2 DEF Kept

\* What is executed of a batch keeps its promise.
LEMMA ExecutedKept ==
    ASSUME SentInv, SentInv', NEW r \in Batches, Closes(r), Executed(r, BatchSigner),
           NEW j \in Jobs, j \in Reached({r}, Held(encoded'))
    PROVE  Kept(j)'
<1>1. PICK R \in SUBSET Items :
        /\ r \in R /\ R \cap Batches \subseteq closed'
        /\ took' = took \cup (Jobs \cap R)
        /\ \A b \in Batches \cap R : class[b] = "Transaction" =>
             Elements(encoded'[b]) \subseteq R
  BY SubmitExecutes
<1>2. class' = class /\ encoded' \in [Batches -> Seq(Items)] /\ closed' \subseteq Batches
  BY DEF Closes, SentInv, NestInv, TypeOK
<1> DEFINE Other == {x \in Items : \E b \in closed' :
                        class'[b] # "Transaction" /\ x \in Reached({b}, Held(encoded'))}
           T == R \cup Other
<1>3. T \in SUBSET Items /\ {r} \subseteq T
  BY <1>1
<1>4. ASSUME NEW b \in Batches, b \in T, NEW x \in Elements(encoded'[b]) PROVE x \in T
  <2>1. x \in Items
    BY <1>2, <1>4, ElementsAt
  <2>2. CASE b \in R /\ class[b] = "Transaction"
    BY <1>1, <1>4, <2>2
  <2>3. CASE b \in R /\ class[b] # "Transaction"
    <3>1. b \in Reached({b}, Held(encoded'))
      BY ReachedHas DEF Items
    <3>2. x \in Reached({b}, Held(encoded'))
      BY <1>2, <1>4, <3>1, HeldIn
    <3> QED BY <1>1, <1>2, <2>1, <2>3, <3>2
  <2>4. CASE b \in Other
    <3>1. PICK c \in closed' :
            class'[c] # "Transaction" /\ b \in Reached({c}, Held(encoded'))
      BY <2>4
    <3>2. x \in Reached({c}, Held(encoded'))
      BY <1>2, <1>4, <3>1, HeldIn
    <3> QED BY <2>1, <3>1, <3>2
  <2> QED BY <1>4, <2>2, <2>3, <2>4
<1>5. Reached({r}, Held(encoded')) \subseteq T
  <2> HIDE DEF T
  <2> QED BY <1>3, <1>4, HeldLeast
<1>6. CASE j \in R
  BY <1>1, <1>6 DEF Kept
<1>7. CASE j \in Other
  BY <1>7 DEF Kept, Held, Elements
<1> QED BY <1>5, <1>6, <1>7

LEMMA KeptNext ==
    SentInv /\ JobsInv /\ KeptInv /\ [Next]_vars => KeptInv'
<1> SUFFICES ASSUME SentInv, JobsInv, KeptInv, [Next]_vars, ~ failing',
                    NEW j \in Jobs, j \in Reached(sent', Held(encoded'))
             PROVE  Kept(j)'
  <2>1. KeptInv' <=> (~ failing' =>
          \A k \in Jobs : k \in Reached(sent', Held(encoded')) => Kept(k)')
    BY WithinHeld DEF KeptInv, Kept, Within, Held, Elements
  <2> QED BY <2>1
<1> USE BatchAssumption
<1>0. /\ NestInv /\ TypeOK /\ TypeOK' /\ SentInv' /\ ~ failing
  BY SentNext, JobsNext DEF SentInv, NestInv
<1>a. /\ encoded \in [Batches -> Seq(Items)] /\ encoded' \in [Batches -> Seq(Items)]
      /\ sent \subseteq Items /\ sent' \subseteq Items /\ closed \subseteq Batches
  BY <1>0 DEF TypeOK
<1>b. \A k \in Jobs : k \in Reached(sent, Held(encoded)) => Kept(k)
  BY <1>0, KeptHeld
<1>1. CASE Still
  <2>1. UNCHANGED <<encoded, closed, sent, took>> /\ \A b \in closed : class'[b] = class[b]
    BY <1>1 DEF Still
  <2>2. Kept(j)
    BY <1>b, <2>1
  <2> QED BY <2>1, <2>2, KeptStays
<1>2. CASE SubmitBatch
  <2> DEFINE r == Innermost
  <2>1. /\ main = "exit" /\ Encode(Innermost) /\ calls' = calls /\ job' = job
        /\ sent' = sent \cup {r} /\ class' = class /\ took \subseteq took'
    BY <1>2 DEF SubmitBatch, Submitted, Executed
  <2>2. /\ r \in Batches /\ r \notin closed
        /\ closed' = closed \cup {r}
        /\ encoded' = [encoded EXCEPT ![r] = calls[r]]
    BY <1>0, <2>1, Encoded
  <2>3. Closes(r)
    BY <2>1, <2>2 DEF Closes
  <2>4. Executed(r, BatchSigner)
    BY <1>0, <1>2 DEF SubmitBatch, Submitted
  <2> HIDE DEF r
  <2> DEFINE T == Within(sent) \cup Reached({r}, Held(encoded'))
  <2>5. T \in SUBSET Items /\ sent' \subseteq T
    BY <1>a, <2>1, <2>2, ReachedItems, ReachedHas, WithinHeld DEF Items
  <2>6. ASSUME NEW b \in Batches, b \in T PROVE Elements(encoded'[b]) \subseteq T
    BY <1>0, <1>a, <2>2, <2>3, <2>6, ClosesWithin, HeldIn
  <2>7. j \in T
    <3> HIDE DEF T
    <3> QED BY <2>5, <2>6, HeldLeast
  <2>8. CASE j \in Within(sent)
    BY <1>0, <1>b, <2>1, <2>2, <2>3, <2>8, WithinHeld, KeptGrows
  <2>9. CASE j \in Reached({r}, Held(encoded'))
    BY <1>0, <2>2, <2>3, <2>4, <2>9, ExecutedKept
  <2> QED BY <2>7, <2>8, <2>9
<1>3. CASE AddBatch
  <2> DEFINE r == Innermost
  <2>1. /\ main = "exit" /\ Encode(Innermost) /\ job' = job /\ class' = class
        /\ sent' = sent /\ took' = took
    BY <1>3 DEF AddBatch
  <2>2. /\ r \in Batches /\ r \notin closed
        /\ closed' = closed \cup {r}
        /\ encoded' = [encoded EXCEPT ![r] = calls[r]]
    BY <1>0, <2>1, Encoded
  <2>3. Closes(r)
    BY <2>1, <2>2 DEF Closes
  <2> HIDE DEF r
  <2>4. Within(sent) \in SUBSET Items /\ sent' \subseteq Within(sent)
    BY <1>a, <2>1, ReachedItems, ReachedHas, WithinHeld
  <2>5. \A b \in Batches : b \in Within(sent) => Elements(encoded'[b]) \subseteq Within(sent)
    BY <1>0, <2>2, <2>3, ClosesWithin
  <2>6. j \in Within(sent)
    BY <2>4, <2>5, HeldLeast
  <2> QED BY <1>0, <1>b, <2>1, <2>2, <2>3, <2>6, WithinHeld, KeptGrows
<1>4. CASE LeaveRaises
  BY <1>4 DEF LeaveRaises
<1>5. ASSUME NEW k \in Jobs, Add(k) \/ AddLater(k) PROVE Kept(j)'
  <2>1. UNCHANGED <<encoded, closed, class, sent, took>>
    BY <1>5 DEF Add, AddLater, Waited
  <2>2. Kept(j)
    BY <1>b, <2>1
  <2> QED BY <2>1, <2>2, KeptStays
<1>6. ASSUME NEW k \in Jobs, SubmitCall(k) PROVE Kept(j)'
  <2>1. /\ UNCHANGED <<encoded, closed, class>> /\ sent' = sent \cup {k}
        /\ took \subseteq took'
    BY <1>6 DEF SubmitCall, Submitted, Executed
  <2> DEFINE T == Reached(sent, Held(encoded)) \cup {k}
  <2>2. T \in SUBSET Items /\ sent' \subseteq T
    BY <1>a, <2>1, ReachedItems, ReachedHas DEF Items
  <2>3. \A b \in Batches : b \in T => Elements(encoded'[b]) \subseteq T
    BY <1>a, <2>1, HeldIn
  <2>4. j \in T
    <3> HIDE DEF T
    <3> QED BY <2>2, <2>3, HeldLeast
  <2>5. CASE j = k
    BY <2>1, <2>5 DEF Kept
  <2>6. CASE j # k
    <3>1. Kept(j)
      BY <1>b, <2>4, <2>6
    <3> QED BY <2>1, <3>1, KeptStays
  <2> QED BY <2>5, <2>6
<1>7. CASE StillStep
  BY <1>0, <1>1, <1>7, StillSteps
<1> QED
  BY <1>2, <1>3, <1>4, <1>5, <1>6, <1>7, StepsAre

\* Outside every batch, with nothing raised, a job that is done and whose Extrinsic
\* was waited for has had its call executed, or sent in a batch that is not a
\* Transaction.
LEMMA NothingElseLost ==
    SentInv /\ HeldInv /\ KeptInv => LostOnlyAfterFailure
<1> SUFFICES ASSUME SentInv, HeldInv, KeptInv, open = <<>>, ~ failing,
                    NEW j \in Jobs, job[j].stage = "done", job[j].waits > 0, j \notin took
             PROVE  /\ j \in Within(sent)
                    /\ \E b \in closed : class[b] # "Transaction" /\ j \in Within({b})
  BY DEF LostOnlyAfterFailure
<1>1. PICK b \in Batches : j \in Elements(calls[b])
  BY DEF HeldInv
<1>2. Elements(open) = {}
  BY NothingOpen
<1>3. \A c \in Batches : encoded[c] = calls[c]
  BY <1>2 DEF HeldInv, SentInv, Lists
<1>4. Held(calls) = Held(encoded)
  BY <1>3 DEF Held
<1>5. b \in closed
  BY <1>1, <1>2, NothingOpen DEF HeldInv
<1>6. b \in Within(sent)
  BY <1>2, <1>4, <1>5, WithinHeld DEF HeldInv
<1>7. j \in Within(sent)
  BY <1>1, <1>3, <1>6, HeldIn, WithinHeld DEF SentInv, NestInv, TypeOK
<1>8. j \notin sent
  BY <1>1, NotAlone
<1> QED BY <1>7, <1>8 DEF KeptInv

\* However batches are nested and jobs gathered in them: outside every batch,
\* with nothing raised, a job that is done, and whose Extrinsic was waited for in
\* time or later, has had its call executed, unless it was sent in a batch that
\* goes on, or stops, at a failure and tells nobody.
THEOREM LostCorrect == Spec => []LostOnlyAfterFailure
<1>1. Init => SentInv /\ JobsInv /\ HeldInv /\ KeptInv
  BY SentInit, LostInit
<1>2. SentInv /\ JobsInv /\ HeldInv /\ KeptInv /\ [Next]_vars
        => SentInv' /\ JobsInv' /\ HeldInv' /\ KeptInv'
  BY SentNext, JobsNext, HeldNext, KeptNext DEF SentInv
<1> QED BY <1>1, <1>2, NothingElseLost, PTL DEF Spec

=============================================================================
