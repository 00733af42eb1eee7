----------------------------- MODULE HttpProofs -----------------------------
(***************************************************************************)
(* Proofs about RuntimeInit and HttpClient: one call loads the metadata    *)
(* for all, and over HTTP send() is what RpcCall promises, for any number  *)
(* of calls and whatever the node answers.                                 *)
(***************************************************************************)
EXTENDS HttpClient, TLAPS

\* What the proof is about in each state.
IInv == TypeOK /\ LoadInv

\* Nothing is loaded in the initial state, and nobody loads.
LEMMA InitEstablishes == Init => IInv
BY RuntimeAssumption DEF Init, IInv, TypeOK, LoadInv, OneLoader,
   OnlyAFailedLoadBreaks, Ended

\* Every step keeps the types and the inductive invariant.
LEMMA StepKeeps == IInv /\ [Next]_vars => IInv'
<1> SUFFICES ASSUME IInv, [Next]_vars PROVE IInv'
  OBVIOUS
<1> USE RuntimeAssumption DEF IInv, TypeOK, LoadInv, OneLoader,
        OnlyAFailedLoadBreaks, Ended, Goes
<1>1. ASSUME NEW t \in Calls, Enter(t) PROVE IInv'
  BY <1>1 DEF Enter
<1>2. ASSUME NEW t \in Calls, Ready(t) PROVE IInv'
  <2>1. CASE metadata
    BY <1>2, <2>1 DEF Ready, LockFree
  <2>2. CASE ~ metadata
    BY <1>2, <2>2 DEF Ready, LockFree
  <2> QED BY <2>1, <2>2
<1>3. ASSUME NEW t \in Calls, Load(t) PROVE IInv'
  BY <1>3 DEF Load, LockFree
<1>4. ASSUME NEW t \in Calls, Loaded(t) PROVE IInv'
  BY <1>4 DEF Loaded
<1>5. ASSUME NEW t \in Calls, LoadFails(t) PROVE IInv'
  BY <1>5 DEF LoadFails
<1>6. ASSUME NEW t \in Calls, Call(t) PROVE IInv'
  BY <1>6 DEF Call
<1>7. ASSUME NEW t \in Calls, Cancel(t) PROVE IInv'
  BY <1>7 DEF Cancel
<1>8. ASSUME NEW t \in Calls, CancelLoad(t) PROVE IInv'
  BY <1>8 DEF CancelLoad
<1>9. CASE UNCHANGED vars
  BY <1>9 DEF vars
<1> QED
  BY <1>1, <1>2, <1>3, <1>4, <1>5, <1>6, <1>7, <1>8, <1>9 DEF Next, Advance

\* One call loads at a time, and whoever finds a half initialised client comes
\* after a load that failed.
THEOREM RuntimeCorrect == Spec => [](TypeOK /\ OneLoader /\ OnlyAFailedLoadBreaks)
<1>1. IInv => TypeOK /\ OneLoader /\ OnlyAFailedLoadBreaks
  BY DEF IInv, LoadInv
<1> QED
  BY InitEstablishes, StepKeeps, <1>1, PTL DEF Spec

-----------------------------------------------------------------------------
(* HttpClient                                                              *)

Kinds  == {"metadata", "own"}
Stages == {"idle", "waiting", "loading", "calling"} \cup Ended
Posted == {"none", "posted", "replied"}

\* How far the exchanges of a call are by where the call is.
InStep(t) ==
    /\ stage[t] \in {"idle", "waiting"} => http[Metadata(t)] = "none"
    /\ stage[t] \in {"idle", "waiting", "loading"} => http[Own(t)] = "none"
    /\ stage[t] = "loading" => http[Metadata(t)] \in Posted
    /\ stage[t] = "calling" => http[Own(t)] \in Posted

\* A result is that of a request which was executed.
Executed(r) == http[r] = "replied" /\ reply[r] = Result => r \in executed

HttpInv ==
    /\ stage \in [Calls -> Stages]
    /\ http \in [Exchanges -> Posted \cup {"answered", "refused", "failed"}]
    /\ reply \in [Exchanges -> Errors \cup {Result}]
    /\ executed \subseteq Exchanges
    /\ \A t \in Calls : InStep(t)
    /\ \A r \in Exchanges : Executed(r)

\* A step of RpcCall for the requests of one kind.
RpcStep(kind) ==
    \/ UNCHANGED <<Phases(kind), Done(kind), Answers(kind)>>
    \/ \E t \in Calls :
         \/ /\ Phases(kind)[t] = "idle"
            /\ Phases(kind)' = [Phases(kind) EXCEPT ![t] = "waiting"]
            /\ UNCHANGED <<Done(kind), Answers(kind)>>
         \/ /\ Phases(kind)[t] # "idle"
            /\ t \notin Done(kind)
            /\ Done(kind)' = Done(kind) \cup {t}
            /\ UNCHANGED <<Phases(kind), Answers(kind)>>
         \/ /\ Phases(kind)[t] = "waiting"
            /\ t \in Done(kind)
            /\ Phases(kind)' = [Phases(kind) EXCEPT ![t] = "answered"]
            /\ Answers(kind)' = [Answers(kind) EXCEPT ![t] = t]
            /\ UNCHANGED Done(kind)
         \/ /\ Phases(kind)[t] = "waiting"
            /\ Phases(kind)' = [Phases(kind) EXCEPT ![t] = "failed"]
            /\ UNCHANGED <<Done(kind), Answers(kind)>>

\* What is the same is the same.
LEMMA SameRpc ==
    ASSUME NEW kind \in Kinds, executed' = executed,
           \A t \in Calls : http'[<<t, kind>>] = http[<<t, kind>>]
    PROVE  RpcStep(kind)
BY DEF RpcStep, Phases, Done, Answers, Phase

\* One exchange goes from one stage to another.
LEMMA OneRpc ==
    ASSUME NEW kind \in Kinds, NEW t \in Calls, executed' = executed,
           \A u \in Calls \ {t} : http'[<<u, kind>>] = http[<<u, kind>>],
           \/ http[<<t, kind>>] = "none" /\ http'[<<t, kind>>] = "posted"
           \/ /\ http[<<t, kind>>] = "replied" /\ http'[<<t, kind>>] = "answered"
              /\ <<t, kind>> \in executed
           \/ http[<<t, kind>>] \in {"posted", "replied"} /\ http'[<<t, kind>>] \in {"refused", "failed"}
    PROVE  RpcStep(kind)
<1>1. CASE http[<<t, kind>>] = "none" /\ http'[<<t, kind>>] = "posted"
  BY <1>1 DEF RpcStep, Phases, Done, Answers, Phase
<1>2. CASE /\ http[<<t, kind>>] = "replied" /\ http'[<<t, kind>>] = "answered"
           /\ <<t, kind>> \in executed
  BY <1>2 DEF RpcStep, Phases, Done, Answers, Phase
<1>3. CASE http[<<t, kind>>] \in {"posted", "replied"} /\ http'[<<t, kind>>] \in {"refused", "failed"}
  BY <1>3 DEF RpcStep, Phases, Done, Answers, Phase
<1> QED BY <1>1, <1>2, <1>3

\* The node executes one request.
LEMMA ServedRpc ==
    ASSUME NEW kind \in Kinds, NEW t \in Calls,
           http[<<t, kind>>] \in {"posted", "failed"},
           <<t, kind>> \notin executed,
           executed' = executed \cup {<<t, kind>>},
           \A u \in Calls \ {t} : http'[<<u, kind>>] = http[<<u, kind>>],
           http'[<<t, kind>>] = IF http[<<t, kind>>] = "posted" THEN "replied"
                                ELSE http[<<t, kind>>]
    PROVE  RpcStep(kind)
<1>1. Phases(kind)' = Phases(kind) /\ Answers(kind)' = Answers(kind)
  BY DEF Phases, Answers, Phase
<1>2. Done(kind)' = Done(kind) \cup {t} /\ t \notin Done(kind)
  BY DEF Done
<1>3. Phases(kind)[t] # "idle"
  BY DEF Phases, Phase
<1> QED BY <1>1, <1>2, <1>3 DEF RpcStep

\* The exchanges are two for each call.
LEMMA Pairs ==
    /\ \A t \in Calls : Metadata(t) \in Exchanges /\ Own(t) \in Exchanges
    /\ \A r \in Exchanges : \E t \in Calls : r = Metadata(t) \/ r = Own(t)
    /\ \A t, u \in Calls : Metadata(t) # Own(u)
    /\ \A t, u \in Calls : t # u => Metadata(t) # Metadata(u) /\ Own(t) # Own(u)
BY DEF Metadata, Own, Exchanges

\* A step that keeps what the node did, and whose calls' exchanges all follow
\* their stages.
LEMMA CallKeeps ==
    ASSUME HttpInv, NEW t \in Calls, NEW where \in Stages,
           stage' = [stage EXCEPT ![t] = where],
           http' \in [Exchanges -> Posted \cup {"answered", "refused", "failed"}],
           reply' = reply, executed' = executed,
           \A u \in Calls \ {t} : /\ http'[Metadata(u)] = http[Metadata(u)]
                                  /\ http'[Own(u)] = http[Own(u)],
           \A r \in Exchanges : http'[r] = "replied" => http[r] = "replied",
           InStep(t)'
    PROVE  HttpInv'
<1>1. stage' \in [Calls -> Stages]
  BY DEF HttpInv
<1>2. \A u \in Calls : InStep(u)'
  BY DEF HttpInv, InStep
<1>3. \A r \in Exchanges : Executed(r)'
  BY DEF HttpInv, Executed
<1> QED BY <1>1, <1>2, <1>3 DEF HttpInv

Steps == HttpInv' /\ RpcStep("metadata") /\ RpcStep("own")

LEMMA InitRpc == HttpInit => HttpInv
BY DEF HttpInit, Init, HttpInv, InStep, Executed, Stages, Posted, Exchanges, Metadata, Own

LEMMA StutterRpc ==
    ASSUME HttpInv, UNCHANGED <<stage, http, reply, executed>>
    PROVE  Steps
<1>1. HttpInv'
  BY DEF HttpInv, InStep, Executed
<1>2. RpcStep("metadata") /\ RpcStep("own")
  BY SameRpc DEF Kinds
<1> QED BY <1>1, <1>2 DEF Steps

LEMMA EnterRpc == ASSUME HttpInv, NEW t \in Calls, HttpEnter(t) PROVE Steps
<1>1. /\ stage' = [stage EXCEPT ![t] = "waiting"] /\ stage[t] = "idle"
      /\ http' = http /\ reply' = reply /\ executed' = executed
  BY DEF HttpEnter, Enter, Goes, httpVars
<1>2. InStep(t)'
  BY <1>1 DEF HttpInv, InStep, Posted
<1>3. HttpInv'
  BY <1>1, <1>2, CallKeeps DEF HttpInv, Stages
<1> QED BY <1>1, <1>3, SameRpc DEF Steps, Kinds

LEMMA ReadyRpc == ASSUME HttpInv, NEW t \in Calls, HttpReady(t) PROVE Steps
<1>1. PICK where \in {"calling", "broken"} :
        /\ stage' = [stage EXCEPT ![t] = where] /\ stage[t] = "waiting"
        /\ where = "calling" <=> metadata
  BY DEF HttpReady, Ready, Goes
<1>2. reply' = reply /\ executed' = executed
  BY DEF HttpReady, Rest
<1>3. http' = http \/ http' = [http EXCEPT ![Own(t)] = "posted"]
  BY DEF HttpReady, Post
<1>4. http[Own(t)] = "none" /\ http[Metadata(t)] = "none"
  BY <1>1 DEF HttpInv, InStep
<1>5. InStep(t)'
  BY <1>1, <1>2, <1>3, <1>4, Pairs DEF HttpInv, InStep, Posted, HttpReady, Post
<1>6. HttpInv'
  BY ZenonT(40), <1>1, <1>2, <1>3, <1>5, Pairs, CallKeeps DEF HttpInv, Stages, Posted, Ended
<1>7. RpcStep("metadata")
  BY <1>2, <1>3, Pairs, SameRpc DEF HttpInv, Kinds, Metadata
<1>8. RpcStep("own")
  <2>1. CASE http' = http
    BY <1>2, <2>1, SameRpc DEF Kinds
  <2>2. CASE http' = [http EXCEPT ![Own(t)] = "posted"]
    BY <1>2, <1>4, <2>2, Pairs, OneRpc DEF HttpInv, Kinds, Own
  <2> QED BY <1>3, <2>1, <2>2
<1> QED BY <1>6, <1>7, <1>8 DEF Steps

LEMMA LoadRpc == ASSUME HttpInv, NEW t \in Calls, HttpLoad(t) PROVE Steps
<1>1. stage' = [stage EXCEPT ![t] = "loading"] /\ stage[t] = "waiting"
  BY DEF HttpLoad, Load, Goes
<1>2. reply' = reply /\ executed' = executed
  BY DEF HttpLoad, Rest
<1>3. http' = http \/ http' = [http EXCEPT ![Metadata(t)] = "posted"]
  BY DEF HttpLoad, Post
<1>4. http[Own(t)] = "none" /\ http[Metadata(t)] = "none"
  BY <1>1 DEF HttpInv, InStep
<1>5. InStep(t)'
  BY <1>1, <1>2, <1>3, <1>4, Pairs DEF HttpInv, InStep, Posted
<1>6. HttpInv'
  BY ZenonT(40), <1>1, <1>2, <1>3, <1>5, Pairs, CallKeeps DEF HttpInv, Stages, Posted
<1>7. RpcStep("own")
  BY <1>2, <1>3, Pairs, SameRpc DEF HttpInv, Kinds, Own
<1>8. RpcStep("metadata")
  <2>1. CASE http' = http
    BY <1>2, <2>1, SameRpc DEF Kinds
  <2>2. CASE http' = [http EXCEPT ![Metadata(t)] = "posted"]
    BY <1>2, <1>4, <2>2, Pairs, OneRpc DEF HttpInv, Kinds, Metadata
  <2> QED BY <1>3, <2>1, <2>2
<1> QED BY <1>6, <1>7, <1>8 DEF Steps

\* An exchange ends.
LEMMA OverRpc ==
    ASSUME HttpInv, NEW kind \in Kinds, NEW other \in Kinds, other # kind, NEW t \in Calls,
           http[<<t, kind>>] \in Posted,
           NEW how \in {"answered", "refused", "failed"},
           http' = Over(<<t, kind>>, how), executed' = executed,
           how = "answered" => Answered(<<t, kind>>)
    PROVE  RpcStep(kind) /\ RpcStep(other)
<1>1. <<t, kind>> \in Exchanges
  BY DEF Exchanges, Kinds
<1>2. \A r \in Exchanges : r # <<t, kind>> => http'[r] = http[r]
  BY <1>1 DEF HttpInv, Over
<1>3. RpcStep(other)
  BY <1>2, SameRpc DEF Exchanges, Kinds
<1>4. http'[<<t, kind>>] = IF http[<<t, kind>>] = "none" THEN "none" ELSE how
  BY <1>1 DEF HttpInv, Over
<1>5. \A u \in Calls \ {t} : http'[<<u, kind>>] = http[<<u, kind>>]
  BY <1>2 DEF Exchanges, Kinds
<1>6. CASE http[<<t, kind>>] = "none"
  BY <1>3, <1>4, <1>5, <1>6, SameRpc
<1>7. CASE http[<<t, kind>>] # "none" /\ how = "answered"
  <2>1. <<t, kind>> \in executed /\ http[<<t, kind>>] = "replied"
    BY <1>1, <1>7 DEF HttpInv, Executed, Answered, IsError
  <2> QED BY <1>3, <1>4, <1>5, <1>7, <2>1, OneRpc
<1>8. CASE http[<<t, kind>>] # "none" /\ how # "answered"
  BY <1>3, <1>4, <1>5, <1>8, OneRpc DEF Posted
<1> QED BY <1>3, <1>6, <1>7, <1>8

\* A call ends, or gives up, with the exchange it was waiting for.
LEMMA EndRpc ==
    ASSUME HttpInv, NEW t \in Calls, NEW kind \in Kinds,
           NEW where \in Ended, NEW how \in {"answered", "refused", "failed"},
           stage' = [stage EXCEPT ![t] = where],
           http[<<t, kind>>] \in Posted,
           http' = Over(<<t, kind>>, how),
           reply' = reply, executed' = executed,
           how = "answered" => Answered(<<t, kind>>)
    PROVE  Steps
<1>1. PICK other \in Kinds : other # kind
  BY DEF Kinds
<1>2. <<t, kind>> \in Exchanges
  BY DEF Exchanges, Kinds
<1>3. InStep(t)'
  BY DEF HttpInv, InStep, Ended
<1>4. \A r \in Exchanges : r # <<t, kind>> => http'[r] = http[r]
  BY <1>2 DEF HttpInv, Over
<1>5. http'[<<t, kind>>] \in {"none", "answered", "refused", "failed"}
  BY <1>2 DEF HttpInv, Over
<1>6. http' \in [Exchanges -> Posted \cup {"answered", "refused", "failed"}]
  BY <1>2 DEF HttpInv, Over, Posted
<1>7. \A u \in Calls \ {t} : http'[Metadata(u)] = http[Metadata(u)] /\ http'[Own(u)] = http[Own(u)]
  BY <1>4 DEF Metadata, Own, Exchanges
<1>8. HttpInv'
  BY <1>3, <1>4, <1>5, <1>6, <1>7, CallKeeps DEF Stages
<1>9. RpcStep(kind) /\ RpcStep(other)
  BY <1>1, OverRpc
<1> QED BY <1>1, <1>8, <1>9 DEF Steps, Kinds

LEMMA LoadedRpc == ASSUME HttpInv, NEW t \in Calls, HttpLoaded(t) PROVE Steps
<1>1. /\ stage' = [stage EXCEPT ![t] = "calling"] /\ stage[t] = "loading"
      /\ reply' = reply /\ executed' = executed /\ Answered(Metadata(t))
  BY DEF HttpLoaded, Loaded, Goes, Rest
<1> DEFINE over == [http EXCEPT ![Metadata(t)] = "answered"]
<1>2. Over(Metadata(t), "answered") = over
  BY <1>1 DEF Over, Answered, HttpInv
<1>3. http' = over \/ http' = [over EXCEPT ![Own(t)] = "posted"]
  BY <1>2, Zenon DEF HttpLoaded, Post
<1>4. http[Own(t)] = "none" /\ http[Metadata(t)] = "replied" /\ Metadata(t) \in executed
  BY <1>1, Pairs DEF HttpInv, InStep, Executed, Answered, IsError
<1>5. /\ http' \in [Exchanges -> Posted \cup {"answered", "refused", "failed"}]
      /\ http'[Metadata(t)] = "answered" /\ http'[Own(t)] \in {"none", "posted"}
      /\ \A u \in Calls \ {t} : /\ http'[Metadata(u)] = http[Metadata(u)]
                                /\ http'[Own(u)] = http[Own(u)]
      /\ \A r \in Exchanges : http'[r] = "replied" => http[r] = "replied"
  BY <1>3, <1>4, Pairs DEF HttpInv, Posted
<1> HIDE DEF over
<1>6. InStep(t)'
  BY <1>1, <1>5 DEF HttpInv, InStep, Posted
<1>7. HttpInv'
  BY <1>1, <1>5, <1>6, CallKeeps DEF Stages
<1>8. RpcStep("metadata")
  BY <1>1, <1>4, <1>5, OneRpc DEF Kinds, Metadata
<1>9. RpcStep("own")
  <2>1. CASE http'[Own(t)] = "none"
    BY <1>1, <1>4, <1>5, <2>1, SameRpc DEF Kinds, Own
  <2>2. CASE http'[Own(t)] = "posted"
    BY <1>1, <1>4, <1>5, <2>2, OneRpc DEF Kinds, Own
  <2> QED BY <1>5, <2>1, <2>2
<1> QED BY <1>7, <1>8, <1>9 DEF Steps

LEMMA LoadFailsRpc == ASSUME HttpInv, NEW t \in Calls, HttpLoadFails(t) PROVE Steps
<1>1. /\ stage' = [stage EXCEPT ![t] = "notLoaded"] /\ stage[t] = "loading"
      /\ reply' = reply /\ executed' = executed
  BY DEF HttpLoadFails, LoadFails, Goes, Rest
<1>2. PICK how \in {"answered", "refused", "failed"} :
        /\ http' = Over(Metadata(t), how)
        /\ how = "answered" => Answered(Metadata(t))
  BY DEF HttpLoadFails
<1>3. http[Metadata(t)] \in Posted
  BY <1>1 DEF HttpInv, InStep
<1> QED BY <1>1, <1>2, <1>3, EndRpc DEF Metadata, Kinds, Ended

LEMMA CallRpc ==
    ASSUME HttpInv, NEW t \in Calls, HttpReturn(t) \/ HttpRaise(t)
    PROVE  Steps
<1>1. PICK where \in {"returned", "raised"} : stage' = [stage EXCEPT ![t] = where]
  BY DEF HttpReturn, HttpRaise, Call, Goes
<1>2. stage[t] = "calling" /\ reply' = reply /\ executed' = executed
  BY DEF HttpReturn, HttpRaise, Call, Rest
<1>3. PICK how \in {"answered", "refused", "failed"} :
        /\ http' = Over(Own(t), how)
        /\ how = "answered" => Answered(Own(t))
  BY DEF HttpReturn, HttpRaise
<1>4. http[Own(t)] \in Posted
  BY <1>2 DEF HttpInv, InStep
<1> QED BY <1>1, <1>2, <1>3, <1>4, EndRpc DEF Own, Kinds, Ended

LEMMA CancelRpc == ASSUME HttpInv, NEW t \in Calls, HttpCancel(t) PROVE Steps
<1>1. reply' = reply /\ executed' = executed
  BY DEF HttpCancel, Rest
<1>2. CASE Cancel(t) /\ http' = Over(Own(t), "failed")
  <2>1. stage' = [stage EXCEPT ![t] = "cancelled"] /\ stage[t] \in {"waiting", "calling"}
    BY <1>2 DEF Cancel, Goes
  <2>2. http[Own(t)] \in Posted
    BY <2>1 DEF HttpInv, InStep, Posted
  <2> QED BY <1>1, <1>2, <2>1, <2>2, EndRpc DEF Own, Kinds, Ended
<1>3. CASE CancelLoad(t) /\ http' = Over(Metadata(t), "failed")
  <2>1. stage' = [stage EXCEPT ![t] = "loadCancelled"] /\ stage[t] = "loading"
    BY <1>3 DEF CancelLoad, Goes
  <2>2. http[Metadata(t)] \in Posted
    BY <2>1 DEF HttpInv, InStep
  <2> QED BY <1>1, <1>3, <2>1, <2>2, EndRpc DEF Metadata, Kinds, Ended
<1> QED BY <1>2, <1>3 DEF HttpCancel

\* What the node answers.
LEMMA RespondsRpc ==
    ASSUME HttpInv, NEW r \in Exchanges, NEW body \in Errors \cup {Result},
           Responds(r, body),
           \/ /\ http[r] \in {"posted", "failed"} /\ r \notin executed
              /\ executed' = executed \cup {r}
           \/ http[r] = "posted" /\ body # Result /\ executed' = executed
    PROVE  Steps
<1>1. PICK t \in Calls, kind \in Kinds : r = <<t, kind>>
  BY DEF Exchanges, Kinds
<1>2. /\ \A q \in Exchanges : q # r => http'[q] = http[q] /\ reply'[q] = reply[q]
      /\ http'[r] = IF http[r] = "posted" THEN "replied" ELSE http[r]
      /\ reply'[r] = IF http[r] = "posted" THEN body ELSE reply[r]
      /\ http' \in [Exchanges -> Posted \cup {"answered", "refused", "failed"}]
      /\ reply' \in [Exchanges -> Errors \cup {Result}]
      /\ stage' = stage
  BY DEF Responds, HttpInv, Posted, vars
<1>3. \A u \in Calls : InStep(u)'
  BY <1>2, Pairs DEF HttpInv, InStep, Posted
<1>4. \A q \in Exchanges : Executed(q)'
  BY <1>2 DEF HttpInv, Executed
<1>5. HttpInv'
  BY <1>2, <1>3, <1>4 DEF HttpInv
<1>6. ASSUME NEW k \in Kinds PROVE RpcStep(k)
  <2>1. \A u \in Calls : <<u, k>> \in Exchanges
    BY DEF Exchanges, Kinds
  <2>2. CASE executed' = executed
    <3>1. http[r] = "posted" /\ http'[r] = "replied"
      BY <1>2, <2>2
    <3> QED BY <1>2, <2>1, <2>2, <3>1 DEF RpcStep, Phases, Done, Answers, Phase
  <2>3. CASE executed' # executed /\ k = kind
    BY <1>1, <1>2, <2>1, <2>3, ServedRpc
  <2>4. CASE executed' # executed /\ k # kind
    BY ZenonT(40), <1>1, <1>2, <2>1, <2>4 DEF RpcStep, Phases, Done, Answers, Phase
  <2> QED BY <2>2, <2>3, <2>4
<1> QED BY <1>5, <1>6 DEF Steps, Kinds

LEMMA NodeRpc == ASSUME HttpInv, NEW r \in Exchanges, Serve(r) \/ Refuse(r) PROVE Steps
<1>1. CASE Serve(r)
  BY <1>1, RespondsRpc DEF Serve
<1>2. CASE Refuse(r)
  <2>1. PICK body \in Errors : Responds(r, body) /\ http[r] = "posted" /\ executed' = executed
    BY <1>2 DEF Refuse
  <2>2. body # Result
    BY HttpAssumption
  <2> QED BY <2>1, <2>2, RespondsRpc
<1> QED BY <1>1, <1>2

LEMMA NextRpc == HttpInv /\ [HttpNext]_allVars => Steps
<1> SUFFICES ASSUME HttpInv, [HttpNext]_allVars PROVE Steps
  OBVIOUS
<1>1. ASSUME NEW t \in Calls, HttpEnter(t) \/ HttpAdvance(t) \/ HttpCancel(t) PROVE Steps
  BY <1>1, EnterRpc, ReadyRpc, LoadRpc, LoadedRpc, LoadFailsRpc, CallRpc, CancelRpc
     DEF HttpAdvance
<1>2. ASSUME NEW r \in Exchanges, Serve(r) \/ Refuse(r) PROVE Steps
  BY <1>2, NodeRpc
<1>3. CASE Close
  BY <1>3, StutterRpc DEF Close, vars
<1>4. CASE UNCHANGED allVars
  BY <1>4, StutterRpc DEF allVars, httpVars, vars
<1> QED BY <1>1, <1>2, <1>3, <1>4 DEF HttpNext

\* http.py: send() over HTTP is an at-most-once call that ends with a result
\* only when its request has been executed, whatever the number of calls, their
\* cancellations, the errors of the node and the moment the client is closed.
THEOREM HttpRefines == HttpSpec => HttpImplementsRpcCall
<1>1. HttpInit => HttpInv /\ MetadataRpc!Init /\ OwnRpc!Init
  <2>1. HttpInit => MetadataRpc!Init /\ OwnRpc!Init
    BY DEF HttpInit, MetadataRpc!Init, OwnRpc!Init, Phases, Done, Answers, Phase, Exchanges
  <2> QED BY <2>1, InitRpc
<1>2. HttpInv /\ [HttpNext]_allVars => HttpInv'
  BY NextRpc DEF Steps
<1>3. HttpInv /\ [HttpNext]_allVars => [MetadataRpc!Next]_(MetadataRpc!rpcVars)
  BY NextRpc, Zenon DEF Steps, RpcStep, MetadataRpc!Next, MetadataRpc!rpcVars, MetadataRpc!Invoke,
     MetadataRpc!Execute, MetadataRpc!Answer, MetadataRpc!Fail
<1>4. HttpInv /\ [HttpNext]_allVars => [OwnRpc!Next]_(OwnRpc!rpcVars)
  BY NextRpc, Zenon DEF Steps, RpcStep, OwnRpc!Next, OwnRpc!rpcVars, OwnRpc!Invoke,
     OwnRpc!Execute, OwnRpc!Answer, OwnRpc!Fail
<1> QED
  BY <1>1, <1>2, <1>3, <1>4, PTL
  DEF HttpSpec, HttpImplementsRpcCall, MetadataRpc!Spec, OwnRpc!Spec

\* Over HTTP or not, RuntimeInit is what the calls do about the metadata.
LEMMA HttpRuntime == HttpSpec => Spec
<1>1. HttpInit => Init
  BY DEF HttpInit
<1>2. [HttpNext]_allVars => [Next]_vars
  <2> SUFFICES ASSUME [HttpNext]_allVars PROVE [Next]_vars
    OBVIOUS
  <2>1. ASSUME NEW t \in Calls, HttpEnter(t) \/ HttpAdvance(t) \/ HttpCancel(t) PROVE Next
    BY <2>1, Zenon DEF HttpEnter, HttpAdvance, HttpReady, HttpLoad, HttpLoaded, HttpLoadFails,
       HttpReturn, HttpRaise, HttpCancel, Advance, Next
  <2>2. ASSUME NEW r \in Exchanges, Serve(r) \/ Refuse(r) PROVE UNCHANGED vars
    BY <2>2, Zenon DEF Serve, Refuse, Responds
  <2>3. CASE Close
    BY <2>3 DEF Close
  <2>4. CASE UNCHANGED allVars
    BY <2>4 DEF allVars
  <2> QED BY <2>1, <2>2, <2>3, <2>4 DEF HttpNext
<1> QED BY <1>1, <1>2, PTL DEF HttpSpec, Spec

\* substrate/client.py: the guarantees about the metadata hold with the requests
\* that the transport really makes: one call loads it, and whoever finds half of
\* it comes after a load that has failed.
THEOREM HttpRuntimeCorrect == HttpSpec => [](TypeOK /\ OneLoader /\ OnlyAFailedLoadBreaks)
BY HttpRuntime, RuntimeCorrect, PTL

-----------------------------------------------------------------------------
(* What calls raise                                                        *)

Silent == {"HTTPError", "DecodeError", "TypeError", "CancelledError"}

\* A listed reason has a class of its own.
LEMMA ListedApart ==
    \A n, m \in DOMAIN CustomErrors : CustomErrors[n] = CustomErrors[m] => n = m
BY DEF CustomErrors

LEMMA ListedClasses ==
    \A n \in DOMAIN CustomErrors : CustomErrors[n] \in ErrorClasses \ {"SubtensorException"}
BY DEF CustomErrors, ErrorClasses

\* From the class of an exception one can tell the error.
LEMMA ClassTells ==
    /\ \A e \in Errors : ClassOf(e) \in ErrorClasses \cup {"UnknownBlock", "SubstrateException"}
    /\ \A e \in Errors : ClassOf(e) = "UnknownBlock" <=> e.code = BlockNotFound
    /\ \A e \in Errors : ClassOf(e) \in ErrorClasses <=> e.code = InvalidTransaction
    /\ \A e, f \in Errors :
         /\ e.code = InvalidTransaction
         /\ e.data \in DOMAIN CustomErrors
         /\ e # f
         => ClassOf(e) # ClassOf(f)
<1>1. ASSUME NEW e \in Errors
      PROVE  \/ /\ e.code = InvalidTransaction /\ e.data \in DOMAIN CustomErrors
                /\ ClassOf(e) = CustomErrors[e.data]
             \/ /\ e.code = InvalidTransaction /\ e.data \notin DOMAIN CustomErrors
                /\ ClassOf(e) = "SubtensorException"
             \/ e.code = BlockNotFound /\ ClassOf(e) = "UnknownBlock"
             \/ /\ e.code \notin {InvalidTransaction, BlockNotFound}
                /\ ClassOf(e) = "SubstrateException"
  BY DEF ClassOf, CustomClass, InvalidTransaction, BlockNotFound
<1>2. /\ "SubtensorException" \in ErrorClasses
      /\ {"UnknownBlock", "SubstrateException"} \cap ErrorClasses = {}
      /\ InvalidTransaction # BlockNotFound
  BY DEF ErrorClasses, InvalidTransaction, BlockNotFound
<1>3. \A e, f \in Errors : e.code = f.code /\ e.data = f.data => e = f
  BY HttpAssumption
<1>4. ASSUME NEW e \in Errors, NEW f \in Errors, e # f,
             e.code = InvalidTransaction, e.data \in DOMAIN CustomErrors
      PROVE  ClassOf(e) # ClassOf(f)
  <2>1. ClassOf(e) = CustomErrors[e.data] /\ ClassOf(e) \in ErrorClasses \ {"SubtensorException"}
    BY <1>1, <1>2, <1>4, ListedClasses
  <2>2. CASE f.code = InvalidTransaction /\ f.data \in DOMAIN CustomErrors
    BY <1>1, <1>2, <1>3, <1>4, <2>1, <2>2, ListedApart
  <2>3. CASE ~ (f.code = InvalidTransaction /\ f.data \in DOMAIN CustomErrors)
    BY <1>1, <1>2, <2>1, <2>3
  <2> QED BY <2>2, <2>3
<1> QED BY <1>1, <1>2, <1>4, ListedClasses

RefusedIs(q, t) == http[q] = "refused" /\ raised[t] = ClassOf(reply[q])

\* What a call has raised, and what was refused to it.
Told(t) ==
    IF stage[t] \in Ended \ {"returned"}
    THEN \/ RefusedIs(Metadata(t), t) /\ http[Own(t)] # "refused"
         \/ RefusedIs(Own(t), t) /\ http[Metadata(t)] # "refused"
         \/ /\ raised[t] \in Silent
            /\ http[Own(t)] # "refused" /\ http[Metadata(t)] # "refused"
    ELSE /\ raised[t] = "none"
         /\ http[Own(t)] # "refused" /\ http[Metadata(t)] # "refused"

RaisedInv ==
    /\ HttpInv
    /\ lastId \in Nat /\ closed \in BOOLEAN
    /\ raised \in [Calls -> Classes]
    /\ \A t \in Calls : Told(t)
    /\ \A r \in Exchanges : http[r] = "refused" => reply[r] \in Errors

LEMMA InitRaised == HttpInit => RaisedInv
<1> SUFFICES ASSUME HttpInit PROVE RaisedInv
  OBVIOUS
<1>1. HttpInv
  BY InitRpc
<1> QED
  BY <1>1, Pairs DEF HttpInit, Init, RaisedInv, Told, Classes, Ended

\* A step of one call.
LEMMA OneRaises ==
    ASSUME RaisedInv, HttpInv', NEW t \in Calls,
           NEW where \in Stages, NEW class \in Classes,
           stage' = [stage EXCEPT ![t] = where],
           raised' = [raised EXCEPT ![t] = class],
           lastId' \in {lastId, lastId + 1}, closed' = closed, reply' = reply,
           \A u \in Calls \ {t} : /\ http'[Metadata(u)] = http[Metadata(u)]
                                  /\ http'[Own(u)] = http[Own(u)],
           \A r \in Exchanges : http'[r] = "refused" => reply[r] \in Errors,
           Told(t)'
    PROVE  RaisedInv'
<1>1. lastId' \in Nat /\ closed' \in BOOLEAN /\ raised' \in [Calls -> Classes]
  BY DEF RaisedInv
<1>2. ASSUME NEW u \in Calls, u # t PROVE Told(u)'
  <2>1. stage'[u] = stage[u] /\ raised'[u] = raised[u]
    BY <1>2 DEF RaisedInv, HttpInv
  <2> QED BY <1>2, <2>1 DEF RaisedInv, Told, RefusedIs
<1> QED BY <1>1, <1>2 DEF RaisedInv

\* A call that goes on, whatever becomes of its exchanges but a refusal.
LEMMA GoesOnRaises ==
    ASSUME RaisedInv, HttpInv', NEW t \in Calls,
           NEW where \in Stages \ (Ended \ {"returned"}),
           stage[t] \notin Ended,
           stage' = [stage EXCEPT ![t] = where],
           raised' = raised,
           lastId' \in {lastId, lastId + 1}, closed' = closed, reply' = reply,
           \A u \in Calls \ {t} : /\ http'[Metadata(u)] = http[Metadata(u)]
                                  /\ http'[Own(u)] = http[Own(u)],
           \A r \in Exchanges : http'[r] = "refused" => http[r] = "refused"
    PROVE  RaisedInv'
<1>1. raised[t] = "none" /\ raised' = [raised EXCEPT ![t] = "none"] /\ "none" \in Classes
  BY DEF RaisedInv, Told, Classes
<1>2. stage'[t] = where
  BY DEF RaisedInv, HttpInv
<1>3. Told(t)'
  BY <1>1, <1>2, Pairs DEF RaisedInv, Told
<1>4. \A r \in Exchanges : http'[r] = "refused" => reply[r] \in Errors
  BY DEF RaisedInv
<1> QED BY <1>1, <1>3, <1>4, OneRaises

\* A call that ends with one of its exchanges.
LEMMA EndRaises ==
    ASSUME RaisedInv, HttpInv', NEW t \in Calls,
           NEW where \in Ended \ {"returned"}, NEW class \in Classes,
           NEW r \in {Metadata(t), Own(t)},
           NEW how \in {"answered", "refused", "failed"},
           stage[t] \notin Ended,
           stage' = [stage EXCEPT ![t] = where],
           raised' = [raised EXCEPT ![t] = class],
           lastId' = lastId, closed' = closed, reply' = reply,
           http' = Over(r, how),
           how = "refused" => Refused(r) /\ class = ClassOf(reply[r]),
           how # "refused" => class \in Silent
    PROVE  RaisedInv'
<1>1. r \in Exchanges
  BY Pairs
<1>2. /\ \A q \in Exchanges : q # r => http'[q] = http[q]
      /\ http'[r] = IF http[r] = "none" THEN "none" ELSE how
  BY <1>1 DEF RaisedInv, HttpInv, Over
<1>3. /\ stage'[t] = where /\ raised'[t] = class
      /\ http[Own(t)] # "refused" /\ http[Metadata(t)] # "refused"
  BY DEF RaisedInv, HttpInv, Told
<1>4. (http[r] = "replied" /\ reply[r] \in Errors) \/ how # "refused"
  BY <1>1 DEF Refused, IsError, RaisedInv, HttpInv
<1>5. Told(t)'
  BY <1>1, <1>2, <1>3, <1>4, Pairs DEF Told, RefusedIs
<1>6. \A q \in Exchanges : http'[q] = "refused" => reply[q] \in Errors
  BY <1>2, <1>4 DEF RaisedInv
<1>7. \A u \in Calls \ {t} : http'[Metadata(u)] = http[Metadata(u)] /\ http'[Own(u)] = http[Own(u)]
  BY <1>2, Pairs
<1>8. where \in Stages
  BY DEF Stages
<1> QED BY <1>5, <1>6, <1>7, <1>8, OneRaises

\* The others' steps, which no call sees.
LEMMA UnseenRaises ==
    ASSUME RaisedInv, HttpInv', stage' = stage, raised' = raised, lastId' = lastId,
           closed' \in BOOLEAN,
           \A r \in Exchanges : /\ http'[r] = "refused" <=> http[r] = "refused"
                                /\ http[r] = "refused" => reply'[r] = reply[r]
    PROVE  RaisedInv'
<1>1. \A t \in Calls : Told(t)'
  BY Pairs DEF RaisedInv, Told, RefusedIs
<1> QED BY <1>1 DEF RaisedInv

LEMMA CallRaises ==
    ASSUME RaisedInv, HttpInv', NEW t \in Calls,
           HttpEnter(t) \/ HttpAdvance(t) \/ HttpCancel(t)
    PROVE  RaisedInv'
<1> USE DEF RaisedInv, HttpInv
<1>1. CASE HttpEnter(t)
  BY <1>1, GoesOnRaises DEF HttpEnter, Enter, Goes, httpVars, Stages, Ended
<1>2. CASE HttpReady(t)
  <2>1. CASE metadata
    <3>1. /\ stage' = [stage EXCEPT ![t] = "calling"] /\ stage[t] = "waiting"
          /\ raised' = raised /\ lastId' = lastId + 1 /\ closed' = closed /\ reply' = reply
          /\ http' = http \/ http' = [http EXCEPT ![Own(t)] = "posted"]
      BY <1>2, <2>1 DEF HttpReady, Ready, Goes, Post, Rest
    <3>2. /\ \A u \in Calls \ {t} : /\ http'[Metadata(u)] = http[Metadata(u)]
                                     /\ http'[Own(u)] = http[Own(u)]
          /\ \A r \in Exchanges : http'[r] = "refused" => http[r] = "refused"
      BY <3>1, Pairs
    <3>3. "calling" \in Stages \ (Ended \ {"returned"}) /\ "waiting" \notin Ended
      BY DEF Stages, Ended
    <3> HIDE DEF RaisedInv, HttpInv
    <3> QED BY <3>1, <3>2, <3>3, GoesOnRaises
  <2>2. CASE ~ metadata
    <3>1. /\ stage' = [stage EXCEPT ![t] = "broken"] /\ stage[t] = "waiting"
          /\ raised' = [raised EXCEPT ![t] = "TypeError"] /\ lastId' = lastId
          /\ closed' = closed /\ reply' = reply /\ http' = http
      BY <1>2, <2>2 DEF HttpReady, Ready, Goes, Raises, Rest
    <3>2. Told(t)'
      BY <3>1 DEF Told, Ended, Silent
    <3>3. "broken" \in Stages /\ "TypeError" \in Classes
      BY DEF Stages, Ended, Classes
    <3> QED BY <3>1, <3>2, <3>3, OneRaises
  <2> QED BY <2>1, <2>2
<1>3. CASE HttpLoad(t)
  <2>1. /\ stage' = [stage EXCEPT ![t] = "loading"] /\ stage[t] = "waiting"
        /\ raised' = raised /\ lastId' = lastId + 1 /\ closed' = closed /\ reply' = reply
        /\ http' = http \/ http' = [http EXCEPT ![Metadata(t)] = "posted"]
    BY <1>3 DEF HttpLoad, Load, Goes, Post, Rest
  <2>2. /\ \A u \in Calls \ {t} : /\ http'[Metadata(u)] = http[Metadata(u)]
                                   /\ http'[Own(u)] = http[Own(u)]
        /\ \A r \in Exchanges : http'[r] = "refused" => http[r] = "refused"
    BY <2>1, Pairs
  <2>3. "loading" \in Stages \ (Ended \ {"returned"}) /\ "waiting" \notin Ended
    BY DEF Stages, Ended
  <2> HIDE DEF RaisedInv, HttpInv
  <2> QED BY <2>1, <2>2, <2>3, GoesOnRaises
<1>4. CASE HttpLoaded(t)
  <2>1. /\ stage' = [stage EXCEPT ![t] = "calling"] /\ stage[t] = "loading"
        /\ raised' = raised /\ lastId' = lastId + 1 /\ closed' = closed /\ reply' = reply
        /\ Answered(Metadata(t))
    BY <1>4 DEF HttpLoaded, Loaded, Goes, Post, Rest
  <2> DEFINE over == [http EXCEPT ![Metadata(t)] = "answered"]
  <2>2. Over(Metadata(t), "answered") = over
    BY <2>1 DEF Over, Answered
  <2>3. http' = over \/ http' = [over EXCEPT ![Own(t)] = "posted"]
    BY <1>4, <2>2, Zenon DEF HttpLoaded, Post
  <2>4. /\ \A u \in Calls \ {t} : /\ http'[Metadata(u)] = http[Metadata(u)]
                                   /\ http'[Own(u)] = http[Own(u)]
        /\ \A r \in Exchanges : http'[r] = "refused" => http[r] = "refused"
    BY <2>3, Pairs
  <2>5. "calling" \in Stages \ (Ended \ {"returned"}) /\ "loading" \notin Ended
    BY DEF Stages, Ended
  <2> HIDE DEF RaisedInv, HttpInv, over
  <2> QED BY <2>1, <2>4, <2>5, GoesOnRaises
<1>5. CASE HttpLoadFails(t)
  <2>1. /\ stage' = [stage EXCEPT ![t] = "notLoaded"] /\ stage[t] = "loading"
        /\ lastId' = lastId /\ closed' = closed /\ reply' = reply
    BY <1>5 DEF HttpLoadFails, LoadFails, Goes, Rest
  <2>2. "notLoaded" \in Ended \ {"returned"} /\ "loading" \notin Ended /\ Silent \subseteq Classes
    BY DEF Ended, Silent, Classes
  <2>3. CASE http' = Over(Metadata(t), "failed") /\ Raises(t, "HTTPError")
    BY <2>1, <2>2, <2>3, EndRaises DEF Raises, Silent
  <2>4. CASE http' = Over(Metadata(t), "answered") /\ Raises(t, "DecodeError")
    BY <2>1, <2>2, <2>4, EndRaises DEF Raises, Silent
  <2>5. CASE /\ Refused(Metadata(t)) /\ http' = Over(Metadata(t), "refused")
             /\ Raises(t, ClassOf(reply[Metadata(t)]))
    <3>1. ClassOf(reply[Metadata(t)]) \in Classes
      BY <2>5, Pairs, ClassTells DEF Refused, IsError, Classes
    <3> QED BY <2>1, <2>2, <2>5, <3>1, EndRaises DEF Raises
  <2> QED BY <1>5, <2>3, <2>4, <2>5 DEF HttpLoadFails
<1>6. CASE HttpReturn(t)
  <2>1. PICK where \in {"returned", "raised"} :
          /\ stage' = [stage EXCEPT ![t] = where] /\ stage[t] = "calling"
          /\ raised' = [raised EXCEPT ![t] = IF where = "returned" THEN "none" ELSE "DecodeError"]
          /\ lastId' = lastId /\ closed' = closed /\ reply' = reply
          /\ http' = Over(Own(t), "answered")
    BY <1>6 DEF HttpReturn, Call, Goes, Raises, Rest
  <2>2. CASE where = "returned"
    <3>1. raised' = raised
      BY <2>1, <2>2 DEF Told, Ended
    <3>2. \A r \in Exchanges : http'[r] = "refused" => http[r] = "refused"
      BY <2>1, Pairs DEF Over
    <3>3. \A u \in Calls \ {t} : http'[Metadata(u)] = http[Metadata(u)] /\ http'[Own(u)] = http[Own(u)]
      BY <2>1, Pairs DEF Over
    <3>4. "returned" \in Stages \ (Ended \ {"returned"}) /\ "calling" \notin Ended
      BY DEF Stages, Ended
    <3>5. stage' = [stage EXCEPT ![t] = "returned"]
      BY <2>1, <2>2
    <3> HIDE DEF RaisedInv, HttpInv
    <3> QED BY <2>1, <3>1, <3>2, <3>3, <3>4, <3>5, GoesOnRaises
  <2>3. CASE where = "raised"
    <3>1. "raised" \in Ended \ {"returned"} /\ "calling" \notin Ended /\ "DecodeError" \in Classes
      BY DEF Ended, Classes
    <3> QED BY <2>1, <2>3, <3>1, EndRaises DEF Silent
  <2> QED BY <2>2, <2>3
<1>7. CASE HttpRaise(t)
  <2>1. /\ stage' = [stage EXCEPT ![t] = "raised"] /\ stage[t] = "calling"
        /\ lastId' = lastId /\ closed' = closed /\ reply' = reply
    <3>1. PICK where \in {"returned", "raised"} : stage' = [stage EXCEPT ![t] = where]
      BY <1>7 DEF HttpRaise, Call, Goes
    <3> QED BY <1>7, <3>1 DEF HttpRaise, Call, Rest
  <2>2. "raised" \in Ended \ {"returned"} /\ "calling" \notin Ended /\ Silent \subseteq Classes
    BY DEF Ended, Silent, Classes
  <2>3. CASE http' = Over(Own(t), "failed") /\ Raises(t, "HTTPError")
    BY <2>1, <2>2, <2>3, EndRaises DEF Raises, Silent
  <2>4. CASE /\ Refused(Own(t)) /\ http' = Over(Own(t), "refused")
             /\ Raises(t, ClassOf(reply[Own(t)]))
    <3>1. ClassOf(reply[Own(t)]) \in Classes
      BY <2>4, Pairs, ClassTells DEF Refused, IsError, Classes
    <3> QED BY <2>1, <2>2, <2>4, <3>1, EndRaises DEF Raises
  <2> QED BY <1>7, <2>3, <2>4 DEF HttpRaise
<1>8. CASE HttpCancel(t)
  <2>1. /\ lastId' = lastId /\ closed' = closed /\ reply' = reply
        /\ raised' = [raised EXCEPT ![t] = "CancelledError"]
    BY <1>8 DEF HttpCancel, Raises, Rest
  <2>2. /\ {"cancelled", "loadCancelled"} \subseteq Ended \ {"returned"}
        /\ {"waiting", "calling", "loading"} \cap Ended = {}
        /\ "CancelledError" \in Classes /\ "CancelledError" \in Silent
    BY DEF Ended, Classes, Silent
  <2>3. CASE Cancel(t) /\ http' = Over(Own(t), "failed")
    BY <2>1, <2>2, <2>3, EndRaises DEF Cancel, Goes
  <2>4. CASE CancelLoad(t) /\ http' = Over(Metadata(t), "failed")
    BY <2>1, <2>2, <2>4, EndRaises DEF CancelLoad, Goes
  <2> QED BY <1>8, <2>3, <2>4 DEF HttpCancel
<1> QED BY <1>1, <1>2, <1>3, <1>4, <1>5, <1>6, <1>7, <1>8 DEF HttpAdvance

LEMMA NextRaised == RaisedInv /\ [HttpNext]_allVars => RaisedInv'
<1> SUFFICES ASSUME RaisedInv, [HttpNext]_allVars PROVE RaisedInv'
  OBVIOUS
<1>1. HttpInv'
  BY NextRpc DEF Steps, RaisedInv
<1>2. ASSUME NEW t \in Calls, HttpEnter(t) \/ HttpAdvance(t) \/ HttpCancel(t) PROVE RaisedInv'
  BY <1>1, <1>2, CallRaises
<1>3. ASSUME NEW r \in Exchanges, Serve(r) \/ Refuse(r) PROVE RaisedInv'
  <2>1. PICK body \in Errors \cup {Result} : Responds(r, body)
    BY <1>3 DEF Serve, Refuse
  <2>2. stage' = stage /\ raised' = raised /\ lastId' = lastId /\ closed' = closed
    BY <2>1 DEF Responds, vars
  <2>3. \A q \in Exchanges : /\ http'[q] = "refused" <=> http[q] = "refused"
                             /\ http[q] = "refused" => reply'[q] = reply[q]
    BY <2>1 DEF Responds, RaisedInv, HttpInv
  <2> QED BY <1>1, <2>2, <2>3, UnseenRaises DEF RaisedInv
<1>4. CASE Close
  BY <1>1, <1>4, UnseenRaises DEF Close, vars
<1>5. CASE UNCHANGED allVars
  BY <1>1, <1>5, UnseenRaises DEF allVars, httpVars, vars, RaisedInv
<1> QED BY <1>2, <1>3, <1>4, <1>5 DEF HttpNext

LEMMA RaisedMeans == RaisedInv => ErrorsKeepTheirMeaning
<1> SUFFICES ASSUME RaisedInv PROVE ErrorsKeepTheirMeaning
  OBVIOUS
<1> DEFINE Said(t) == {reply[r] : r \in {q \in {Metadata(t), Own(t)} : http[q] = "refused"}}
<1>1. ASSUME NEW t \in Calls
      PROVE  \/ Said(t) = {} /\ raised[t] \in Silent \cup {"none"}
             \/ /\ \E e \in Errors : Said(t) = {e} /\ raised[t] = ClassOf(e)
                /\ stage[t] # "returned"
  <2>1. CASE http[Own(t)] # "refused" /\ http[Metadata(t)] # "refused"
    BY <2>1 DEF RaisedInv, Told, RefusedIs
  <2>2. CASE RefusedIs(Metadata(t), t) /\ http[Own(t)] # "refused"
    BY <2>2, Pairs DEF RaisedInv, Told, RefusedIs
  <2>3. CASE RefusedIs(Own(t), t) /\ http[Metadata(t)] # "refused"
    BY <2>3, Pairs DEF RaisedInv, Told, RefusedIs
  <2> QED BY <2>1, <2>2, <2>3 DEF RaisedInv, Told
<1>2. (Silent \cup {"none"}) \cap (ErrorClasses \cup {"UnknownBlock"}) = {}
  BY DEF Silent, ErrorClasses
<1> HIDE DEF Said
<1>3. \A t \in Calls :
        /\ raised[t] = "UnknownBlock" <=> \E e \in Said(t) : e.code = BlockNotFound
        /\ raised[t] \in ErrorClasses <=> \E e \in Said(t) : e.code = InvalidTransaction
        /\ stage[t] = "returned" => Said(t) = {}
  BY ZenonT(40), <1>1, <1>2, ClassTells
<1>4. \A t, u \in Calls : \A e \in Said(t), f \in Said(u) :
        e.code = InvalidTransaction /\ e.data \in DOMAIN CustomErrors /\ e # f
        => raised[t] # raised[u]
  BY <1>1, ClassTells
<1> QED BY <1>3, <1>4 DEF ErrorsKeepTheirMeaning, Said

\* http.py, rpc(): for any number of calls and any errors of the node, every
\* variable has its type and what a call raises tells what the node has said.
THEOREM HttpErrorsCorrect == HttpSpec => [](HttpTypeOK /\ ErrorsKeepTheirMeaning)
<1>1. RaisedInv /\ TypeOK => HttpTypeOK
  <2> SUFFICES ASSUME RaisedInv, TypeOK PROVE HttpTypeOK
    OBVIOUS
  <2>1. ASSUME NEW t \in Calls
        PROVE  raised[t] # "none" <=> stage[t] \in Ended \ {"returned"}
    <3>1. \A f \in Errors : ClassOf(f) # "none"
      BY ClassTells DEF ErrorClasses
    <3>2. "none" \notin Silent
      BY DEF Silent
    <3> QED BY <3>1, <3>2, Pairs DEF RaisedInv, Told, RefusedIs
  <2>2. http \in [Exchanges -> {"none", "posted", "replied", "answered", "refused", "failed"}]
    BY DEF RaisedInv, HttpInv, Posted
  <2> QED BY <2>1, <2>2 DEF RaisedInv, HttpInv, HttpTypeOK
<1> QED BY <1>1, InitRaised, NextRaised, RaisedMeans, HttpRuntimeCorrect, PTL DEF HttpSpec

=============================================================================
