-------------------------- MODULE WebSocketProofs ---------------------------
(***************************************************************************)
(* Proofs about WebSocketTransport for any number of calls, connections,   *)
(* ids and messages: every state has its type, the generator runs for one  *)
(* task at a time and owns the only open connection and the only live      *)
(* receiver, and every call returns the answer to its own request.         *)
(***************************************************************************)
EXTENDS WebSocketProperties, SequenceTheorems, TLAPS

USE ConstantsAssumption DEF Ids, Conns

-----------------------------------------------------------------------------
(* Types.                                                                  *)

CallType == call \in [Requests -> Call]

LEMMA GoesType ==
    ASSUME CallType, NEW r \in Requests, NEW s \in Stages, Goes(r, s)
    PROVE  CallType'
  BY DEF CallType, Goes, Call

LEMMA RaiseType ==
    ASSUME TypeOK, NEW r \in Requests, NEW e \in Errors, Raise(r, e)
    PROVE  CallType' /\ futures' \in [Ids -> Requests \cup {None}]
<1>1. \E s \in Stages : Goes(r, s)
  BY DEF Raise, Stages, Errors
<1>2. CallType'
  BY <1>1, GoesType DEF TypeOK, CallType
<1>3. QED
  BY <1>2 DEF TypeOK, Raise

LEMMA AwaitType ==
    ASSUME TypeOK, NEW r \in Requests, AwaitFuture(r)
    PROVE  CallType' /\ subs' \in [Requests -> {"absent", "live", "failed"}]
<1>1. CallType'
  BY GoesType DEF TypeOK, CallType, AwaitFuture, Stages, Errors
<1>2. QED
  BY <1>1 DEF TypeOK, AwaitFuture

LEMMA InterruptType ==
    ASSUME TypeOK, NEW r \in Requests, NEW s \in Stages, Interrupt(r, s)
    PROVE  CallType'
<1> DEFINE f == IF call[r].stage = "reading" /\ call[r].fut = "pending"
                THEN "cancelled" ELSE call[r].fut
<1>1. call[r] \in Call
  BY DEF TypeOK
<1>2. [call[r] EXCEPT !.stage = s, !.fut = f] \in Call
  BY <1>1 DEF Call
<1>3. call' = [call EXCEPT ![r] = [call[r] EXCEPT !.stage = s, !.fut = f]]
  BY DEF TypeOK, Interrupt
<1>4. QED
  BY <1>2, <1>3 DEF CallType, TypeOK

LEMMA GeneratorType ==
    ASSUME TypeOK
    PROVE  /\ CancelReceiver =>
                recv' \in [Conns -> {"none", "running", "sleeping", "ended",
                                     "cancelled", "crashed"}]
           /\ CloseConnection =>
                link' \in [Conns -> {"none", "open", "lost", "gone", "shut"}]
  BY DEF TypeOK, CancelReceiver, CloseConnection

LEMMA ClearAllType ==
    ASSUME TypeOK, ClearAll
    PROVE  /\ CallType'
           /\ futures' \in [Ids -> Requests \cup {None}]
           /\ subs' \in [Requests -> {"absent", "live", "failed"}]
<1>1. ASSUME NEW r \in Requests
      PROVE  call[r] \in Call /\ [call[r] EXCEPT !.fut = "cancelled"] \in Call
  <2>1. call[r] \in Call
    BY DEF TypeOK
  <2>2. QED
    BY <2>1 DEF Call
<1>2. CallType'
  BY <1>1 DEF ClearAll, CallType
<1>3. QED
  BY <1>2 DEF TypeOK, ClearAll

LEMMA DeliverType ==
    ASSUME TypeOK, NEW c \in Conns, DeliverResponse(c),
           Head(wire[c]) \in Message
    PROVE  CallType'
<1> DEFINE m == Head(wire[c])
           r == futures[m.id]
<1>1. m.id \in Ids /\ m.req \in Requests
  <2>1. m.id \in 0 .. MaxId /\ m.req \in Requests
    BY DEF Message
  <2>2. m.id # 0
    BY DEF DeliverResponse
  <2> HIDE DEF m
  <2>3. QED
    BY <2>1, <2>2
<1>2. r \in Requests \cup {None}
  BY <1>1 DEF TypeOK
<1>3. ASSUME NEW q \in Requests
      PROVE  [call[q] EXCEPT !.fut = "done", !.got = m.req] \in Call
  <2>1. call[q] \in Call
    BY DEF TypeOK
  <2>2. QED
    BY <1>1, <2>1 DEF Call
<1>4. CASE call' = call
  BY <1>4 DEF TypeOK, CallType
<1>5. CASE /\ r # None
           /\ call' = [call EXCEPT ![r] = [call[r] EXCEPT !.fut = "done",
                                                          !.got = m.req]]
  BY <1>2, <1>3, <1>5 DEF TypeOK, CallType
<1>6. call \in [Requests -> Call]
  BY DEF TypeOK
<1>7. QED
  BY <1>2, <1>4, <1>5, <1>6 DEF DeliverResponse

LEMMA TypeInit == Init => TypeOK
  BY DEF Init, TypeOK, Call, Stages

LEMMA TypeStep == TypeOK /\ [Next]_vars => TypeOK'
<1> SUFFICES ASSUME TypeOK, [Next]_vars PROVE TypeOK'
  OBVIOUS
<1>1. ASSUME NEW r \in Requests, Send(r) PROVE TypeOK'
  <2>1. call[r] \in Call /\ lastId' \in 0 .. MaxId
    BY <1>1 DEF TypeOK, Send
  <2>2. [call[r] EXCEPT !.id = lastId', !.fut = "pending",
                        !.stage = "locking"] \in Call
    BY <2>1 DEF Call, Stages
  <2>3. QED
    BY <1>1, <2>1, <2>2 DEF TypeOK, Send, genVars, envVars
<1>2. ASSUME NEW r \in Requests, TakeConnection(r) PROVE TypeOK'
  <2>1. call[r] \in Call /\ connection \in 0 .. MaxConn
    BY DEF TypeOK
  <2>2. [call[r] EXCEPT !.conn = connection, !.stage = "writing"] \in Call
    BY <2>1 DEF Call, Stages
  <2>3. QED
    BY <1>2, <2>2 DEF TypeOK, TakeConnection, genVars, envVars
<1>3. ASSUME NEW r \in Requests, StartConnect(r) PROVE TypeOK'
  BY SMTT(30), <1>3, GoesType, GeneratorType DEF TypeOK, CallType, StartConnect,
     Stages, Errors, genVars, envVars
<1>4. ASSUME NEW r \in Requests, RefuseConnection(r) PROVE TypeOK'
  BY <1>4, RaiseType DEF TypeOK, CallType, RefuseConnection, Errors, genVars,
     envVars
<1>5. ASSUME NEW r \in Requests, ConnectOk(r) PROVE TypeOK'
  <2>1. call[r] \in Call /\ connection' \in 0 .. MaxConn
    BY <1>5 DEF TypeOK, ConnectOk
  <2>2. [call[r] EXCEPT !.conn = connection', !.stage = "writing"] \in Call
    BY <2>1 DEF Call, Stages
  <2>3. QED
    BY <1>5, <2>1, <2>2 DEF TypeOK, ConnectOk, envVars
<1>6. ASSUME NEW r \in Requests, ConnectRetry(r) PROVE TypeOK'
  BY <1>6 DEF TypeOK, CallType, ConnectRetry, genVars, envVars
<1>7. ASSUME NEW r \in Requests, ConnectFail(r) PROVE TypeOK'
  BY <1>7, RaiseType DEF TypeOK, CallType, ConnectFail, Errors, genVars,
     envVars
<1>8. ASSUME NEW r \in Requests, Transmit(r) PROVE TypeOK'
  BY <1>8, GoesType DEF TypeOK, CallType, Transmit, Stages, Errors,
     MessageId, Call, genVars, envVars
<1>9. ASSUME NEW r \in Requests, WriteOk(r) PROVE TypeOK'
  BY <1>9, AwaitType DEF TypeOK, CallType, WriteOk, genVars, envVars
<1>10. ASSUME NEW r \in Requests, WriteTimeout(r) PROVE TypeOK'
  BY <1>10, RaiseType DEF TypeOK, CallType, WriteTimeout, Errors, genVars,
     envVars
<1>11. ASSUME NEW r \in Requests, WriteFails(r) PROVE TypeOK'
  BY <1>11, GoesType DEF TypeOK, CallType, WriteFails, Stages, Errors,
     genVars, envVars
<1>12. ASSUME NEW r \in Requests, ThrowDisconnects(r) PROVE TypeOK'
  BY <1>12, GoesType, GeneratorType DEF TypeOK, CallType, ThrowDisconnects,
     Stages, Errors, genVars, envVars
<1>13. ASSUME NEW r \in Requests, Disconnected(r) PROVE TypeOK'
  BY <1>13, AwaitType DEF TypeOK, CallType, Disconnected, genVars, envVars
<1>14. ASSUME NEW r \in Requests, ThrowKills(r) PROVE TypeOK'
  BY <1>14, RaiseType, GeneratorType DEF TypeOK, CallType, ThrowKills,
     Errors, genVars, envVars
<1>15. ASSUME NEW r \in Requests, ThrowIgnored(r) PROVE TypeOK'
  BY <1>15, AwaitType DEF TypeOK, CallType, ThrowIgnored, genVars, envVars
<1>16. ASSUME NEW r \in Requests, ThrowRefused(r) PROVE TypeOK'
  BY <1>16, RaiseType DEF TypeOK, CallType, ThrowRefused, Errors, genVars,
     envVars
<1>17. ASSUME NEW r \in Requests, Resume(r) PROVE TypeOK'
  BY <1>17, AwaitType DEF TypeOK, CallType, Resume, genVars, envVars
<1>18. ASSUME NEW r \in Requests, ReadTimeout(r) PROVE TypeOK'
  BY <1>18, InterruptType DEF TypeOK, CallType, ReadTimeout, Stages, Errors,
     genVars, envVars
<1>19. ASSUME NEW r \in Requests, Expire(r) PROVE TypeOK'
  BY <1>19, RaiseType DEF TypeOK, CallType, Expire, Errors, genVars, envVars
<1>20. ASSUME NEW r \in Requests, Cancel(r) PROVE TypeOK'
  BY <1>20, InterruptType DEF TypeOK, CallType, Cancel, Stages, Errors,
     genVars, envVars
<1>21. ASSUME NEW r \in Requests, CancelInGenerator(r) PROVE TypeOK'
  BY <1>21, GoesType, GeneratorType DEF TypeOK, CallType, CancelInGenerator,
     Stages, Errors, Abandon, genVars, envVars
<1>22. ASSUME NEW r \in Requests, Unsubscribe(r) PROVE TypeOK'
  BY <1>22 DEF TypeOK, CallType, Unsubscribe, genVars, envVars
<1>23. ASSUME NEW r \in Requests, Serve(r) PROVE TypeOK'
  <2> DEFINE m == [id |-> frame[r], req |-> r]
  <2>1. m \in Message
    BY DEF Message, TypeOK
  <2>2. \A c \in Conns : Append(wire[c], m) \in Seq(Message)
    BY <2>1 DEF TypeOK
  <2>3. \/ wire' = wire
        \/ wire' = [wire EXCEPT ![call[r].conn] = Append(@, m)]
    BY <1>23 DEF Serve
  <2>4. wire' \in [Conns -> Seq(Message)]
    <3>1. wire \in [Conns -> Seq(Message)]
      BY DEF TypeOK
    <3>2. ASSUME NEW c, wire' = [wire EXCEPT ![c] = Append(@, m)]
          PROVE  wire' \in [Conns -> Seq(Message)]
      BY <2>2, <3>1, <3>2
    <3>3. QED
      BY <2>3, <3>1, <3>2
  <2>5. QED
    BY <1>23, <2>4 DEF TypeOK, Serve, genVars
<1>24. ASSUME NEW r \in Requests, Notify(r) PROVE TypeOK'
  <2>1. [id |-> 0, req |-> r] \in Message
    BY DEF Message
  <2>2. \A c \in Conns : Append(wire[c], [id |-> 0, req |-> r]) \in Seq(Message)
    BY <2>1 DEF TypeOK
  <2>3. wire' \in [Conns -> Seq(Message)]
    BY <1>24, <2>2 DEF TypeOK, Notify
  <2>4. QED
    BY <1>24, <2>3 DEF TypeOK, Notify, genVars
<1>25. ASSUME NEW c \in Conns, DeliverResponse(c) PROVE TypeOK'
  <2>1. wire[c] \in Seq(Message) /\ wire[c] # <<>>
    BY <1>25 DEF TypeOK, DeliverResponse
  <2>2. Head(wire[c]) \in Message /\ Tail(wire[c]) \in Seq(Message)
    BY <2>1, HeadTailProperties
  <2>3. CallType'
    BY <1>25, <2>2, DeliverType
  <2>4. wire' \in [Conns -> Seq(Message)]
    BY <1>25, <2>2 DEF TypeOK, DeliverResponse
  <2>5. QED
    BY <1>25, <2>3, <2>4 DEF TypeOK, CallType, DeliverResponse
<1>26. ASSUME NEW c \in Conns, DeliverNote(c) PROVE TypeOK'
  BY <1>26, HeadTailProperties DEF TypeOK, CallType, DeliverNote, Message,
     genVars, envVars
<1>27. ASSUME NEW c \in Conns, Awaken(c) PROVE TypeOK'
  BY <1>27 DEF TypeOK, CallType, Awaken, genVars, envVars
<1>28. ASSUME NEW c \in Conns, ReceiverEnds(c) PROVE TypeOK'
  BY <1>28 DEF TypeOK, CallType, ReceiverEnds, genVars, envVars
<1>29. ASSUME NEW c \in Conns, Drop(c) PROVE TypeOK'
  <2>1. PICK n \in 0 .. Len(wire[c]) :
               wire' = [wire EXCEPT ![c] = SubSeq(@, 1, n)]
    BY <1>29 DEF Drop
  <2>2. SubSeq(wire[c], 1, n) \in Seq(Message)
    BY SubSeqProperties DEF TypeOK
  <2>3. QED
    BY <1>29, <2>1, <2>2 DEF TypeOK, Drop
<1>30. ASSUME CloseOpen PROVE TypeOK'
  BY <1>30, ClearAllType, GeneratorType DEF TypeOK, CallType, CloseOpen,
     genVars, envVars
<1>31. ASSUME CloseIdle PROVE TypeOK'
  BY <1>31, ClearAllType, GeneratorType DEF TypeOK, CallType, CloseIdle,
     genVars, envVars
<1>32. ASSUME CloseRefused PROVE TypeOK'
  BY <1>32, ClearAllType DEF TypeOK, CallType, CloseRefused, genVars, envVars
<1>33. ASSUME CloseEnd PROVE TypeOK'
  BY <1>33, GeneratorType DEF TypeOK, CallType, CloseEnd, genVars, envVars
<1>34. CASE UNCHANGED vars
  BY <1>34 DEF TypeOK, vars, genVars, envVars
<1>35. QED
  BY <1>1, <1>2, <1>3, <1>4, <1>5, <1>6, <1>7, <1>8, <1>9, <1>10, <1>11,
     <1>12, <1>13, <1>14, <1>15, <1>16, <1>17, <1>18, <1>19, <1>20, <1>21,
     <1>22, <1>23, <1>24, <1>25, <1>26, <1>27, <1>28, <1>29, <1>30, <1>31,
     <1>32, <1>33, <1>34
     DEF Next, Advance, Receive, Close

\* Every variable keeps its type: _id, the dicts, the state of every call, of
\* the generator and of every connection.
THEOREM TypeCorrect == Spec => []TypeOK
<1>1. QED
  BY TypeInit, TypeStep, PTL DEF Spec

-----------------------------------------------------------------------------
(* The generator.                                                          *)

LEMMA GeneratorInit == Init => GeneratorInv
  BY DEF Init, GeneratorInv, LockProtectsGenerator, NoLeakedConnection,
         ReceiverOfConnection

\* Whatever the state of its future, no call moves into the generator when it
\* comes to await it.
LEMMA AwaitStages ==
    ASSUME NEW r \in Requests, AwaitFuture(r)
    PROVE  \E s \in {"reading", "result", "CancelledError"} : Goes(r, s)
  BY DEF AwaitFuture

\* What an answer leaves of a call.
LEMMA Answered ==
    ASSUME TypeOK, NEW s \in Requests, NEW g,
           call' = [call EXCEPT ![s] = [@ EXCEPT !.fut = "done", !.got = g]]
    PROVE  /\ call'[s].stage = call[s].stage /\ call'[s].fut = "done"
           /\ call'[s].conn = call[s].conn /\ call'[s].id = call[s].id
           /\ \A q \in Requests : q # s => call'[q] = call[q]
<1>1. call[s] \in Call /\ DOMAIN call = Requests
  BY DEF TypeOK
<1>2. call'[s] = [call[s] EXCEPT !.fut = "done", !.got = g]
  BY <1>1
<1>3. \A q \in Requests : q # s => call'[q] = call[q]
  BY <1>1
<1>4. QED
  BY <1>1, <1>2, <1>3 DEF Call

\* An answer changes the stage of no call.
LEMMA DeliverStages ==
    ASSUME TypeOK, NEW c \in Conns, DeliverResponse(c)
    PROVE  \A r \in Requests : call'[r].stage = call[r].stage
<1> DEFINE s == futures[Head(wire[c]).id]
<1>1. CASE call' = call
  BY <1>1
<1>2. CASE call' = [call EXCEPT ![s] = [@ EXCEPT !.fut = "done",
                                                !.got = Head(wire[c]).req]]
  <2>1. CASE s \in Requests
    <3> HIDE DEF s
    <3>1. QED
      BY <1>2, <2>1, Answered
  <2>2. CASE s \notin Requests
    <3>1. \A q \in Requests : call'[q] = call[q]
      BY <1>2, <2>2 DEF TypeOK
    <3>2. QED
      BY <3>1
  <2>3. QED
    BY <2>1, <2>2
<1>3. QED
  BY <1>1, <1>2 DEF DeliverResponse

LEMMA GeneratorStep ==
    TypeOK /\ GeneratorInv /\ [Next]_vars => GeneratorInv'
<1> SUFFICES ASSUME TypeOK, GeneratorInv, [Next]_vars PROVE GeneratorInv'
  OBVIOUS
<1> USE DEF GeneratorInv, LockProtectsGenerator, NoLeakedConnection,
            ReceiverOfConnection
<1>1. ASSUME NEW r \in Requests, Send(r) PROVE GeneratorInv'
  BY SMTT(30), <1>1 DEF TypeOK, Call, genVars, Send
<1>2. ASSUME NEW r \in Requests, TakeConnection(r) PROVE GeneratorInv'
  BY SMTT(30), <1>2 DEF TypeOK, Call, genVars, TakeConnection, LockFree
<1>3. ASSUME NEW r \in Requests, StartConnect(r) PROVE GeneratorInv'
  BY SMTT(30), <1>3 DEF TypeOK, Call, genVars, StartConnect, LockFree, CancelReceiver,
     CloseConnection, Goes
<1>4. ASSUME NEW r \in Requests, RefuseConnection(r) PROVE GeneratorInv'
  BY SMTT(30), <1>4 DEF TypeOK, Call, genVars, RefuseConnection, LockFree, Raise, Goes
<1>5. ASSUME NEW r \in Requests, ConnectOk(r) PROVE GeneratorInv'
  BY SMTT(30), <1>5 DEF TypeOK, Call, genVars, ConnectOk
<1>6. ASSUME NEW r \in Requests, ConnectRetry(r) PROVE GeneratorInv'
  BY SMTT(30), <1>6 DEF TypeOK, Call, genVars, ConnectRetry
<1>7. ASSUME NEW r \in Requests, ConnectFail(r) PROVE GeneratorInv'
  BY SMTT(30), <1>7 DEF TypeOK, Call, genVars, ConnectFail, Raise, Goes
<1>8. ASSUME NEW r \in Requests, Transmit(r) PROVE GeneratorInv'
  BY SMTT(30), <1>8 DEF TypeOK, Call, genVars, Transmit, Goes, MessageId
<1>9. ASSUME NEW r \in Requests, WriteOk(r) PROVE GeneratorInv'
  <2>1. PICK s \in {"reading", "result", "CancelledError"} : Goes(r, s)
    BY <1>9, AwaitStages DEF WriteOk
  <2>2. QED
    BY SMTT(30), <1>9, <2>1 DEF TypeOK, Call, Goes, genVars, WriteOk
<1>10. ASSUME NEW r \in Requests, WriteTimeout(r) PROVE GeneratorInv'
  BY SMTT(30), <1>10 DEF TypeOK, Call, genVars, WriteTimeout, Raise, Goes
<1>11. ASSUME NEW r \in Requests, WriteFails(r) PROVE GeneratorInv'
  BY SMTT(30), <1>11 DEF TypeOK, Call, genVars, WriteFails, Goes
<1>12. ASSUME NEW r \in Requests, ThrowDisconnects(r) PROVE GeneratorInv'
  BY SMTT(30), <1>12 DEF TypeOK, Call, genVars, ThrowDisconnects, LockFree,
     CloseConnection, Goes
<1>13. ASSUME NEW r \in Requests, Disconnected(r) PROVE GeneratorInv'
  <2>1. PICK s \in {"reading", "result", "CancelledError"} : Goes(r, s)
    BY <1>13, AwaitStages DEF Disconnected
  <2>2. QED
    BY SMTT(30), <1>13, <2>1 DEF TypeOK, Call, Goes, genVars, Disconnected
<1>14. ASSUME NEW r \in Requests, ThrowKills(r) PROVE GeneratorInv'
  BY SMTT(30), <1>14 DEF TypeOK, Call, genVars, ThrowKills, LockFree, CancelReceiver,
     Raise, Goes
<1>15. ASSUME NEW r \in Requests, ThrowIgnored(r) PROVE GeneratorInv'
  <2>1. PICK s \in {"reading", "result", "CancelledError"} : Goes(r, s)
    BY <1>15, AwaitStages DEF ThrowIgnored
  <2>2. QED
    BY SMTT(30), <1>15, <2>1 DEF TypeOK, Call, Goes, genVars, ThrowIgnored
<1>16. ASSUME NEW r \in Requests, ThrowRefused(r) PROVE GeneratorInv'
  BY SMTT(30), <1>16 DEF TypeOK, Call, genVars, ThrowRefused, LockFree, Raise, Goes
<1>17. ASSUME NEW r \in Requests, Resume(r) PROVE GeneratorInv'
  <2>1. PICK s \in {"reading", "result", "CancelledError"} : Goes(r, s)
    BY <1>17, AwaitStages DEF Resume
  <2>2. QED
    BY SMTT(30), <1>17, <2>1 DEF TypeOK, Call, Goes, genVars, Resume
<1>18. ASSUME NEW r \in Requests, ReadTimeout(r) PROVE GeneratorInv'
  BY SMTT(30), <1>18 DEF TypeOK, Call, genVars, ReadTimeout, Interrupt
<1>19. ASSUME NEW r \in Requests, Expire(r) PROVE GeneratorInv'
  BY SMTT(30), <1>19 DEF TypeOK, Call, genVars, Expire, Raise, Goes
<1>20. ASSUME NEW r \in Requests, Cancel(r) PROVE GeneratorInv'
  BY SMTT(30), <1>20 DEF TypeOK, Call, genVars, Cancel, Interrupt
<1>21. ASSUME NEW r \in Requests, CancelInGenerator(r) PROVE GeneratorInv'
  BY SMTT(30), <1>21 DEF TypeOK, Call, genVars, CancelInGenerator, Abandon, Goes,
     CancelReceiver
<1>22. ASSUME NEW r \in Requests, Unsubscribe(r) PROVE GeneratorInv'
  BY SMTT(30), <1>22 DEF TypeOK, Call, genVars, Unsubscribe
<1>23. ASSUME NEW r \in Requests, Serve(r) PROVE GeneratorInv'
  BY SMTT(30), <1>23 DEF TypeOK, Call, genVars, Serve
<1>24. ASSUME NEW r \in Requests, Notify(r) PROVE GeneratorInv'
  BY SMTT(30), <1>24 DEF TypeOK, Call, genVars, Notify
<1>25. ASSUME NEW c \in Conns, DeliverResponse(c) PROVE GeneratorInv'
  <2>1. \A d \in Conns : recv'[d] \in {"running", "sleeping"}
                         => recv[d] \in {"running", "sleeping"}
    BY <1>25 DEF TypeOK, DeliverResponse
  <2>2. \A r \in Requests : call'[r].stage = call[r].stage
    BY <1>25, DeliverStages
  <2>3. QED
    BY <1>25, <2>1, <2>2 DEF DeliverResponse
<1>26. ASSUME NEW c \in Conns, DeliverNote(c) PROVE GeneratorInv'
  BY SMTT(30), <1>26 DEF TypeOK, Call, genVars, DeliverNote
<1>27. ASSUME NEW c \in Conns, Awaken(c) PROVE GeneratorInv'
  BY SMTT(30), <1>27 DEF TypeOK, Call, genVars, Awaken
<1>28. ASSUME NEW c \in Conns, ReceiverEnds(c) PROVE GeneratorInv'
  BY SMTT(30), <1>28 DEF TypeOK, Call, genVars, ReceiverEnds
<1>29. ASSUME NEW c \in Conns, Drop(c) PROVE GeneratorInv'
  BY SMTT(30), <1>29 DEF TypeOK, Call, genVars, Drop
<1>30. ASSUME CloseOpen PROVE GeneratorInv'
  BY SMTT(30), <1>30 DEF TypeOK, Call, genVars, CloseOpen, ClearAll, CloseConnection
<1>31. ASSUME CloseIdle PROVE GeneratorInv'
  BY SMTT(30), <1>31 DEF TypeOK, Call, genVars, CloseIdle, ClearAll, CancelReceiver,
     CloseConnection
<1>32. ASSUME CloseRefused PROVE GeneratorInv'
  BY SMTT(30), <1>32 DEF TypeOK, Call, genVars, CloseRefused, ClearAll
<1>33. ASSUME CloseEnd PROVE GeneratorInv'
  BY SMTT(30), <1>33 DEF TypeOK, Call, genVars, CloseEnd, CancelReceiver
<1>34. CASE UNCHANGED vars
  BY <1>34 DEF vars, genVars
<1>35. QED
  BY <1>1, <1>2, <1>3, <1>4, <1>5, <1>6, <1>7, <1>8, <1>9, <1>10, <1>11,
     <1>12, <1>13, <1>14, <1>15, <1>16, <1>17, <1>18, <1>19, <1>20, <1>21,
     <1>22, <1>23, <1>24, <1>25, <1>26, <1>27, <1>28, <1>29, <1>30, <1>31,
     <1>32, <1>33, <1>34
     DEF Next, Advance, Receive, Close

\* The generator is never entered while it runs; it owns the one open
\* connection and the one receiver.
THEOREM GeneratorCorrect ==
    Spec => [](LockProtectsGenerator /\ OneConnection)
<1>1. GeneratorInv => LockProtectsGenerator
  BY DEF GeneratorInv
<1>2. GeneratorInv => OneConnection
  BY DEF GeneratorInv, ReceiverOfConnection, OneConnection, SingleReceiver
<1>3. QED
  BY <1>1, <1>2, GeneratorInit, GeneratorStep, TypeInit, TypeStep, PTL DEF Spec

-----------------------------------------------------------------------------
(* The calls, their ids and their answers.                                 *)

LEMMA CallsInit == Init => CallsInv
  BY DEF Init, CallsInv, CallIds, MessageIds, Answers, FutureIds,
         PendingIsRegistered, OnlyCancellationLeaks, Started, Active, Ended,
         Terminal, Errors

Waiting == {"locking", "connecting", "writing", "draining", "throwing",
            "disconnecting", "reading", "expired"}

\* Most steps are quiet: no id, answer or message changes, a call may end, and
\* a pending future may be cancelled or, when its call ends, be removed.
CallQuiet(s) ==
    /\ call'[s].id = call[s].id
    /\ call'[s].got = call[s].got
    /\ call'[s].stage = "idle" <=> call[s].stage = "idle"
    /\ \/ call'[s].fut = call[s].fut
       \/ call[s].fut = "pending" /\ call'[s].fut = "cancelled"
    /\ Ended(s) => call'[s].stage = call[s].stage
    /\ call'[s].stage = "result" => Ended(s) \/ call[s].fut = "done"
    /\ call'[s].stage \in Terminal =>
         \/ Ended(s)
         \/ call'[s].stage \in {"result", "CancelledError"}
         \/ futures'[call[s].id] = None

FuturesQuiet ==
    \A i \in Ids :
        \/ futures'[i] = futures[i]
        \/ /\ futures'[i] = None
           /\ \A s \in Requests : call[s].id = i =>
                call'[s].stage \in Terminal \/ call'[s].fut # "pending"

MessagesQuiet ==
    /\ \A s \in Requests : frame'[s] \in {frame[s], call[s].id}
    /\ \A c \in Conns : \A k \in 1 .. Len(wire'[c]) :
         /\ wire'[c][k].req \in Requests
         /\ wire'[c][k].id # 0 => wire'[c][k].id = call[wire'[c][k].req].id

Quiet ==
    /\ \A s \in Requests : CallQuiet(s)
    /\ FuturesQuiet
    /\ MessagesQuiet
    /\ UNCHANGED lastId

LEMMA QuietKeepsCalls ==
    ASSUME TypeOK, CallsInv, Quiet
    PROVE  CallsInv'
<1>1. \A s \in Requests : /\ Started(s)' <=> Started(s)
                          /\ Active(s)' => Active(s)
                          /\ call'[s].id = call[s].id
  BY DEF Quiet, CallQuiet, Started, Active, Ended
<1>2. CallIds'
  BY <1>1 DEF CallsInv, CallIds, Quiet, CallQuiet
<1>3. MessageIds'
  BY <1>1 DEF CallsInv, MessageIds, Quiet, MessagesQuiet
<1>4. Answers'
  BY DEF CallsInv, Answers, Quiet, CallQuiet, Ended, Terminal
<1>5. FutureIds'
  <2>1. ASSUME NEW i \in Ids, NEW r \in Requests, futures'[i] = r
        PROVE  call'[r].id = i /\ call'[r].fut \in {"pending", "cancelled"}
    <3>1. futures[i] = r
      BY <2>1 DEF Quiet, FuturesQuiet
    <3>2. call[r].id = i /\ call[r].fut \in {"pending", "cancelled"}
      BY <3>1 DEF CallsInv, FutureIds
    <3> QED BY <3>2 DEF Quiet, CallQuiet
  <2>2. QED
    BY <2>1 DEF FutureIds
<1>6. PendingIsRegistered'
  <2>1. ASSUME NEW r \in Requests, Active(r)', call'[r].fut = "pending"
        PROVE  futures'[call'[r].id] = r
    <3>1. Active(r) /\ call[r].fut = "pending" /\ call'[r].id = call[r].id
      BY <1>1, <2>1 DEF Quiet, CallQuiet
    <3>2. call[r].id \in Ids /\ futures[call[r].id] = r
      BY <3>1 DEF CallsInv, PendingIsRegistered, TypeOK, Call, CallIds, Active
    <3>3. call'[r].stage \notin Terminal
      BY <2>1 DEF Active, Ended
    <3>4. QED
      BY <2>1, <3>1, <3>2, <3>3 DEF Quiet, FuturesQuiet
  <2>2. QED
    BY <2>1 DEF PendingIsRegistered
<1>7. OnlyCancellationLeaks'
  <2>1. ASSUME NEW i \in Ids, NEW r \in Requests, futures'[i] = r, Ended(r)'
        PROVE  call'[r].stage = "CancelledError"
    <3>1. futures[i] = r
      BY <2>1 DEF Quiet, FuturesQuiet
    <3>2. call[r].id = i /\ call[r].fut \in {"pending", "cancelled"}
      BY <3>1 DEF CallsInv, FutureIds
    <3>3. CASE Ended(r)
      BY <3>1, <3>3 DEF CallsInv, OnlyCancellationLeaks, Quiet, CallQuiet
    <3>4. CASE ~ Ended(r)
      BY <2>1, <3>2, <3>4 DEF Quiet, CallQuiet, Ended
    <3>5. QED
      BY <3>3, <3>4
  <2>2. QED
    BY <2>1 DEF OnlyCancellationLeaks
<1>8. QED
  BY <1>2, <1>3, <1>4, <1>5, <1>6, <1>7 DEF CallsInv

LEMMA GoesQuiet ==
    ASSUME TypeOK, NEW r \in Requests, Active(r), NEW s \in Stages, s # "idle",
           Goes(r, s), s = "result" => call[r].fut = "done",
           \/ s \in {"result", "CancelledError"}
           \/ s \notin Terminal
           \/ futures'[call[r].id] = None
    PROVE  \A q \in Requests : CallQuiet(q)
<1>1. \A q \in Requests : q # r => call'[q] = call[q]
  BY DEF Goes, TypeOK
<1>2. call'[r] = [call[r] EXCEPT !.stage = s] /\ call[r] \in Call
  BY DEF Goes, TypeOK
<1>3. CallQuiet(r)
  BY <1>2 DEF CallQuiet, Active, Started, Ended, Call
<1>4. ASSUME NEW q \in Requests, q # r PROVE CallQuiet(q)
  BY <1>1, <1>4 DEF CallQuiet, Ended, Terminal
<1>5. QED
  BY <1>3, <1>4

LEMMA RaiseQuiet ==
    ASSUME TypeOK, CallsInv, NEW r \in Requests, Active(r),
           NEW e \in Errors, Raise(r, e)
    PROVE  (\A q \in Requests : CallQuiet(q)) /\ FuturesQuiet
<1>1. call[r].id \in Ids
  BY DEF TypeOK, CallsInv, CallIds, Active, Call
<1>2. PICK s \in Errors : Goes(r, s)
  BY DEF Raise, Errors
<1>3. futures'[call[r].id] = None
  BY <1>1 DEF Raise, TypeOK
<1>4. \A q \in Requests : CallQuiet(q)
  BY <1>2, <1>3, GoesQuiet DEF Stages, Errors
<1>5. \A q \in Requests : call[q].id = call[r].id => q = r
  BY DEF CallsInv, CallIds, Active
<1>6. call'[r].stage \in Terminal
  BY <1>2 DEF Goes, TypeOK, Terminal, Call
<1>7. FuturesQuiet
  BY <1>1, <1>5, <1>6 DEF FuturesQuiet, Raise, TypeOK
<1>8. QED
  BY <1>4, <1>7

LEMMA AwaitQuiet ==
    ASSUME TypeOK, NEW r \in Requests, Active(r), AwaitFuture(r)
    PROVE  \A q \in Requests : CallQuiet(q)
<1>1. /\ {"reading", "result", "CancelledError"} \subseteq Stages
      /\ "reading" \notin Terminal
  BY DEF Stages, Errors, Terminal
<1>2. QED
  BY <1>1, GoesQuiet DEF AwaitFuture

LEMMA InterruptQuiet ==
    ASSUME TypeOK, NEW r \in Requests, Active(r),
           NEW s \in {"expired", "CancelledError"}, Interrupt(r, s)
    PROVE  \A q \in Requests : CallQuiet(q)
<1>1. s # "idle" /\ s # "result" /\ (s = "CancelledError" \/ s \notin Terminal)
  BY DEF Terminal, Errors
<1>2. \A q \in Requests : q # r => call'[q] = call[q]
  BY DEF Interrupt, TypeOK
<1>3. CallQuiet(r)
  BY <1>1 DEF TypeOK, Interrupt, CallQuiet, Active, Started, Ended, Call
<1>4. QED
  BY <1>2, <1>3 DEF CallQuiet, Ended, Terminal

LEMMA SameQuiet ==
    ASSUME UNCHANGED call
    PROVE  \A q \in Requests : CallQuiet(q)
  BY DEF CallQuiet, Ended, Terminal

LEMMA SameFutures ==
    ASSUME UNCHANGED futures
    PROVE  FuturesQuiet
  BY DEF FuturesQuiet

LEMMA SameMessages ==
    ASSUME TypeOK, CallsInv, UNCHANGED <<frame, wire>>
    PROVE  MessagesQuiet
<1>1. ASSUME NEW c \in Conns, NEW k \in 1 .. Len(wire[c])
      PROVE  wire[c][k].req \in Requests
  <2>1. wire[c][k] \in Message
    BY ElementOfSeq DEF TypeOK
  <2>2. QED
    BY <2>1 DEF Message
<1>2. QED
  BY <1>1 DEF CallsInv, MessageIds, MessagesQuiet

LEMMA ClearAllQuiet ==
    ASSUME TypeOK, CallsInv, ClearAll
    PROVE  (\A q \in Requests : CallQuiet(q)) /\ FuturesQuiet
<1>1. ASSUME NEW q \in Requests PROVE CallQuiet(q)
  <2>1. /\ call[q] \in Call
        /\ call'[q] \in {call[q], [call[q] EXCEPT !.fut = "cancelled"]}
        /\ call'[q] # call[q] => call[q].fut = "pending"
    BY DEF TypeOK, ClearAll
  <2>2. QED
    BY <2>1 DEF CallQuiet, Ended, Terminal, Call
<1>2. ASSUME NEW q \in Requests, call[q].id \in Ids
      PROVE  call'[q].stage \in Terminal \/ call'[q].fut # "pending"
  BY <1>2 DEF TypeOK, ClearAll, CallsInv, CallIds, PendingIsRegistered,
              Active, Ended, Call
<1>3. FuturesQuiet
  BY <1>2 DEF FuturesQuiet, ClearAll
<1>4. QED
  BY <1>1, <1>3

LEMMA WaitingIsActive ==
    ASSUME NEW r \in Requests, call[r].stage \in Waiting
    PROVE  Active(r)
  BY DEF Waiting, Active, Started, Ended, Terminal, Errors

\* The steps that share an operator, each of them quiet.
LEMMA GoesStep ==
    ASSUME TypeOK, CallsInv, NEW r \in Requests, call[r].stage \in Waiting,
           NEW s \in Waiting, Goes(r, s),
           UNCHANGED <<lastId, futures, frame, wire>>
    PROVE  CallsInv'
<1>1. s \in Stages /\ s # "idle" /\ s \notin Terminal /\ s # "result"
  BY DEF Waiting, Stages, Terminal, Errors
<1>2. QED
  BY <1>1, WaitingIsActive, GoesQuiet, SameFutures, SameMessages,
     QuietKeepsCalls DEF Quiet

LEMMA RaiseStep ==
    ASSUME TypeOK, CallsInv, NEW r \in Requests, call[r].stage \in Waiting,
           NEW e \in Errors, Raise(r, e), UNCHANGED <<lastId, frame, wire>>
    PROVE  CallsInv'
  BY WaitingIsActive, RaiseQuiet, SameMessages, QuietKeepsCalls DEF Quiet

LEMMA AwaitStep ==
    ASSUME TypeOK, CallsInv, NEW r \in Requests, call[r].stage \in Waiting,
           AwaitFuture(r), UNCHANGED <<lastId, futures, frame, wire>>
    PROVE  CallsInv'
  BY WaitingIsActive, AwaitQuiet, SameFutures, SameMessages,
     QuietKeepsCalls DEF Quiet

LEMMA InterruptStep ==
    ASSUME TypeOK, CallsInv, NEW r \in Requests, call[r].stage \in Waiting,
           NEW s \in {"expired", "CancelledError"}, Interrupt(r, s),
           UNCHANGED <<lastId, futures, frame, wire>>
    PROVE  CallsInv'
  BY WaitingIsActive, InterruptQuiet, SameFutures, SameMessages,
     QuietKeepsCalls DEF Quiet

LEMMA ClearAllStep ==
    ASSUME TypeOK, CallsInv, ClearAll, UNCHANGED <<lastId, frame, wire>>
    PROVE  CallsInv'
  BY ClearAllQuiet, SameMessages, QuietKeepsCalls DEF Quiet

LEMMA SameStep ==
    ASSUME TypeOK, CallsInv, UNCHANGED <<lastId, futures, call, frame, wire>>
    PROVE  CallsInv'
  BY SameQuiet, SameFutures, SameMessages,
     QuietKeepsCalls DEF Quiet

\* A call takes a connection.
LEMMA ConnStep ==
    ASSUME TypeOK, CallsInv, NEW r \in Requests, call[r].stage \in Waiting,
           NEW n, NEW s \in Waiting,
           call' = [call EXCEPT ![r] = [@ EXCEPT !.conn = n, !.stage = s]],
           UNCHANGED <<lastId, futures, frame, wire>>
    PROVE  CallsInv'
<1>1. s # "idle" /\ s \notin Terminal /\ s # "result"
  BY DEF Waiting, Terminal, Errors
<1>2. \A q \in Requests : q # r => call'[q] = call[q]
  BY DEF TypeOK
<1>3. call'[r] = [call[r] EXCEPT !.conn = n, !.stage = s] /\ call[r] \in Call
  BY DEF TypeOK
<1>4. CallQuiet(r)
  <2>1. Active(r) /\ call'[r].stage = s
    BY <1>3, WaitingIsActive DEF Call
  <2>2. /\ call'[r].id = call[r].id /\ call'[r].got = call[r].got
        /\ call'[r].fut = call[r].fut
    BY <1>3 DEF Call
  <2>3. QED
    BY <1>1, <2>1, <2>2 DEF CallQuiet, Active, Started, Ended
<1>5. ASSUME NEW q \in Requests, q # r PROVE CallQuiet(q)
  BY <1>2, <1>5 DEF CallQuiet, Ended, Terminal
<1>6. QED
  BY <1>4, <1>5, SameFutures, SameMessages, QuietKeepsCalls DEF Quiet

LEMMA AbandonStep ==
    ASSUME TypeOK, CallsInv, NEW r \in Requests, call[r].stage \in Waiting,
           Abandon(r), UNCHANGED <<lastId, frame, wire>>
    PROVE  CallsInv'
<1>1. "CancelledError" \in Stages
  BY DEF Stages, Errors
<1>2. \A q \in Requests : CallQuiet(q)
  BY <1>1, WaitingIsActive, GoesQuiet DEF Abandon
<1>3. QED
  BY <1>2, SameFutures, SameMessages, QuietKeepsCalls DEF Quiet, Abandon

\* A message that comes or goes leaves the calls alone.
LEMMA WireStep ==
    ASSUME TypeOK, CallsInv, UNCHANGED <<lastId, futures, call, frame>>,
           \A c \in Conns : \A k \in 1 .. Len(wire'[c]) :
             /\ wire'[c][k].req \in Requests
             /\ wire'[c][k].id # 0 =>
                  wire'[c][k].id = call[wire'[c][k].req].id
    PROVE  CallsInv'
  BY SameQuiet, SameFutures, QuietKeepsCalls DEF Quiet, MessagesQuiet

\* A part of a queue holds messages of the queue.
LEMMA PartKeeps ==
    ASSUME TypeOK, NEW c \in Conns, NEW i \in 1 .. Len(wire[c]) + 1,
           NEW n \in 0 .. Len(wire[c]),
           wire' = [wire EXCEPT ![c] = SubSeq(@, i, n)]
    PROVE  \A d \in Conns : \A k \in 1 .. Len(wire'[d]) :
             \E j \in 1 .. Len(wire[d]) : wire'[d][k] = wire[d][j]
<1>1. wire[c] \in Seq(Message)
  BY DEF TypeOK
<1>2. \A j \in i .. n : wire[c][j] \in Message
  BY <1>1, ElementOfSeq
<1>3. /\ Len(SubSeq(wire[c], i, n)) = IF i <= n THEN n - i + 1 ELSE 0
      /\ \A k \in 1 .. n - i + 1 : SubSeq(wire[c], i, n)[k] = wire[c][i + k - 1]
  BY <1>1, <1>2, SubSeqProperties
<1>4. ASSUME NEW k \in 1 .. Len(SubSeq(wire[c], i, n))
      PROVE  \E j \in 1 .. Len(wire[c]) :
               SubSeq(wire[c], i, n)[k] = wire[c][j]
  <2>1. i + k - 1 \in 1 .. Len(wire[c]) /\ k \in 1 .. n - i + 1
    BY <1>1, <1>3
  <2>2. QED
    BY <1>3, <2>1
<1>5. /\ wire'[c] = SubSeq(wire[c], i, n)
      /\ \A d \in Conns : d # c => wire'[d] = wire[d]
  BY DEF TypeOK
<1>6. ASSUME NEW d \in Conns, NEW k \in 1 .. Len(wire'[d])
      PROVE  \E j \in 1 .. Len(wire[d]) : wire'[d][k] = wire[d][j]
  <2>1. CASE d = c
    BY <1>4, <1>5, <2>1
  <2>2. CASE d # c
    <3>1. wire'[d] = wire[d]
      BY <1>5, <2>2
    <3>2. QED
      BY <3>1
  <2>3. QED
    BY <2>1, <2>2
<1>7. QED
  BY <1>6

LEMMA TailKeeps ==
    ASSUME TypeOK, NEW c \in Conns, wire[c] # <<>>,
           wire' = [wire EXCEPT ![c] = Tail(@)]
    PROVE  \A d \in Conns : \A k \in 1 .. Len(wire'[d]) :
             \E j \in 1 .. Len(wire[d]) : wire'[d][k] = wire[d][j]
<1>1. wire[c] \in Seq(Message)
  BY DEF TypeOK
<1>2. Tail(wire[c]) = SubSeq(wire[c], 2, Len(wire[c]))
  BY <1>1, TailIsSubSeq
<1>3. 2 \in 1 .. Len(wire[c]) + 1 /\ Len(wire[c]) \in 0 .. Len(wire[c])
  BY <1>1, EmptySeq
<1>4. wire' = [wire EXCEPT ![c] = SubSeq(@, 2, Len(wire[c]))]
  BY <1>2
<1>5. QED
  BY <1>3, <1>4, PartKeeps

LEMMA DropKeeps ==
    ASSUME TypeOK, NEW c \in Conns, Drop(c)
    PROVE  \A d \in Conns : \A k \in 1 .. Len(wire'[d]) :
             \E j \in 1 .. Len(wire[d]) : wire'[d][k] = wire[d][j]
<1>1. PICK n \in 0 .. Len(wire[c]) :
             wire' = [wire EXCEPT ![c] = SubSeq(@, 1, n)]
  BY DEF Drop
<1>2. 1 \in 1 .. Len(wire[c]) + 1
  BY LenProperties DEF TypeOK
<1>3. QED
  BY <1>1, <1>2, PartKeeps

LEMMA AppendAdds ==
    ASSUME TypeOK, NEW c, NEW m, wire' = [wire EXCEPT ![c] = Append(@, m)]
    PROVE  \A d \in Conns : \A k \in 1 .. Len(wire'[d]) :
             \/ d = c /\ wire'[d][k] = m
             \/ \E j \in 1 .. Len(wire[d]) : wire'[d][k] = wire[d][j]
<1>1. SUFFICES ASSUME NEW d \in Conns, NEW k \in 1 .. Len(wire'[d])
               PROVE  \/ d = c /\ wire'[d][k] = m
                      \/ \E j \in 1 .. Len(wire[d]) : wire'[d][k] = wire[d][j]
  OBVIOUS
<1>2. wire[d] \in Seq(Message)
  BY DEF TypeOK
<1>3. wire'[d] = wire[d] \/ (d = c /\ wire'[d] = Append(wire[d], m))
  BY DEF TypeOK
<1>4. CASE wire'[d] = wire[d]
  BY <1>4
<1>5. CASE d = c /\ wire'[d] = Append(wire[d], m)
  <2>1. /\ Len(wire[d]) \in Nat
        /\ Len(Append(wire[d], m)) = Len(wire[d]) + 1
        /\ \A j \in 1 .. Len(wire[d]) : Append(wire[d], m)[j] = wire[d][j]
        /\ Append(wire[d], m)[Len(wire[d]) + 1] = m
    BY <1>2, AppendProperties, LenProperties
  <2>2. k \in 1 .. Len(wire[d]) \/ k = Len(wire[d]) + 1
    <3>1. k \in 1 .. Len(wire[d]) + 1
      BY <1>5, <2>1
    <3>2. QED
      BY <2>1, <3>1
  <2>3. QED
    BY <1>5, <2>1, <2>2
<1>6. QED
  BY <1>3, <1>4, <1>5

\* What is on the wire carries the id of the call it answers.
LEMMA WireCarries ==
    ASSUME TypeOK, CallsInv, NEW d \in Conns, NEW k \in 1 .. Len(wire[d])
    PROVE  /\ wire[d][k].req \in Requests
           /\ wire[d][k].id # 0 => wire[d][k].id = call[wire[d][k].req].id
<1>1. wire[d][k] \in Message
  BY ElementOfSeq DEF TypeOK
<1>2. QED
  BY <1>1 DEF Message, CallsInv, MessageIds

LEMMA FewerMessages ==
    ASSUME TypeOK, CallsInv,
           \A d \in Conns : \A k \in 1 .. Len(wire'[d]) :
             \E j \in 1 .. Len(wire[d]) : wire'[d][k] = wire[d][j]
    PROVE  \A d \in Conns : \A k \in 1 .. Len(wire'[d]) :
             /\ wire'[d][k].req \in Requests
             /\ wire'[d][k].id # 0 =>
                  wire'[d][k].id = call[wire'[d][k].req].id
<1>1. TAKE d \in Conns
<1>2. TAKE k \in 1 .. Len(wire'[d])
<1>3. PICK j \in 1 .. Len(wire[d]) : wire'[d][k] = wire[d][j]
  OBVIOUS
<1>4. QED
  BY <1>3, WireCarries

LEMMA TailOfWire ==
    ASSUME TypeOK, CallsInv, NEW c \in Conns, wire[c] # <<>>,
           wire' = [wire EXCEPT ![c] = Tail(@)]
    PROVE  \A d \in Conns : \A k \in 1 .. Len(wire'[d]) :
             /\ wire'[d][k].req \in Requests
             /\ wire'[d][k].id # 0 =>
                  wire'[d][k].id = call[wire'[d][k].req].id
  BY TailKeeps, FewerMessages

LEMMA AppendToWire ==
    ASSUME TypeOK, CallsInv, NEW c, NEW m \in Message,
           wire' = [wire EXCEPT ![c] = Append(@, m)],
           m.id # 0 => m.id = call[m.req].id
    PROVE  \A d \in Conns : \A k \in 1 .. Len(wire'[d]) :
             /\ wire'[d][k].req \in Requests
             /\ wire'[d][k].id # 0 =>
                  wire'[d][k].id = call[wire'[d][k].req].id
<1>1. TAKE d \in Conns
<1>2. TAKE k \in 1 .. Len(wire'[d])
<1>3. m.req \in Requests
  BY DEF Message
<1>4. \/ wire'[d][k] = m
      \/ \E j \in 1 .. Len(wire[d]) : wire'[d][k] = wire[d][j]
  BY AppendAdds
<1>5. QED
  BY <1>3, <1>4, WireCarries

LEMMA SendStep ==
    ASSUME TypeOK, CallsInv, NEW r \in Requests, Send(r)
    PROVE  CallsInv'
<1> DEFINE n == lastId + 1
<1>1. /\ call[r] \in Call /\ call[r].id = 0 /\ call[r].stage = "idle"
      /\ n \in Ids /\ lastId \in Nat
  BY DEF TypeOK, CallsInv, CallIds, Started, Send
<1>2. /\ call'[r].id = n /\ call'[r].fut = "pending"
      /\ call'[r].stage = "locking"
  BY <1>1 DEF TypeOK, Send, Call
<1>3. \A q \in Requests : q # r => call'[q] = call[q]
  BY DEF TypeOK, Send
<1>4. \A q \in Requests : q # r => call'[q].id # n
  BY <1>1, <1>3 DEF CallsInv, CallIds, TypeOK
<1>5. futures'[n] = r /\ \A i \in Ids : i # n => futures'[i] = futures[i]
  BY <1>1 DEF TypeOK, Send
<1>6. \A i \in Ids : futures[i] # r
  BY <1>1 DEF CallsInv, FutureIds
<1>7. Active(r)' /\ Started(r)' /\ ~ Ended(r)'
  BY <1>2 DEF Active, Started, Ended, Terminal, Errors
<1>8. \A q \in Requests : q # r => /\ Started(q)' <=> Started(q)
                                   /\ Ended(q)' <=> Ended(q)
                                   /\ Active(q)' <=> Active(q)
  BY <1>3 DEF Active, Started, Ended
<1>9. CallIds'
  BY <1>1, <1>2, <1>3, <1>4, <1>7, <1>8 DEF CallsInv, CallIds, Send
<1>10. MessageIds'
  <2>1. frame'= frame /\ wire' = wire
    BY DEF Send, envVars
  <2>2. \A q \in Requests : frame[q] \in {0, call'[q].id}
    BY <1>1, <1>3 DEF CallsInv, MessageIds
  <2>3. ASSUME NEW c \in Conns, NEW k \in 1 .. Len(wire[c]),
               wire[c][k].id # 0
        PROVE  wire[c][k].id = call'[wire[c][k].req].id
    <3>1. wire[c][k] \in Message
      BY ElementOfSeq DEF TypeOK
    <3>2. wire[c][k].id = call[wire[c][k].req].id
      BY <2>3 DEF CallsInv, MessageIds
    <3>3. wire[c][k].req \in Requests /\ wire[c][k].req # r
      BY <1>1, <2>3, <3>1, <3>2 DEF Message
    <3>4. QED
      BY <1>3, <3>2, <3>3
  <2>4. QED
    BY <2>1, <2>2, <2>3 DEF MessageIds
<1>11. Answers'
  BY <1>2, <1>3 DEF CallsInv, Answers
<1>12. FutureIds'
  <2>1. ASSUME NEW i \in Ids, NEW q \in Requests, futures'[i] = q
        PROVE  call'[q].id = i /\ call'[q].fut \in {"pending", "cancelled"}
    BY <1>2, <1>3, <1>5, <1>6, <2>1 DEF CallsInv, FutureIds
  <2>2. QED
    BY <2>1 DEF FutureIds
<1>13. PendingIsRegistered'
  <2>1. ASSUME NEW q \in Requests, q # r, Active(q)', call'[q].fut = "pending"
        PROVE  futures'[call'[q].id] = q
    <3>1. call[q].id \in Ids /\ futures[call[q].id] = q
      BY <1>3, <1>8, <2>1
      DEF CallsInv, PendingIsRegistered, CallIds, Active, TypeOK, Call
    <3>2. QED
      BY <1>3, <1>4, <1>5, <2>1, <3>1
  <2>2. QED
    BY <1>2, <1>5, <2>1 DEF PendingIsRegistered
<1>14. OnlyCancellationLeaks'
  <2>1. ASSUME NEW i \in Ids, NEW q \in Requests, futures'[i] = q, Ended(q)'
        PROVE  call'[q].stage = "CancelledError"
    BY <1>3, <1>5, <1>7, <1>8, <2>1 DEF CallsInv, OnlyCancellationLeaks
  <2>2. QED
    BY <2>1 DEF OnlyCancellationLeaks
<1>15. QED
  BY <1>9, <1>10, <1>11, <1>12, <1>13, <1>14 DEF CallsInv

\* The frame carries the id of its call.
LEMMA TransmitStep ==
    ASSUME TypeOK, CallsInv, NEW r \in Requests, Transmit(r)
    PROVE  CallsInv'
<1>1. "draining" \in Stages /\ "draining" \notin Terminal
  BY DEF Stages, Terminal, Errors
<1>2. Active(r)
  BY DEF Transmit, Active, Started, Ended, Terminal, Errors
<1>3. \A q \in Requests : CallQuiet(q)
  BY <1>1, <1>2, GoesQuiet DEF Transmit
<1>4. FuturesQuiet
  BY SameFutures DEF Transmit
<1>5. \A q \in Requests : frame'[q] \in {frame[q], call[q].id}
  BY DEF Transmit, MessageId, TypeOK
<1>6. ASSUME NEW c \in Conns, NEW k \in 1 .. Len(wire[c])
      PROVE  wire[c][k].req \in Requests
  <2>1. wire[c][k] \in Message
    BY ElementOfSeq DEF TypeOK
  <2>2. QED
    BY <2>1 DEF Message
<1>7. MessagesQuiet
  BY <1>5, <1>6 DEF CallsInv, MessageIds, MessagesQuiet, Transmit
<1>8. QED
  BY <1>3, <1>4, <1>7, QuietKeepsCalls DEF Quiet, Transmit

\* The future that a response sets is that of the call it answers.
LEMMA DeliverStep ==
    ASSUME TypeOK, CallsInv, NEW c \in Conns, DeliverResponse(c)
    PROVE  CallsInv'
<1> DEFINE m == Head(wire[c])
           r == futures[m.id]
<1>1. wire[c] \in Seq(Message) /\ wire[c] # <<>> /\ m.id # 0
  BY DEF TypeOK, DeliverResponse
<1>2. m = wire[c][1] /\ 1 \in 1 .. Len(wire[c])
  BY <1>1, EmptySeq
<1>3. m.id \in Ids /\ m.req \in Requests /\ m.id = call[m.req].id
  <2>1. m \in Message
    BY <1>1, HeadTailProperties
  <2>2. QED
    BY <1>1, <1>2, <2>1 DEF Message, CallsInv, MessageIds
<1>4. \A d \in Conns : \A k \in 1 .. Len(wire'[d]) :
        /\ wire'[d][k].req \in Requests
        /\ wire'[d][k].id # 0 => wire'[d][k].id = call[wire'[d][k].req].id
  BY <1>1, TailOfWire DEF DeliverResponse
<1>5. CASE r = None
  BY <1>4, <1>5, WireStep DEF DeliverResponse
<1>6. ASSUME r # None
      PROVE  /\ r \in Requests /\ m.req = r
             /\ \A q \in Requests : call[q].id = m.id => q = r
             /\ futures' = [futures EXCEPT ![m.id] = None]
  <2>1. r \in Requests
    BY <1>3, <1>6 DEF TypeOK
  <2>2. call[r].id = m.id
    BY <1>3, <2>1 DEF CallsInv, FutureIds
  <2>3. \A q \in Requests : call[q].id = m.id => q = r
    BY <1>1, <2>1, <2>2 DEF CallsInv, CallIds
  <2>4. QED
    BY <1>3, <1>6, <2>1, <2>3 DEF DeliverResponse
<1>7. CASE r # None /\ call[r].fut # "pending"
  <2>1. UNCHANGED <<lastId, call, frame>>
    BY <1>7 DEF DeliverResponse
  <2>2. FuturesQuiet
    BY <1>3, <1>6, <1>7, <2>1 DEF FuturesQuiet, TypeOK
  <2>3. QED
    BY <1>4, <2>1, <2>2, SameQuiet, QuietKeepsCalls DEF Quiet, MessagesQuiet
<1>8. CASE r # None /\ call[r].fut = "pending"
  <2>1. /\ call' = [call EXCEPT ![r] = [@ EXCEPT !.fut = "done",
                                                !.got = m.req]]
        /\ UNCHANGED <<lastId, frame>>
    BY <1>8 DEF DeliverResponse
  <2>2. /\ call'[r].fut = "done" /\ call'[r].got = r
        /\ call'[r].id = call[r].id /\ call'[r].stage = call[r].stage
    <3>1. call[r] \in Call
      BY <1>6, <1>8 DEF TypeOK
    <3>2. QED
      BY <1>6, <1>8, <2>1, <3>1 DEF TypeOK, Call
  <2>3. \A q \in Requests : q # r => call'[q] = call[q]
    BY <1>6, <1>8, <2>1 DEF TypeOK
  <2>4. \A q \in Requests : /\ call'[q].id = call[q].id
                            /\ Started(q)' <=> Started(q)
                            /\ Ended(q)' <=> Ended(q)
                            /\ Active(q)' <=> Active(q)
    BY <2>2, <2>3 DEF Started, Ended, Active
  <2>5. /\ futures'[m.id] = None
        /\ \A i \in Ids : i # m.id => futures'[i] = futures[i]
    BY <1>3, <1>6, <1>8 DEF TypeOK
  <2>6. CallIds'
    <3>1. Started(r)
      BY <1>1, <1>3, <1>6, <1>8 DEF CallsInv, CallIds
    <3>2. call'[r].fut # "none" /\ lastId' = lastId
      BY <2>1, <2>2
    <3>3. \A q \in Requests : /\ call[q].id \in 0 .. lastId
                              /\ Started(q) <=> call[q].id # 0
                              /\ ~ Started(q) => call[q].fut = "none"
      BY DEF CallsInv, CallIds
    <3>4. \A q \in Requests : ~ Started(q)' => call'[q].fut = "none"
      BY <2>3, <2>4, <3>1, <3>3
    <3>5. \A p, q \in Requests : call[p].id = call[q].id /\ Started(p) => p = q
      BY DEF CallsInv, CallIds
    <3>6. QED
      BY <2>4, <3>2, <3>3, <3>4, <3>5 DEF CallIds
  <2>7. MessageIds'
    BY <1>4, <2>1, <2>4 DEF CallsInv, MessageIds
  <2>8. Answers'
    BY <2>2, <2>3 DEF CallsInv, Answers
  <2>9. FutureIds'
    <3>1. ASSUME NEW i \in Ids, NEW q \in Requests, futures'[i] = q
          PROVE  call'[q].id = i /\ call'[q].fut \in {"pending", "cancelled"}
      <4>1. i # m.id /\ futures[i] = q
        BY <2>5, <3>1
      <4>2. call[q].id = i /\ call[q].fut \in {"pending", "cancelled"}
        BY <4>1 DEF CallsInv, FutureIds
      <4>3. q # r
        BY <1>3, <1>6, <1>8, <4>1, <4>2
      <4>4. QED
        BY <2>3, <4>2, <4>3
    <3>2. QED
      BY <3>1 DEF FutureIds
  <2>10. PendingIsRegistered'
    <3>1. ASSUME NEW q \in Requests, Active(q)', call'[q].fut = "pending"
          PROVE  futures'[call'[q].id] = q
      <4>1. q # r /\ call[q].fut = "pending" /\ Active(q)
        BY <2>2, <2>3, <2>4, <3>1
      <4>2. call[q].id \in Ids /\ futures[call[q].id] = q
        BY <4>1 DEF CallsInv, PendingIsRegistered, CallIds, Active, TypeOK,
                    Call
      <4>3. call[q].id # m.id
        BY <1>6, <1>8, <4>1
      <4>4. QED
        BY <2>4, <2>5, <4>2, <4>3
    <3>2. QED
      BY <3>1 DEF PendingIsRegistered
  <2>11. OnlyCancellationLeaks'
    <3>1. ASSUME NEW i \in Ids, NEW q \in Requests, futures'[i] = q, Ended(q)'
          PROVE  call'[q].stage = "CancelledError"
      <4>1. futures[i] = q /\ Ended(q)
        BY <2>4, <2>5, <3>1
      <4>2. call'[q].stage = call[q].stage
        BY <2>2, <2>3
      <4>3. QED
        BY <4>1, <4>2 DEF CallsInv, OnlyCancellationLeaks
    <3>2. QED
      BY <3>1 DEF OnlyCancellationLeaks
  <2>12. QED
    BY <2>6, <2>7, <2>8, <2>9, <2>10, <2>11 DEF CallsInv
<1>9. QED
  BY <1>5, <1>7, <1>8

LEMMA CallsStep == TypeOK /\ CallsInv /\ [Next]_vars => CallsInv'
<1> SUFFICES ASSUME TypeOK, CallsInv, [Next]_vars PROVE CallsInv'
  OBVIOUS
<1>1. ASSUME NEW r \in Requests, Send(r) PROVE CallsInv'
  BY <1>1, SendStep
<1>2. ASSUME NEW r \in Requests, TakeConnection(r) PROVE CallsInv'
  BY <1>2, ConnStep DEF TakeConnection, genVars, envVars, Waiting
<1>3. ASSUME NEW r \in Requests, StartConnect(r) PROVE CallsInv'
  BY <1>3, GoesStep DEF StartConnect, genVars, envVars, Waiting
<1>4. ASSUME NEW r \in Requests, RefuseConnection(r) PROVE CallsInv'
  BY <1>4, RaiseStep DEF RefuseConnection, genVars, envVars, Waiting, Errors
<1>5. ASSUME NEW r \in Requests, ConnectOk(r) PROVE CallsInv'
  BY <1>5, ConnStep DEF ConnectOk, genVars, envVars, Waiting
<1>6. ASSUME NEW r \in Requests, ConnectRetry(r) PROVE CallsInv'
  BY <1>6, SameStep DEF ConnectRetry, genVars, envVars
<1>7. ASSUME NEW r \in Requests, ConnectFail(r) PROVE CallsInv'
  BY <1>7, RaiseStep DEF ConnectFail, genVars, envVars, Waiting, Errors
<1>8. ASSUME NEW r \in Requests, Transmit(r) PROVE CallsInv'
  BY <1>8, TransmitStep
<1>9. ASSUME NEW r \in Requests, WriteOk(r) PROVE CallsInv'
  BY <1>9, AwaitStep DEF WriteOk, genVars, envVars, Waiting
<1>10. ASSUME NEW r \in Requests, WriteTimeout(r) PROVE CallsInv'
  BY <1>10, RaiseStep DEF WriteTimeout, genVars, envVars, Waiting, Errors
<1>11. ASSUME NEW r \in Requests, WriteFails(r) PROVE CallsInv'
  BY <1>11, GoesStep DEF WriteFails, genVars, envVars, Waiting
<1>12. ASSUME NEW r \in Requests, ThrowDisconnects(r) PROVE CallsInv'
  BY <1>12, GoesStep DEF ThrowDisconnects, genVars, envVars, Waiting
<1>13. ASSUME NEW r \in Requests, Disconnected(r) PROVE CallsInv'
  BY <1>13, AwaitStep DEF Disconnected, genVars, envVars, Waiting
<1>14. ASSUME NEW r \in Requests, ThrowKills(r) PROVE CallsInv'
  BY <1>14, RaiseStep DEF ThrowKills, genVars, envVars, Waiting, Errors
<1>15. ASSUME NEW r \in Requests, ThrowIgnored(r) PROVE CallsInv'
  BY <1>15, AwaitStep DEF ThrowIgnored, genVars, envVars, Waiting
<1>16. ASSUME NEW r \in Requests, ThrowRefused(r) PROVE CallsInv'
  BY <1>16, RaiseStep DEF ThrowRefused, genVars, envVars, Waiting, Errors
<1>17. ASSUME NEW r \in Requests, Resume(r) PROVE CallsInv'
  BY <1>17, AwaitStep DEF Resume, genVars, envVars, Waiting
<1>18. ASSUME NEW r \in Requests, ReadTimeout(r) PROVE CallsInv'
  BY <1>18, InterruptStep DEF ReadTimeout, genVars, envVars, Waiting
<1>19. ASSUME NEW r \in Requests, Expire(r) PROVE CallsInv'
  BY <1>19, RaiseStep DEF Expire, genVars, envVars, Waiting, Errors
<1>20. ASSUME NEW r \in Requests, Cancel(r) PROVE CallsInv'
  BY <1>20, InterruptStep DEF Cancel, genVars, envVars, Waiting
<1>21. ASSUME NEW r \in Requests, CancelInGenerator(r) PROVE CallsInv'
  BY <1>21, AbandonStep DEF CancelInGenerator, genVars, envVars, Waiting,
     Abandon
<1>22. ASSUME NEW r \in Requests, Unsubscribe(r) PROVE CallsInv'
  BY <1>22, SameStep DEF Unsubscribe, genVars, envVars
<1>23. ASSUME NEW r \in Requests, Serve(r) PROVE CallsInv'
  <2> DEFINE m == [id |-> frame[r], req |-> r]
  <2>1. m \in Message /\ (m.id # 0 => m.id = call[m.req].id)
    BY DEF Message, TypeOK, CallsInv, MessageIds
  <2>2. UNCHANGED <<lastId, futures, call, frame>>
    BY <1>23 DEF Serve
  <2>3. CASE wire' = wire
    BY <2>2, <2>3, SameStep
  <2>4. CASE wire' = [wire EXCEPT ![call[r].conn] = Append(@, m)]
    BY <2>1, <2>2, <2>4, AppendToWire, WireStep
  <2>5. QED
    BY <1>23, <2>3, <2>4 DEF Serve
<1>24. ASSUME NEW r \in Requests, Notify(r) PROVE CallsInv'
  <2> DEFINE m == [id |-> 0, req |-> r]
  <2>1. m \in Message /\ (m.id # 0 => m.id = call[m.req].id)
    BY DEF Message
  <2>2. wire' = [wire EXCEPT ![call[r].conn] = Append(@, m)]
    BY <1>24 DEF Notify
  <2>3. QED
    BY <1>24, <2>1, <2>2, AppendToWire, WireStep DEF Notify
<1>25. ASSUME NEW c \in Conns, DeliverResponse(c) PROVE CallsInv'
  BY <1>25, DeliverStep
<1>26. ASSUME NEW c \in Conns, DeliverNote(c) PROVE CallsInv'
  BY <1>26, TailOfWire, WireStep DEF DeliverNote, genVars, envVars
<1>27. ASSUME NEW c \in Conns, Awaken(c) PROVE CallsInv'
  BY <1>27, SameStep DEF Awaken, genVars, envVars
<1>28. ASSUME NEW c \in Conns, ReceiverEnds(c) PROVE CallsInv'
  BY <1>28, SameStep DEF ReceiverEnds, genVars, envVars
<1>29. ASSUME NEW c \in Conns, Drop(c) PROVE CallsInv'
  BY <1>29, DropKeeps, FewerMessages, WireStep DEF Drop
<1>30. ASSUME CloseOpen PROVE CallsInv'
  BY <1>30, ClearAllStep DEF CloseOpen, genVars, envVars
<1>31. ASSUME CloseIdle PROVE CallsInv'
  BY <1>31, ClearAllStep DEF CloseIdle, genVars, envVars
<1>32. ASSUME CloseRefused PROVE CallsInv'
  BY <1>32, ClearAllStep DEF CloseRefused, genVars, envVars
<1>33. ASSUME CloseEnd PROVE CallsInv'
  BY <1>33, SameStep DEF CloseEnd, genVars, envVars
<1>34. CASE UNCHANGED vars
  BY <1>34, SameStep DEF vars, genVars, envVars
<1>35. QED
  BY <1>1, <1>2, <1>3, <1>4, <1>5, <1>6, <1>7, <1>8, <1>9, <1>10, <1>11,
     <1>12, <1>13, <1>14, <1>15, <1>16, <1>17, <1>18, <1>19, <1>20, <1>21,
     <1>22, <1>23, <1>24, <1>25, <1>26, <1>27, <1>28, <1>29, <1>30, <1>31,
     <1>32, <1>33, <1>34
     DEF Next, Advance, Receive, Close

\* Every call returns the answer to its own request, every pending call can be
\* answered, and only cancelled calls leave something in _futures.
THEOREM CallsCorrect ==
    Spec => [](ResponseMatches /\ NoStrayFutures)
<1>1. CallsInv => ResponseMatches
  BY DEF CallsInv, Answers, ResponseMatches
<1>2. CallsInv => NoStrayFutures
  BY DEF CallsInv, NoStrayFutures
<1>3. QED
  BY <1>1, <1>2, CallsInit, CallsStep, TypeInit, TypeStep, PTL DEF Spec

-----------------------------------------------------------------------------
(* Steps of one call.                                                      *)

\* r goes on to one of the stages S; nothing happens to the other calls.
Moves(r, S) ==
    /\ call[r].stage \in Waiting
    /\ call'[r].stage \in S
    /\ \A q \in Requests : CallQuiet(q)
    /\ \A q \in Requests : q # r => call'[q] = call[q]

Keeps(r) == call'[r].conn = call[r].conn /\ call'[r].fut = call[r].fut

LEMMA GoesMoves ==
    ASSUME TypeOK, NEW r \in Requests, call[r].stage \in Waiting,
           NEW s \in Stages, s # "idle", Goes(r, s),
           s = "result" => call[r].fut = "done",
           \/ s \in {"result", "CancelledError"}
           \/ s \notin Terminal
           \/ futures'[call[r].id] = None
    PROVE  Moves(r, {s}) /\ Keeps(r)
<1>1. \A q \in Requests : CallQuiet(q)
  BY WaitingIsActive, GoesQuiet
<1>2. /\ call'[r].stage = s /\ Keeps(r)
      /\ \A q \in Requests : q # r => call'[q] = call[q]
  BY DEF Goes, TypeOK, Call, Keeps
<1>3. QED
  BY <1>1, <1>2 DEF Moves

LEMMA WaitMoves ==
    ASSUME TypeOK, NEW r \in Requests, call[r].stage \in Waiting,
           NEW s \in Waiting, Goes(r, s)
    PROVE  Moves(r, {s}) /\ Keeps(r)
<1>1. s \in Stages /\ s # "idle" /\ s # "result" /\ s \notin Terminal
  BY DEF Waiting, Stages, Terminal, Errors
<1>2. QED
  BY <1>1, GoesMoves

LEMMA RaiseMoves ==
    ASSUME TypeOK, CallsInv, NEW r \in Requests, call[r].stage \in Waiting,
           NEW e \in Errors, Raise(r, e)
    PROVE  /\ Moves(r, {e, "KeyError"}) /\ Keeps(r)
           /\ futures'[call[r].id] = None
           /\ \A i \in Ids : futures'[i] \in {futures[i], None}
           /\ futures[call[r].id] = None => call'[r].stage = "KeyError"
<1>1. \A q \in Requests : CallQuiet(q)
  BY WaitingIsActive, RaiseQuiet
<1>2. PICK s \in {e, "KeyError"} :
        Goes(r, s) /\ (futures[call[r].id] = None => s = "KeyError")
  BY DEF Raise
<1>3. /\ call'[r].stage = s /\ Keeps(r)
      /\ \A q \in Requests : q # r => call'[q] = call[q]
  BY <1>2 DEF Goes, TypeOK, Call, Keeps
<1>4. call[r].id \in Ids
  BY WaitingIsActive DEF TypeOK, CallsInv, CallIds, Active, Call
<1>5. /\ futures'[call[r].id] = None
      /\ \A i \in Ids : futures'[i] \in {futures[i], None}
  BY <1>4 DEF Raise, TypeOK
<1>6. QED
  BY <1>1, <1>2, <1>3, <1>5 DEF Moves

LEMMA AwaitMoves ==
    ASSUME TypeOK, NEW r \in Requests, call[r].stage \in Waiting,
           AwaitFuture(r)
    PROVE  /\ Moves(r, {"reading", "result", "CancelledError"}) /\ Keeps(r)
           /\ call'[r].stage = "reading" => call'[r].fut = "pending"
<1>1. \A q \in Requests : CallQuiet(q)
  BY WaitingIsActive, AwaitQuiet
<1>2. PICK s \in {"reading", "result", "CancelledError"} :
        Goes(r, s) /\ (s = "reading" => call[r].fut = "pending")
  BY DEF AwaitFuture
<1>3. /\ call'[r].stage = s /\ Keeps(r)
      /\ \A q \in Requests : q # r => call'[q] = call[q]
  BY <1>2 DEF Goes, TypeOK, Call, Keeps
<1>4. QED
  BY <1>1, <1>2, <1>3 DEF Moves, Keeps

LEMMA InterruptMoves ==
    ASSUME TypeOK, NEW r \in Requests, call[r].stage \in Waiting,
           NEW s \in {"expired", "CancelledError"}, Interrupt(r, s)
    PROVE  /\ Moves(r, {s}) /\ call'[r].conn = call[r].conn
           /\ call'[r].fut \in {call[r].fut, "cancelled"}
<1>1. \A q \in Requests : CallQuiet(q)
  BY WaitingIsActive, InterruptQuiet
<1>2. /\ call'[r].stage = s /\ call'[r].conn = call[r].conn
      /\ call'[r].fut \in {call[r].fut, "cancelled"}
      /\ \A q \in Requests : q # r => call'[q] = call[q]
  BY DEF Interrupt, TypeOK, Call
<1>3. QED
  BY <1>1, <1>2 DEF Moves

LEMMA ConnMoves ==
    ASSUME TypeOK, NEW r \in Requests, call[r].stage \in Waiting,
           NEW n, NEW s \in Waiting,
           call' = [call EXCEPT ![r] = [@ EXCEPT !.conn = n, !.stage = s]]
    PROVE  Moves(r, {s}) /\ call'[r].conn = n /\ call'[r].fut = call[r].fut
<1>1. s # "idle" /\ s \notin Terminal /\ s # "result"
  BY DEF Waiting, Terminal, Errors
<1>2. \A q \in Requests : q # r => call'[q] = call[q]
  BY DEF TypeOK
<1>3. call'[r] = [call[r] EXCEPT !.conn = n, !.stage = s] /\ call[r] \in Call
  BY DEF TypeOK
<1>4. CallQuiet(r) /\ call'[r].stage = s
  <2>1. Active(r) /\ call'[r].stage = s
    BY <1>3, WaitingIsActive DEF Call
  <2>2. /\ call'[r].id = call[r].id /\ call'[r].got = call[r].got
        /\ call'[r].fut = call[r].fut
    BY <1>3 DEF Call
  <2>3. QED
    BY <1>1, <2>1, <2>2 DEF CallQuiet, Active, Started, Ended
<1>5. ASSUME NEW q \in Requests, q # r PROVE CallQuiet(q)
  BY <1>2, <1>5 DEF CallQuiet, Ended, Terminal
<1>6. call'[r].conn = n /\ call'[r].fut = call[r].fut
  BY <1>3 DEF Call
<1>7. QED
  BY <1>2, <1>4, <1>5, <1>6 DEF Moves

LEMMA AbandonMoves ==
    ASSUME TypeOK, NEW r \in Requests, call[r].stage \in Waiting, Abandon(r)
    PROVE  Moves(r, {"CancelledError"}) /\ Keeps(r)
<1>1. "CancelledError" \in Stages
  BY DEF Stages, Errors
<1>2. QED
  BY <1>1, GoesMoves DEF Abandon

\* Steps that change the stage of no call.
StagesStay ==
    \A q \in Requests :
      /\ call'[q].stage = call[q].stage
      /\ call[q].stage = "result" => call'[q].got = call[q].got

LEMMA SameStays == ASSUME UNCHANGED call PROVE StagesStay
  BY DEF StagesStay

LEMMA ClearAllStays ==
    ASSUME TypeOK, CallsInv, ClearAll
    PROVE  StagesStay /\ \A q \in Requests : CallQuiet(q)
<1>1. \A q \in Requests : call'[q] \in {call[q], [call[q] EXCEPT !.fut = "cancelled"]}
  BY DEF ClearAll, TypeOK
<1>2. \A q \in Requests : call[q] \in Call
  BY DEF TypeOK
<1>3. QED
  BY <1>1, <1>2, ClearAllQuiet DEF StagesStay, Call

\* A response leaves alone what a call has returned, and sets the future of the
\* call it answers.
LEMMA DeliverStays ==
    ASSUME TypeOK, CallsInv, NEW c \in Conns, DeliverResponse(c)
    PROVE  /\ StagesStay
           /\ wire[c] # <<>> /\ Head(wire[c]).req \in Requests
           /\ \A q \in Requests :
                \/ call'[q] = call[q]
                \/ /\ q = Head(wire[c]).req /\ call[q].fut = "pending"
                   /\ call'[q].fut = "done" /\ recv'[c] = "sleeping"
                   /\ call'[q].conn = call[q].conn
                   /\ call'[q].id = call[q].id
<1> DEFINE m == Head(wire[c])
           r == futures[m.id]
<1>1. wire[c] \in Seq(Message) /\ wire[c] # <<>> /\ m.id # 0
  BY DEF TypeOK, DeliverResponse
<1>2. m \in Message /\ m = wire[c][1] /\ 1 \in 1 .. Len(wire[c])
  BY <1>1, EmptySeq, HeadTailProperties
<1>3. m.id \in Ids /\ m.req \in Requests /\ m.id = call[m.req].id
  BY <1>1, <1>2, WireCarries DEF Message
<1>4. \A q \in Requests : call[q] \in Call
  BY DEF TypeOK
<1>5. CASE call' = call
  BY <1>1, <1>3, <1>5 DEF StagesStay
<1>6. CASE /\ r # None /\ call[r].fut = "pending"
           /\ call' = [call EXCEPT ![r] = [@ EXCEPT !.fut = "done",
                                                    !.got = m.req]]
           /\ recv' = [recv EXCEPT ![c] = "sleeping"]
  <2>1. r \in Requests /\ r = m.req
    <3>1. r \in Requests
      BY <1>3, <1>6 DEF TypeOK
    <3>2. call[r].id = call[m.req].id /\ Started(r)
      BY <1>1, <1>3, <3>1 DEF CallsInv, FutureIds, CallIds
    <3>3. QED
      BY <1>3, <3>1, <3>2 DEF CallsInv, CallIds
  <2>2. /\ call'[r].stage = call[r].stage /\ call'[r].fut = "done"
        /\ call'[r].conn = call[r].conn /\ call'[r].id = call[r].id
        /\ \A q \in Requests : q # r => call'[q] = call[q]
    <3> HIDE DEF r, m
    <3>1. QED
      BY <1>6, <2>1, Answered
  <2>3. call[r].stage # "result"
    BY <1>6, <2>1 DEF CallsInv, Answers
  <2>4. QED
    <3>1. \A q \in Requests : /\ call'[q].stage = call[q].stage
                              /\ call[q].stage = "result" => call'[q].got = call[q].got
      BY <2>1, <2>2, <2>3
    <3>2. StagesStay
      BY <3>1 DEF StagesStay
    <3>3. recv'[c] = "sleeping"
      BY <1>6 DEF TypeOK
    <3>4. call[m.req].fut = "pending"
      BY <1>6, <2>1
    <3> HIDE DEF r
    <3>5. QED
      BY <1>1, <1>3, <2>1, <2>2, <3>2, <3>3, <3>4
<1>7. QED
  BY <1>5, <1>6 DEF DeliverResponse

-----------------------------------------------------------------------------
(* The promise of RpcCall.                                                 *)

\* What the server has executed: every answer and notification on its way, and
\* every answer a call holds; and it has been sent.
ServedInv ==
    /\ \A c \in Conns : \A k \in 1 .. Len(wire[c]) : wire[c][k].req \in served
    /\ \A r \in Requests : call[r].fut = "done" => r \in served
    /\ \A r \in served : frame[r] # 0

RpcStep ==
    \/ /\ UNCHANGED <<phase, answer>>
       /\ \/ UNCHANGED served
          \/ \E r \in Requests : /\ phase[r] # "idle"
                                 /\ r \notin served
                                 /\ served' = served \cup {r}
    \/ /\ UNCHANGED served
       /\ \E r \in Requests :
            \/ /\ phase[r] = "idle"
               /\ phase' = [phase EXCEPT ![r] = "waiting"]
               /\ UNCHANGED answer
            \/ /\ phase[r] = "waiting"
               /\ r \in served
               /\ phase' = [phase EXCEPT ![r] = "answered"]
               /\ answer' = [answer EXCEPT ![r] = r]
            \/ /\ phase[r] = "waiting"
               /\ phase' = [phase EXCEPT ![r] = "failed"]
               /\ UNCHANGED answer

PhaseOf(stage) == IF stage = "idle" THEN "idle"
                  ELSE IF stage \notin Terminal THEN "waiting"
                  ELSE IF stage = "result" THEN "answered" ELSE "failed"

LEMMA PhaseIs ==
    /\ phase = [r \in Requests |-> PhaseOf(call[r].stage)]
    /\ phase' = [r \in Requests |-> PhaseOf(call'[r].stage)]
  BY DEF phase, PhaseOf, Started, Ended

LEMMA StaysRpc ==
    ASSUME StagesStay PROVE UNCHANGED <<phase, answer>>
<1>1. UNCHANGED phase
  BY PhaseIs DEF StagesStay
<1>2. UNCHANGED answer
  BY DEF StagesStay, answer
<1>3. QED
  BY <1>1, <1>2

LEMMA MovesRpc ==
    ASSUME TypeOK, TypeOK', CallsInv, ServedInv,
           NEW r \in Requests, NEW S, Moves(r, S), UNCHANGED served
    PROVE  RpcStep
<1>1. phase[r] = "waiting"
  BY PhaseIs DEF PhaseOf, Moves, Waiting, Terminal, Errors
<1>2. \A q \in Requests : q # r => PhaseOf(call'[q].stage) = PhaseOf(call[q].stage)
  BY DEF Moves
<1>3. ASSUME NEW p, PhaseOf(call'[r].stage) = p
      PROVE  phase' = [phase EXCEPT ![r] = p]
  BY <1>2, <1>3, PhaseIs
<1>4. CASE call'[r].stage \in Waiting
  <2>1. PhaseOf(call'[r].stage) = "waiting"
    BY <1>4 DEF PhaseOf, Waiting, Terminal, Errors
  <2>2. UNCHANGED phase
    BY <1>1, <1>2, <2>1, PhaseIs
  <2>3. UNCHANGED answer
    BY <1>4 DEF answer, Moves, CallQuiet, Waiting
  <2>4. QED
    BY <2>2, <2>3 DEF RpcStep
<1>5. CASE call'[r].stage = "result"
  <2>1. PhaseOf(call'[r].stage) = "answered"
    BY <1>5 DEF PhaseOf, Terminal
  <2>2. call[r].fut = "done"
    BY <1>5 DEF Moves, CallQuiet, Ended, Waiting, Terminal, Errors
  <2>3. r \in served /\ call'[r].got = r
    BY <2>2 DEF ServedInv, CallsInv, Answers, Moves, CallQuiet
  <2>4. answer' = [answer EXCEPT ![r] = r]
    <3>1. \A q \in Requests : q # r => /\ call'[q].stage = call[q].stage
                                       /\ call'[q].got = call[q].got
      BY DEF Moves, CallQuiet
    <3>2. QED
      BY <1>5, <2>3, <3>1 DEF answer
  <2>5. QED
    BY <1>1, <1>3, <2>1, <2>3, <2>4 DEF RpcStep
<1>6. CASE call'[r].stage \in Errors
  <2>1. PhaseOf(call'[r].stage) = "failed"
    BY <1>6 DEF PhaseOf, Terminal, Errors
  <2>2. UNCHANGED answer
    BY <1>6 DEF answer, Moves, CallQuiet, Waiting, Errors
  <2>3. QED
    BY <1>1, <1>3, <2>1, <2>2 DEF RpcStep
<1>7. call'[r].stage # "idle" /\ call'[r].stage \in Stages
  BY DEF Moves, CallQuiet, Waiting, TypeOK, Call
<1>8. QED
  BY <1>4, <1>5, <1>6, <1>7 DEF Stages, Waiting

\* No answer appears but by a response; no message but of what is served.
LEMMA KeepsServed ==
    ASSUME ServedInv, UNCHANGED served,
           \A q \in Requests : CallQuiet(q),
           \A q \in served : frame'[q] # 0,
           \A d \in Conns : \A k \in 1 .. Len(wire'[d]) :
             \E j \in 1 .. Len(wire[d]) : wire'[d][k] = wire[d][j]
    PROVE  ServedInv'
<1>1. \A c \in Conns : \A k \in 1 .. Len(wire'[c]) : wire'[c][k].req \in served
  BY DEF ServedInv
<1>2. \A r \in Requests : call'[r].fut = "done" => r \in served
  BY DEF ServedInv, CallQuiet
<1>3. QED
  BY <1>1, <1>2 DEF ServedInv

RpcKept == ServedInv' /\ RpcStep

LEMMA MovesKept ==
    ASSUME TypeOK, TypeOK', CallsInv, ServedInv,
           NEW r \in Requests, NEW S, Moves(r, S), UNCHANGED envVars
    PROVE  RpcKept
<1>1. \A q \in Requests : CallQuiet(q)
  BY DEF Moves
<1>2. UNCHANGED served /\ UNCHANGED wire /\ UNCHANGED frame
  BY DEF envVars
<1>3. ServedInv'
  BY <1>1, <1>2, KeepsServed DEF ServedInv
<1>4. QED
  BY <1>2, <1>3, MovesRpc DEF RpcKept

LEMMA StaysKept ==
    ASSUME TypeOK, CallsInv, ServedInv, StagesStay,
           \A q \in Requests : CallQuiet(q), UNCHANGED envVars
    PROVE  RpcKept
<1>1. UNCHANGED served /\ UNCHANGED wire /\ UNCHANGED frame
  BY DEF envVars
<1>2. ServedInv'
  BY <1>1, KeepsServed DEF ServedInv
<1>3. QED
  BY <1>1, <1>2, StaysRpc DEF RpcKept, RpcStep

LEMMA SendRpc ==
    ASSUME TypeOK, CallsInv, ServedInv, NEW r \in Requests, Send(r)
    PROVE  RpcKept
<1>1. /\ call[r] \in Call /\ call[r].stage = "idle"
      /\ UNCHANGED <<frame, served, wire>>
  BY DEF TypeOK, Send, envVars
<1>2. /\ call'[r].stage = "locking" /\ call'[r].fut = "pending"
      /\ \A q \in Requests : q # r => call'[q] = call[q]
  BY <1>1 DEF TypeOK, Send, Call
<1>3. phase[r] = "idle" /\ phase' = [phase EXCEPT ![r] = "waiting"]
  <2>1. PhaseOf("idle") = "idle" /\ PhaseOf("locking") = "waiting"
    BY DEF PhaseOf, Terminal, Errors
  <2>2. QED
    BY <1>1, <1>2, <2>1, PhaseIs
<1>4. UNCHANGED answer
  BY <1>1, <1>2 DEF answer
<1>5. ServedInv'
  BY <1>1, <1>2 DEF ServedInv
<1>6. QED
  BY <1>1, <1>3, <1>4, <1>5 DEF RpcKept, RpcStep

LEMMA ServeRpc ==
    ASSUME TypeOK, CallsInv, ServedInv, NEW r \in Requests, Serve(r)
    PROVE  RpcKept
<1>1. /\ frame[r] # 0 /\ r \notin served /\ served' = served \cup {r}
      /\ UNCHANGED <<call, frame>>
  BY DEF Serve
<1>2. phase[r] # "idle"
  <2>1. Started(r)
    BY <1>1 DEF TypeOK, CallsInv, CallIds, MessageIds
  <2>2. QED
    BY <2>1 DEF phase
<1>3. \A d \in Conns : \A k \in 1 .. Len(wire'[d]) : wire'[d][k].req \in served'
  <2>1. TAKE d \in Conns
  <2>2. TAKE k \in 1 .. Len(wire'[d])
  <2>3. CASE wire' = wire
    BY <1>1, <2>3 DEF ServedInv
  <2>4. CASE wire' = [wire EXCEPT ![call[r].conn] =
                        Append(@, [id |-> frame[r], req |-> r])]
    <3>1. \/ wire'[d][k] = [id |-> frame[r], req |-> r]
          \/ \E j \in 1 .. Len(wire[d]) : wire'[d][k] = wire[d][j]
      BY <2>4, AppendAdds
    <3>2. QED
      BY <1>1, <3>1 DEF ServedInv
  <2>5. QED
    BY <2>3, <2>4 DEF Serve
<1>4. ServedInv'
  BY <1>1, <1>3 DEF ServedInv
<1>5. UNCHANGED <<phase, answer>>
  BY <1>1, SameStays, StaysRpc
<1>6. QED
  BY <1>1, <1>2, <1>4, <1>5 DEF RpcKept, RpcStep

LEMMA NotifyRpc ==
    ASSUME TypeOK, CallsInv, ServedInv, NEW r \in Requests, Notify(r)
    PROVE  RpcKept
<1>1. r \in served /\ UNCHANGED <<call, frame, served>>
  BY DEF Notify
<1>2. \A d \in Conns : \A k \in 1 .. Len(wire'[d]) : wire'[d][k].req \in served
  <2>1. TAKE d \in Conns
  <2>2. TAKE k \in 1 .. Len(wire'[d])
  <2>3. \/ wire'[d][k] = [id |-> 0, req |-> r]
        \/ \E j \in 1 .. Len(wire[d]) : wire'[d][k] = wire[d][j]
    BY AppendAdds DEF Notify
  <2>4. QED
    BY <1>1, <2>3 DEF ServedInv
<1>3. ServedInv'
  BY <1>1, <1>2 DEF ServedInv
<1>4. UNCHANGED <<phase, answer>>
  BY <1>1, SameStays, StaysRpc
<1>5. QED
  BY <1>1, <1>3, <1>4 DEF RpcKept, RpcStep

LEMMA TransmitRpc ==
    ASSUME TypeOK, TypeOK', CallsInv, ServedInv, NEW r \in Requests, Transmit(r)
    PROVE  RpcKept
<1>1. Moves(r, {"draining"})
  BY WaitMoves DEF Transmit, Waiting
<1>2. UNCHANGED served /\ UNCHANGED wire
  BY DEF Transmit
<1>3. call[r].id # 0
  BY DEF Transmit, CallsInv, CallIds, Started
<1>4. \A q \in served : frame'[q] # 0
  BY <1>3 DEF Transmit, MessageId, ServedInv, TypeOK
<1>5. ServedInv'
  BY <1>1, <1>2, <1>4, KeepsServed DEF Moves
<1>6. QED
  BY <1>1, <1>2, <1>5, MovesRpc DEF RpcKept

LEMMA DeliverRpc ==
    ASSUME TypeOK, CallsInv, ServedInv, NEW c \in Conns, DeliverResponse(c)
    PROVE  RpcKept
<1>1. UNCHANGED <<served, frame>> /\ wire' = [wire EXCEPT ![c] = Tail(@)]
  BY DEF DeliverResponse
<1>2. wire[c] # <<>> /\ Head(wire[c]) = wire[c][1] /\ 1 \in 1 .. Len(wire[c])
  <2>1. wire[c] \in Seq(Message) /\ wire[c] # <<>>
    BY DEF TypeOK, DeliverResponse
  <2>2. QED
    BY <2>1, EmptySeq
<1>3. Head(wire[c]).req \in served
  BY <1>2 DEF ServedInv
<1>4. \A q \in Requests : call'[q].fut = "done" => q \in served
  BY <1>3, DeliverStays DEF ServedInv
<1>5. \A d \in Conns : \A k \in 1 .. Len(wire'[d]) :
        \E j \in 1 .. Len(wire[d]) : wire'[d][k] = wire[d][j]
  BY <1>1, <1>2, TailKeeps
<1>6. ServedInv'
  <2>1. \A d \in Conns : \A k \in 1 .. Len(wire'[d]) : wire'[d][k].req \in served
    <3>1. \A d \in Conns : \A j \in 1 .. Len(wire[d]) : wire[d][j].req \in served
      BY DEF ServedInv
    <3>2. TAKE d \in Conns
    <3>3. TAKE k \in 1 .. Len(wire'[d])
    <3>4. PICK j \in 1 .. Len(wire[d]) : wire'[d][k] = wire[d][j]
      BY <1>5
    <3>5. QED
      BY <3>1, <3>4
  <2>2. QED
    BY <1>1, <1>4, <2>1 DEF ServedInv
<1>7. UNCHANGED <<phase, answer>>
  BY DeliverStays, StaysRpc
<1>8. QED
  BY <1>1, <1>6, <1>7 DEF RpcKept, RpcStep

\* Fewer messages, and nothing else that RpcCall sees.
LEMMA FewerRpc ==
    ASSUME TypeOK, CallsInv, ServedInv, UNCHANGED <<call, frame, served>>,
           \A d \in Conns : \A k \in 1 .. Len(wire'[d]) :
             \E j \in 1 .. Len(wire[d]) : wire'[d][k] = wire[d][j]
    PROVE  RpcKept
<1>1. ServedInv'
  BY SameQuiet, KeepsServed DEF ServedInv
<1>2. UNCHANGED <<phase, answer>>
  BY SameStays, StaysRpc
<1>3. QED
  BY <1>1, <1>2 DEF RpcKept, RpcStep

LEMMA SameRpc ==
    ASSUME TypeOK, CallsInv, ServedInv, UNCHANGED <<call, envVars>>
    PROVE  RpcKept
  BY SameQuiet, SameStays, StaysKept

LEMMA RpcSteps ==
    TypeOK /\ TypeOK' /\ CallsInv /\ ServedInv /\ [Next]_vars => RpcKept
<1> SUFFICES ASSUME TypeOK, TypeOK', CallsInv, ServedInv, [Next]_vars
             PROVE  RpcKept
  OBVIOUS
<1>1. ASSUME NEW r \in Requests, Send(r) PROVE RpcKept
  BY <1>1, SendRpc
<1>2. ASSUME NEW r \in Requests, TakeConnection(r) PROVE RpcKept
  BY <1>2, ConnMoves, MovesKept DEF TakeConnection, Waiting
<1>3. ASSUME NEW r \in Requests, StartConnect(r) PROVE RpcKept
  BY <1>3, WaitMoves, MovesKept DEF StartConnect, Waiting
<1>4. ASSUME NEW r \in Requests, RefuseConnection(r) PROVE RpcKept
  BY <1>4, RaiseMoves, MovesKept DEF RefuseConnection, Waiting, Errors
<1>5. ASSUME NEW r \in Requests, ConnectOk(r) PROVE RpcKept
  BY <1>5, ConnMoves, MovesKept DEF ConnectOk, Waiting
<1>6. ASSUME NEW r \in Requests, ConnectRetry(r) PROVE RpcKept
  BY <1>6, SameRpc DEF ConnectRetry
<1>7. ASSUME NEW r \in Requests, ConnectFail(r) PROVE RpcKept
  BY <1>7, RaiseMoves, MovesKept DEF ConnectFail, Waiting, Errors
<1>8. ASSUME NEW r \in Requests, Transmit(r) PROVE RpcKept
  BY <1>8, TransmitRpc
<1>9. ASSUME NEW r \in Requests, WriteOk(r) PROVE RpcKept
  BY <1>9, AwaitMoves, MovesKept DEF WriteOk, Waiting
<1>10. ASSUME NEW r \in Requests, WriteTimeout(r) PROVE RpcKept
  BY <1>10, RaiseMoves, MovesKept DEF WriteTimeout, Waiting, Errors
<1>11. ASSUME NEW r \in Requests, WriteFails(r) PROVE RpcKept
  BY <1>11, WaitMoves, MovesKept DEF WriteFails, Waiting
<1>12. ASSUME NEW r \in Requests, ThrowDisconnects(r) PROVE RpcKept
  BY <1>12, WaitMoves, MovesKept DEF ThrowDisconnects, Waiting
<1>13. ASSUME NEW r \in Requests, Disconnected(r) PROVE RpcKept
  BY <1>13, AwaitMoves, MovesKept DEF Disconnected, Waiting
<1>14. ASSUME NEW r \in Requests, ThrowKills(r) PROVE RpcKept
  BY <1>14, RaiseMoves, MovesKept DEF ThrowKills, Waiting, Errors
<1>15. ASSUME NEW r \in Requests, ThrowIgnored(r) PROVE RpcKept
  BY <1>15, AwaitMoves, MovesKept DEF ThrowIgnored, Waiting
<1>16. ASSUME NEW r \in Requests, ThrowRefused(r) PROVE RpcKept
  BY <1>16, RaiseMoves, MovesKept DEF ThrowRefused, Waiting, Errors
<1>17. ASSUME NEW r \in Requests, Resume(r) PROVE RpcKept
  BY <1>17, AwaitMoves, MovesKept DEF Resume, Waiting
<1>18. ASSUME NEW r \in Requests, ReadTimeout(r) PROVE RpcKept
  BY <1>18, InterruptMoves, MovesKept DEF ReadTimeout, Waiting
<1>19. ASSUME NEW r \in Requests, Expire(r) PROVE RpcKept
  BY <1>19, RaiseMoves, MovesKept DEF Expire, Waiting, Errors
<1>20. ASSUME NEW r \in Requests, Cancel(r) PROVE RpcKept
  BY <1>20, InterruptMoves, MovesKept DEF Cancel, Waiting
<1>21. ASSUME NEW r \in Requests, CancelInGenerator(r) PROVE RpcKept
  BY <1>21, AbandonMoves, MovesKept DEF CancelInGenerator, Waiting
<1>22. ASSUME NEW r \in Requests, Unsubscribe(r) PROVE RpcKept
  BY <1>22, SameRpc DEF Unsubscribe
<1>23. ASSUME NEW r \in Requests, Serve(r) PROVE RpcKept
  BY <1>23, ServeRpc
<1>24. ASSUME NEW r \in Requests, Notify(r) PROVE RpcKept
  BY <1>24, NotifyRpc
<1>25. ASSUME NEW c \in Conns, DeliverResponse(c) PROVE RpcKept
  BY <1>25, DeliverRpc
<1>26. ASSUME NEW c \in Conns, DeliverNote(c) PROVE RpcKept
  BY <1>26, TailKeeps, FewerRpc DEF DeliverNote
<1>27. ASSUME NEW c \in Conns, Awaken(c) PROVE RpcKept
  BY <1>27, SameRpc DEF Awaken
<1>28. ASSUME NEW c \in Conns, ReceiverEnds(c) PROVE RpcKept
  BY <1>28, SameRpc DEF ReceiverEnds
<1>29. ASSUME NEW c \in Conns, Drop(c) PROVE RpcKept
  BY <1>29, DropKeeps, FewerRpc DEF Drop
<1>30. ASSUME CloseOpen PROVE RpcKept
  BY <1>30, ClearAllStays, StaysKept DEF CloseOpen
<1>31. ASSUME CloseIdle PROVE RpcKept
  BY <1>31, ClearAllStays, StaysKept DEF CloseIdle
<1>32. ASSUME CloseRefused PROVE RpcKept
  BY <1>32, ClearAllStays, StaysKept DEF CloseRefused
<1>33. ASSUME CloseEnd PROVE RpcKept
  BY <1>33, SameRpc DEF CloseEnd
<1>34. CASE UNCHANGED vars
  BY <1>34, SameRpc DEF vars
<1>35. QED
  BY <1>1, <1>2, <1>3, <1>4, <1>5, <1>6, <1>7, <1>8, <1>9, <1>10, <1>11,
     <1>12, <1>13, <1>14, <1>15, <1>16, <1>17, <1>18, <1>19, <1>20, <1>21,
     <1>22, <1>23, <1>24, <1>25, <1>26, <1>27, <1>28, <1>29, <1>30, <1>31,
     <1>32, <1>33, <1>34
     DEF Next, Advance, Receive, Close

\* websocket.py keeps the promise of base.py: however many calls, connections
\* and timeouts there are, send() returns the answer to its own request, executed
\* by then and executed once, or raises.
THEOREM WebSocketRefines == Spec => ImplementsRpcCall
<1> DEFINE Inv == TypeOK /\ CallsInv /\ ServedInv
<1>1. Init => Inv /\ Rpc!Init
  <2>1. Init => Rpc!Init
    BY DEF Init, Rpc!Init, phase, answer, Started
  <2>2. Init => ServedInv
    BY DEF Init, ServedInv
  <2>3. QED
    BY <2>1, <2>2, TypeInit, CallsInit
<1>2. Inv /\ [Next]_vars => Inv'
  BY TypeStep, CallsStep, RpcSteps DEF RpcKept
<1>3. Inv /\ [Next]_vars => [Rpc!Next]_(Rpc!rpcVars)
  <2>1. Inv /\ [Next]_vars => RpcStep
    BY TypeStep, RpcSteps DEF RpcKept
  <2>2. QED
    BY <2>1, Zenon DEF RpcStep, Rpc!Next, Rpc!rpcVars, Rpc!Invoke, Rpc!Execute,
       Rpc!Answer, Rpc!Fail
<1>4. QED
  BY <1>1, <1>2, <1>3, PTL DEF Spec, ImplementsRpcCall, Rpc!Spec

-----------------------------------------------------------------------------
(* Notifications.                                                          *)

\* A message is on the connection its call was sent by, which is none to come;
\* a call that holds its answer and has not run since keeps its receiver from
\* reading on.
ConnInv ==
    /\ \A c \in Conns : \A k \in 1 .. Len(wire[c]) :
         call[wire[c][k].req].conn = c
    /\ \A r \in Requests :
         /\ call[r].conn <= connection
         /\ call[r].stage \in {"idle", "locking", "connecting", "writing"} =>
              frame[r] = 0
         /\ call[r].stage \in {"reading", "expired"} /\ call[r].fut = "done" =>
              \A c \in Conns : c = call[r].conn => recv[c] # "running"

RecvQuiet ==
    \A c \in Conns : recv'[c] \in {"running", "crashed"} => recv'[c] = recv[c]

LEMMA ReceiverQuiet ==
    /\ CancelReceiver => RecvQuiet
    /\ UNCHANGED recv => RecvQuiet
  BY DEF CancelReceiver, RecvQuiet

\* What is on the wire has been sent.
LEMMA WireSent ==
    ASSUME TypeOK, CallsInv, ServedInv, NEW d \in Conns,
           NEW k \in 1 .. Len(wire[d])
    PROVE  wire[d][k].req \in Requests /\ frame[wire[d][k].req] # 0
  BY WireCarries DEF ServedInv

LEMMA MovesConn ==
    ASSUME TypeOK, TypeOK', CallsInv, ServedInv, ConnInv,
           NEW r \in Requests, NEW S, Moves(r, S), UNCHANGED envVars,
           \/ call'[r].conn = call[r].conn
           \/ /\ call[r].stage \in {"locking", "connecting"}
              /\ call'[r].conn <= connection',
           call'[r].stage \in {"locking", "connecting", "writing"} =>
             call[r].stage \in {"locking", "connecting"},
           call'[r].stage \in {"reading", "expired"} /\ call'[r].fut = "done" =>
             /\ call[r].stage = "reading" /\ call[r].fut = "done"
             /\ call'[r].conn = call[r].conn,
           connection <= connection',
           \A c \in Conns : recv'[c] = "running" =>
             recv[c] = "running" \/ c > connection
    PROVE  ConnInv'
<1>1. UNCHANGED wire /\ UNCHANGED frame
  BY DEF envVars
<1>2. \A q \in Requests : q # r => call'[q] = call[q]
  BY DEF Moves
<1>3. /\ connection \in Nat /\ connection' \in Nat
      /\ \A q \in Requests : call[q].conn \in Nat /\ call'[q].conn \in Nat
  BY SMTT(30) DEF TypeOK, Call
<1>4. ASSUME NEW c \in Conns, NEW k \in 1 .. Len(wire'[c])
      PROVE  call'[wire'[c][k].req].conn = c
  <2>1. /\ wire[c][k].req \in Requests /\ frame[wire[c][k].req] # 0
        /\ call[wire[c][k].req].conn = c
    BY <1>1, <1>4, WireSent DEF ConnInv
  <2>2. wire[c][k].req = r => call'[r].conn = call[r].conn
    BY <2>1 DEF ConnInv
  <2>3. QED
    BY <1>1, <1>2, <2>1, <2>2
<1>5. ASSUME NEW q \in Requests PROVE call'[q].conn <= connection'
  <2>1. call[q].conn <= connection
    BY DEF ConnInv
  <2>2. QED
    BY <1>2, <1>3, <2>1
<1>6. ASSUME NEW q \in Requests,
             call'[q].stage \in {"idle", "locking", "connecting", "writing"}
      PROVE  frame'[q] = 0
  <2>1. call[q].stage \in {"idle", "locking", "connecting", "writing"}
    BY <1>2, <1>6 DEF Moves, CallQuiet
  <2>2. QED
    BY <1>1, <2>1 DEF ConnInv
<1>7. ASSUME NEW q \in Requests, NEW c \in Conns, c = call'[q].conn,
             call'[q].stage \in {"reading", "expired"}, call'[q].fut = "done"
      PROVE  recv'[c] # "running"
  <2>1. /\ call[q].stage \in {"reading", "expired"} /\ call[q].fut = "done"
        /\ c = call[q].conn
    BY <1>2, <1>7
  <2>2. recv[c] # "running" /\ c <= connection /\ c \in Nat
    BY <1>3, <2>1 DEF ConnInv
  <2>3. ~ (c > connection)
    BY <1>3, <2>2
  <2>4. QED
    BY <2>2, <2>3
<1>8. QED
  BY <1>4, <1>5, <1>6, <1>7 DEF ConnInv

\* The usual step: the call keeps its connection and its future.
LEMMA KeepsConn ==
    ASSUME TypeOK, TypeOK', CallsInv, ServedInv, ConnInv,
           NEW r \in Requests, NEW S, Moves(r, S), Keeps(r), UNCHANGED envVars,
           call'[r].stage \in {"locking", "connecting", "writing"} =>
             call[r].stage \in {"locking", "connecting"},
           call'[r].stage # "expired",
           call'[r].stage = "reading" => call'[r].fut = "pending",
           UNCHANGED connection, RecvQuiet
    PROVE  ConnInv'
<1>1. connection <= connection'
  BY DEF TypeOK
<1>2. QED
  BY <1>1, MovesConn DEF Keeps, RecvQuiet

\* Steps of the others: calls keep their connections.
LEMMA StaysConn ==
    ASSUME TypeOK, CallsInv, ServedInv, ConnInv, UNCHANGED frame,
           UNCHANGED connection,
           \A q \in Requests : call'[q].conn = call[q].conn,
           \A q \in Requests :
             call'[q].stage \in {"idle", "locking", "connecting", "writing"} =>
               call[q].stage \in {"idle", "locking", "connecting", "writing"},
           \A q \in Requests :
             call'[q].stage \in {"reading", "expired"} /\ call'[q].fut = "done"
             => \A c \in Conns : c = call[q].conn => recv'[c] # "running",
           \A d \in Conns : \A k \in 1 .. Len(wire'[d]) :
             \/ wire'[d][k].req \in Requests /\ call[wire'[d][k].req].conn = d
             \/ \E j \in 1 .. Len(wire[d]) : wire'[d][k] = wire[d][j]
    PROVE  ConnInv'
<1>1. ASSUME NEW c \in Conns, NEW k \in 1 .. Len(wire'[c])
      PROVE  call'[wire'[c][k].req].conn = c
  <2>1. wire'[c][k].req \in Requests /\ call[wire'[c][k].req].conn = c
    BY WireSent DEF ConnInv
  <2>2. QED
    BY <2>1
<1>2. QED
  BY <1>1 DEF ConnInv

LEMMA SameConn ==
    ASSUME TypeOK, CallsInv, ServedInv, ConnInv,
           UNCHANGED <<call, frame, wire, connection>>, RecvQuiet
    PROVE  ConnInv'
  BY StaysConn DEF ConnInv, RecvQuiet

LEMMA ClearAllConn ==
    ASSUME TypeOK, CallsInv, ServedInv, ConnInv, ClearAll,
           UNCHANGED <<frame, wire, connection>>, RecvQuiet
    PROVE  ConnInv'
<1>1. \A q \in Requests : call[q] \in Call
  BY DEF TypeOK
<1>2. ASSUME NEW q \in Requests
      PROVE  /\ call'[q].conn = call[q].conn /\ call'[q].stage = call[q].stage
             /\ call'[q].fut = "done" => call[q].fut = "done"
  BY <1>1 DEF ClearAll, Call
<1>3. ASSUME NEW q \in Requests, call'[q].stage \in {"reading", "expired"},
             call'[q].fut = "done", NEW c \in Conns, c = call[q].conn
      PROVE  recv'[c] # "running"
  BY <1>2, <1>3 DEF ConnInv, RecvQuiet
<1>4. QED
  BY <1>2, <1>3, StaysConn

LEMMA DeliverConn ==
    ASSUME TypeOK, CallsInv, ServedInv, ConnInv, NEW c \in Conns,
           DeliverResponse(c)
    PROVE  ConnInv'
<1>1. /\ wire' = [wire EXCEPT ![c] = Tail(@)]
      /\ UNCHANGED <<frame, connection>>
      /\ \A d \in Conns : recv'[d] = "running" => recv[d] = "running"
  BY DEF DeliverResponse, TypeOK
<1>2. wire[c] # <<>> /\ Head(wire[c]) = wire[c][1] /\ 1 \in 1 .. Len(wire[c])
  <2>1. wire[c] \in Seq(Message) /\ wire[c] # <<>>
    BY DEF TypeOK, DeliverResponse
  <2>2. QED
    BY <2>1, EmptySeq
<1>3. call[Head(wire[c]).req].conn = c
  BY <1>2 DEF ConnInv
<1>4. \A d \in Conns : \A k \in 1 .. Len(wire'[d]) :
        \E j \in 1 .. Len(wire[d]) : wire'[d][k] = wire[d][j]
  BY <1>1, <1>2, TailKeeps
<1>5. ASSUME NEW q \in Requests
      PROVE  call'[q].conn = call[q].conn /\ call'[q].stage = call[q].stage
  BY DeliverStays DEF StagesStay
<1>6. ASSUME NEW q \in Requests, call'[q].stage \in {"reading", "expired"},
             call'[q].fut = "done", NEW d \in Conns, d = call[q].conn
      PROVE  recv'[d] # "running"
  <2>1. CASE call'[q] = call[q]
    BY <1>1, <1>6, <2>1 DEF ConnInv
  <2>2. CASE q = Head(wire[c]).req /\ recv'[c] = "sleeping"
    BY <1>3, <1>6, <2>2
  <2>3. QED
    BY <2>1, <2>2, DeliverStays
<1>7. QED
  BY <1>1, <1>4, <1>5, <1>6, StaysConn

LEMMA SendConn ==
    ASSUME TypeOK, CallsInv, ServedInv, ConnInv, NEW r \in Requests, Send(r)
    PROVE  ConnInv'
<1>1. /\ call[r].stage = "idle" /\ call'[r].stage = "locking"
      /\ call'[r].conn = call[r].conn
      /\ \A q \in Requests : q # r => call'[q] = call[q]
  BY DEF TypeOK, Send, Call
<1>2. UNCHANGED <<frame, connection, recv, wire>>
  BY DEF Send, genVars, envVars
<1>3. QED
  BY <1>1, <1>2, StaysConn DEF ConnInv

LEMMA TransmitConn ==
    ASSUME TypeOK, CallsInv, ServedInv, ConnInv, NEW r \in Requests, Transmit(r)
    PROVE  ConnInv'
<1>1. /\ Moves(r, {"draining"}) /\ Keeps(r)
      /\ UNCHANGED <<wire, connection, recv>>
      /\ \A q \in Requests : q # r => frame'[q] = frame[q]
  BY WaitMoves DEF Transmit, Waiting, genVars, TypeOK
<1>2. \A q \in Requests :
        /\ call'[q].conn = call[q].conn /\ call'[q].fut = call[q].fut
        /\ q # r => call'[q] = call[q]
  BY <1>1 DEF Moves, Keeps
<1>3. call'[r].stage = "draining"
  BY <1>1 DEF Moves
<1>4. \A c \in Conns : \A k \in 1 .. Len(wire'[c]) :
        call'[wire'[c][k].req].conn = c
  BY <1>1, <1>2, WireSent DEF ConnInv
<1>5. QED
  BY <1>1, <1>2, <1>3, <1>4 DEF ConnInv

LEMMA AppendConn ==
    ASSUME TypeOK, CallsInv, ServedInv, ConnInv, NEW r \in Requests,
           NEW m, m.req = r, UNCHANGED <<call, frame, connection, recv>>,
           \/ wire' = wire
           \/ wire' = [wire EXCEPT ![call[r].conn] = Append(@, m)]
    PROVE  ConnInv'
<1>1. \A d \in Conns : \A k \in 1 .. Len(wire'[d]) :
        \/ wire'[d][k].req \in Requests /\ call[wire'[d][k].req].conn = d
        \/ \E j \in 1 .. Len(wire[d]) : wire'[d][k] = wire[d][j]
  <2>1. CASE wire' = wire
    BY <2>1
  <2>2. CASE wire' = [wire EXCEPT ![call[r].conn] = Append(@, m)]
    BY SMTT(30), <2>2, AppendAdds
  <2>3. QED
    BY <2>1, <2>2
<1>2. QED
  BY <1>1, StaysConn DEF ConnInv

\* sleep(0): the callers have run when a receiver reads on.
LEMMA AwakenConn ==
    ASSUME TypeOK, CallsInv, ServedInv, ConnInv, NEW c \in Conns, Awaken(c)
    PROVE  ConnInv'
  BY StaysConn DEF Awaken, CallersRan, envVars

LEMMA RaisesConn ==
    ASSUME TypeOK, TypeOK', CallsInv, ServedInv, ConnInv,
           NEW r \in Requests, call[r].stage \in Waiting, NEW e \in Errors,
           Raise(r, e), UNCHANGED envVars, UNCHANGED connection, RecvQuiet
    PROVE  ConnInv'
<1>1. Moves(r, {e, "KeyError"}) /\ Keeps(r)
  BY RaiseMoves
<1>2. call'[r].stage \in Errors
  BY <1>1 DEF Moves, Errors
<1>3. QED
  BY <1>1, <1>2, KeepsConn DEF Errors

LEMMA AwaitsConn ==
    ASSUME TypeOK, TypeOK', CallsInv, ServedInv, ConnInv,
           NEW r \in Requests, call[r].stage \in Waiting, AwaitFuture(r),
           UNCHANGED envVars, UNCHANGED connection, RecvQuiet
    PROVE  ConnInv'
<1>1. /\ Moves(r, {"reading", "result", "CancelledError"}) /\ Keeps(r)
      /\ call'[r].stage = "reading" => call'[r].fut = "pending"
  BY AwaitMoves
<1>2. call'[r].stage \in {"reading", "result", "CancelledError"}
  BY <1>1 DEF Moves
<1>3. QED
  BY <1>1, <1>2, KeepsConn

LEMMA WaitsConn ==
    ASSUME TypeOK, TypeOK', CallsInv, ServedInv, ConnInv,
           NEW r \in Requests, call[r].stage \in Waiting,
           NEW s \in Waiting \ {"locking", "writing", "reading", "expired"},
           Goes(r, s),
           s = "connecting" => call[r].stage = "locking",
           UNCHANGED envVars, UNCHANGED connection, RecvQuiet
    PROVE  ConnInv'
<1>1. Moves(r, {s}) /\ Keeps(r)
  BY WaitMoves
<1>2. call'[r].stage = s
  BY <1>1 DEF Moves
<1>3. QED
  BY <1>1, <1>2, KeepsConn

LEMMA ConnSteps ==
    TypeOK /\ TypeOK' /\ GeneratorInv /\ CallsInv /\ ServedInv /\ ConnInv
    /\ [Next]_vars => ConnInv'
<1> SUFFICES ASSUME TypeOK, TypeOK', GeneratorInv, CallsInv, ServedInv, ConnInv,
                    [Next]_vars
             PROVE  ConnInv'
  OBVIOUS
<1>1. ASSUME NEW r \in Requests, Send(r) PROVE ConnInv'
  BY <1>1, SendConn
<1>2. ASSUME NEW r \in Requests, TakeConnection(r) PROVE ConnInv'
  <2>1. /\ Moves(r, {"writing"}) /\ call'[r].conn = connection
        /\ UNCHANGED envVars /\ UNCHANGED <<connection, recv>>
    BY <1>2, ConnMoves DEF TakeConnection, Waiting, genVars
  <2>2. connection <= connection' /\ connection <= connection
    BY <2>1 DEF TypeOK
  <2>3. call'[r].stage = "writing"
    BY <2>1 DEF Moves
  <2>4. QED
    BY <1>2, <2>1, <2>2, <2>3, MovesConn DEF TakeConnection
<1>3. ASSUME NEW r \in Requests, StartConnect(r) PROVE ConnInv'
  BY <1>3, WaitsConn, ReceiverQuiet DEF StartConnect, Waiting, genVars
<1>4. ASSUME NEW r \in Requests, RefuseConnection(r) PROVE ConnInv'
  BY <1>4, RaisesConn, ReceiverQuiet DEF RefuseConnection, Waiting, Errors,
     genVars
<1>5. ASSUME NEW r \in Requests, ConnectOk(r) PROVE ConnInv'
  <2>1. /\ Moves(r, {"writing"}) /\ call'[r].conn = connection'
        /\ UNCHANGED envVars
    BY <1>5, ConnMoves DEF ConnectOk, Waiting
  <2>2. /\ connection' = connection + 1 /\ connection \in Nat
        /\ recv' = [recv EXCEPT ![connection'] = "running"]
    BY <1>5 DEF ConnectOk, TypeOK
  <2>3. connection <= connection' /\ connection' <= connection'
    BY <2>2
  <2>4. \A c \in Conns : recv'[c] = "running" =>
          recv[c] = "running" \/ c > connection
    BY <2>2 DEF TypeOK
  <2>5. call'[r].stage = "writing"
    BY <2>1 DEF Moves
  <2>6. QED
    BY <1>5, <2>1, <2>3, <2>4, <2>5, MovesConn DEF ConnectOk
<1>6. ASSUME NEW r \in Requests, ConnectRetry(r) PROVE ConnInv'
  BY <1>6, SameConn, ReceiverQuiet DEF ConnectRetry, genVars, envVars
<1>7. ASSUME NEW r \in Requests, ConnectFail(r) PROVE ConnInv'
  BY <1>7, RaisesConn, ReceiverQuiet DEF ConnectFail, Waiting, Errors,
     genVars
<1>8. ASSUME NEW r \in Requests, Transmit(r) PROVE ConnInv'
  BY <1>8, TransmitConn
<1>9. ASSUME NEW r \in Requests, WriteOk(r) PROVE ConnInv'
  BY <1>9, AwaitsConn, ReceiverQuiet DEF WriteOk, Waiting, genVars
<1>10. ASSUME NEW r \in Requests, WriteTimeout(r) PROVE ConnInv'
  BY <1>10, RaisesConn, ReceiverQuiet DEF WriteTimeout, Waiting, Errors,
     genVars
<1>11. ASSUME NEW r \in Requests, WriteFails(r) PROVE ConnInv'
  BY <1>11, WaitsConn, ReceiverQuiet DEF WriteFails, Waiting, genVars
<1>12. ASSUME NEW r \in Requests, ThrowDisconnects(r) PROVE ConnInv'
  BY <1>12, WaitsConn, ReceiverQuiet DEF ThrowDisconnects, Waiting, genVars
<1>13. ASSUME NEW r \in Requests, Disconnected(r) PROVE ConnInv'
  BY <1>13, AwaitsConn, ReceiverQuiet DEF Disconnected, Waiting, genVars
<1>14. ASSUME NEW r \in Requests, ThrowKills(r) PROVE ConnInv'
  BY <1>14, RaisesConn, ReceiverQuiet DEF ThrowKills, Waiting, Errors,
     genVars
<1>15. ASSUME NEW r \in Requests, ThrowIgnored(r) PROVE ConnInv'
  BY <1>15, AwaitsConn, ReceiverQuiet DEF ThrowIgnored, Waiting, genVars
<1>16. ASSUME NEW r \in Requests, ThrowRefused(r) PROVE ConnInv'
  BY <1>16, RaisesConn, ReceiverQuiet DEF ThrowRefused, Waiting, Errors,
     genVars
<1>17. ASSUME NEW r \in Requests, Resume(r) PROVE ConnInv'
  BY <1>17, AwaitsConn, ReceiverQuiet DEF Resume, Waiting, genVars
<1>18. ASSUME NEW r \in Requests, ReadTimeout(r) PROVE ConnInv'
  <2>1. /\ Moves(r, {"expired"}) /\ call'[r].conn = call[r].conn
        /\ call'[r].fut \in {call[r].fut, "cancelled"}
        /\ UNCHANGED envVars /\ UNCHANGED <<connection, recv>>
        /\ call[r].stage = "reading"
    BY <1>18, InterruptMoves DEF ReadTimeout, Waiting, genVars
  <2>2. call'[r].stage = "expired" /\ connection <= connection'
    BY <2>1 DEF Moves, TypeOK
  <2>3. QED
    BY <2>1, <2>2, MovesConn
<1>19. ASSUME NEW r \in Requests, Expire(r) PROVE ConnInv'
  BY <1>19, RaisesConn, ReceiverQuiet DEF Expire, Waiting, Errors,
     genVars
<1>20. ASSUME NEW r \in Requests, Cancel(r) PROVE ConnInv'
  <2>1. /\ Moves(r, {"CancelledError"}) /\ call'[r].conn = call[r].conn
        /\ UNCHANGED envVars /\ UNCHANGED <<connection, recv>>
    BY <1>20, InterruptMoves DEF Cancel, Waiting, genVars
  <2>2. call'[r].stage = "CancelledError" /\ connection <= connection'
    BY <2>1 DEF Moves, TypeOK
  <2>3. QED
    BY <2>1, <2>2, MovesConn
<1>21. ASSUME NEW r \in Requests, CancelInGenerator(r) PROVE ConnInv'
  <2>1. /\ Moves(r, {"CancelledError"}) /\ Keeps(r)
        /\ UNCHANGED envVars /\ UNCHANGED connection /\ RecvQuiet
    BY <1>21, AbandonMoves, ReceiverQuiet DEF CancelInGenerator, Waiting
  <2>2. call'[r].stage = "CancelledError"
    BY <2>1 DEF Moves
  <2>3. QED
    BY <2>1, <2>2, KeepsConn
<1>22. ASSUME NEW r \in Requests, Unsubscribe(r) PROVE ConnInv'
  BY <1>22, SameConn, ReceiverQuiet DEF Unsubscribe, genVars, envVars
<1>23. ASSUME NEW r \in Requests, Serve(r) PROVE ConnInv'
  BY <1>23, AppendConn DEF Serve, genVars
<1>24. ASSUME NEW r \in Requests, Notify(r) PROVE ConnInv'
  <2> DEFINE m == [id |-> 0, req |-> r]
  <2>1. m.req = r /\ UNCHANGED <<call, frame, connection, recv>>
    BY <1>24 DEF Notify, genVars
  <2>2. wire' = [wire EXCEPT ![call[r].conn] = Append(@, m)]
    BY <1>24 DEF Notify
  <2> HIDE DEF m
  <2>3. QED
    BY <2>1, <2>2, AppendConn
<1>25. ASSUME NEW c \in Conns, DeliverResponse(c) PROVE ConnInv'
  BY <1>25, DeliverConn
<1>26. ASSUME NEW c \in Conns, DeliverNote(c) PROVE ConnInv'
  BY SMTT(30), <1>26, TailKeeps, StaysConn DEF DeliverNote, genVars, ConnInv
<1>27. ASSUME NEW c \in Conns, Awaken(c) PROVE ConnInv'
  BY <1>27, AwakenConn
<1>28. ASSUME NEW c \in Conns, ReceiverEnds(c) PROVE ConnInv'
  BY <1>28, SameConn DEF ReceiverEnds, RecvQuiet, TypeOK, envVars
<1>29. ASSUME NEW c \in Conns, Drop(c) PROVE ConnInv'
  BY SMTT(30), <1>29, DropKeeps, StaysConn DEF Drop, ConnInv
<1>30. ASSUME CloseOpen PROVE ConnInv'
  BY <1>30, ClearAllConn, ReceiverQuiet DEF CloseOpen, envVars
<1>31. ASSUME CloseIdle PROVE ConnInv'
  BY <1>31, ClearAllConn, ReceiverQuiet DEF CloseIdle, envVars
<1>32. ASSUME CloseRefused PROVE ConnInv'
  BY <1>32, ClearAllConn, ReceiverQuiet DEF CloseRefused, genVars, envVars
<1>33. ASSUME CloseEnd PROVE ConnInv'
  BY <1>33, SameConn, ReceiverQuiet DEF CloseEnd, envVars
<1>34. CASE UNCHANGED vars
  BY <1>34, SameConn, ReceiverQuiet DEF vars, genVars, envVars
<1>35. QED
  BY <1>1, <1>2, <1>3, <1>4, <1>5, <1>6, <1>7, <1>8, <1>9, <1>10, <1>11,
     <1>12, <1>13, <1>14, <1>15, <1>16, <1>17, <1>18, <1>19, <1>20, <1>21,
     <1>22, <1>23, <1>24, <1>25, <1>26, <1>27, <1>28, <1>29, <1>30, <1>31,
     <1>32, <1>33, <1>34
     DEF Next, Advance, Receive, Close

\* `await asyncio.sleep(0)  # gives time for subscription?` does so for every
\* caller that awaits its answer, however many calls and connections there are: a
\* notification that finds the answered caller without a queue finds it in its
\* write.
THEOREM NoteCorrect == Spec => NoteMissedOnlyInWrite
<1> DEFINE Inv == TypeOK /\ GeneratorInv /\ CallsInv /\ ServedInv /\ ConnInv
           P == \A c \in Conns : DeliverNote(c) =>
                  LET r == Head(wire[c]).req IN
                  subs[r] = "absent" /\ call[r].fut = "done" /\ ~ Ended(r)
                  => call[r].stage \in {"draining", "throwing",
                                        "disconnecting"}
<1>1. Init => Inv
  <2>1. Init => ServedInv /\ ConnInv
    BY DEF Init, ServedInv, ConnInv
  <2>2. QED
    BY <2>1, TypeInit, GeneratorInit, CallsInit
<1>2. Inv /\ [Next]_vars => Inv'
  BY TypeStep, GeneratorStep, CallsStep, RpcSteps, ConnSteps DEF RpcKept
<1>3. Inv => P
  <2> SUFFICES ASSUME Inv, NEW c \in Conns, DeliverNote(c),
                      call[Head(wire[c]).req].fut = "done",
                      ~ Ended(Head(wire[c]).req)
               PROVE  call[Head(wire[c]).req].stage
                        \in {"draining", "throwing", "disconnecting"}
    OBVIOUS
  <2> DEFINE r == Head(wire[c]).req
  <2>1. wire[c] \in Seq(Message) /\ wire[c] # <<>>
    BY DEF TypeOK, DeliverNote
  <2>2. Head(wire[c]) = wire[c][1] /\ 1 \in 1 .. Len(wire[c])
    BY <2>1, EmptySeq
  <2>3. r \in Requests /\ frame[r] # 0 /\ call[r].conn = c
    BY <2>2, WireSent DEF ConnInv
  <2>4. call[r].stage \notin {"reading", "expired"}
    BY <2>3 DEF ConnInv, DeliverNote
  <2>5. call[r].stage \notin {"idle", "locking", "connecting", "writing"}
    BY <2>3 DEF ConnInv
  <2>6. call[r].stage \in Stages \ Terminal
    BY <2>3 DEF TypeOK, Call, Ended
  <2>7. QED
    BY <2>4, <2>5, <2>6 DEF Stages, Terminal
<1>4. Inv => [P]_vars
  BY <1>3
<1> HIDE DEF P
<1>5. Spec => [][P]_vars
  BY <1>1, <1>2, <1>4, PTL DEF Spec
<1>6. QED
  BY <1>5 DEF P, NoteMissedOnlyInWrite

-----------------------------------------------------------------------------
(* What failures come from.                                                *)

\* A call that has been cancelled, or whose answer was popped while its read
\* timeout was on its way.
Abandoned(r) ==
    \/ call[r].stage \in {"CancelledError", "KeyError"}
    \/ call[r].stage = "expired" /\ futures[call[r].id] = None

Cause ==
    \/ closer # "idle"
    \/ \E r \in Requests :
         call[r].stage \in {"CancelledError", "ConnectionClosed", "KeyError"}

\* A cancelled future that can still be popped is that of a call that was
\* cancelled in its await or has run into its read timeout.
CancelledFutures ==
    \A i \in Ids, r \in Requests :
        futures[i] = r /\ call[r].fut = "cancelled" =>
          call[r].stage \in {"expired", "CancelledError"}

CrashIsExplained ==
    (\E c \in Conns : recv[c] = "crashed") => \E r \in Requests : Abandoned(r)

EndIsExplained ==
    gen = "dead" \/ (\E r \in Requests : call[r].stage = "RuntimeError")
    => Cause

ExplainInv ==
    CancelledFutures /\ CrashIsExplained /\ EndIsExplained
    /\ ConnectionClosedIsFatal

\* A finished generator stays finished, and what finishes it is a cause; close()
\* is not taken back.
GenQuiet ==
    /\ gen = "dead" => gen' = "dead"
    /\ gen' = "dead" => gen = "dead" \/ Cause'
    /\ closer # "idle" => closer' # "idle"

NoCrash == \A c \in Conns : recv'[c] = "crashed" => recv[c] = "crashed"

LEMMA QuietNoCrash == RecvQuiet => NoCrash
  BY DEF RecvQuiet, NoCrash

\* Causes stay, so nothing that was explained becomes unexplained.
LEMMA MovesExplained ==
    ASSUME TypeOK, CallsInv, ExplainInv, NEW r \in Requests, NEW S, Moves(r, S),
           \A i \in Ids : futures'[i] \in {futures[i], None},
           \/ call[r].stage # "expired" /\ call'[r].fut = call[r].fut
           \/ /\ futures'[call[r].id] = None
              /\ futures[call[r].id] = None => call'[r].stage = "KeyError"
           \/ call'[r].stage = "CancelledError"
           \/ call[r].stage = "reading" /\ call'[r].stage = "expired",
           NoCrash, GenQuiet,
           call'[r].stage = "RuntimeError" => Cause,
           call'[r].stage = "ConnectionClosed" => gen # "dead" /\ gen' = "dead"
    PROVE  ExplainInv'
<1>1. \A q \in Requests : q # r => call'[q] = call[q]
  BY DEF Moves
<1>2. call'[r].id = call[r].id /\ call[r].stage \in Waiting
  BY DEF Moves, CallQuiet
<1>3. \A q \in Requests : call[q].stage \in Errors => call'[q].stage = call[q].stage
  BY <1>1, <1>2 DEF Waiting, Errors
<1>4. Cause => Cause'
  BY <1>3 DEF Cause, GenQuiet, Errors
<1>5. CancelledFutures'
  <2>1. SUFFICES ASSUME NEW i \in Ids, NEW q \in Requests, futures'[i] = q,
                        call'[q].fut = "cancelled"
                 PROVE  call'[q].stage \in {"expired", "CancelledError"}
    BY DEF CancelledFutures
  <2>2. futures[i] = q /\ call[q].id = i
    <3>1. futures[i] = q
      BY <2>1
    <3>2. QED
      BY <3>1 DEF CallsInv, FutureIds
  <2>3. CASE q # r
    BY <1>1, <2>1, <2>2, <2>3 DEF ExplainInv, CancelledFutures
  <2>4. CASE q = r
    <3>1. futures'[call[r].id] # None
      BY <2>1, <2>2, <2>4
    <3>2. CASE call[r].stage # "expired" /\ call'[r].fut = call[r].fut
      <4>1. call[r].stage \in {"expired", "CancelledError"}
        BY <2>1, <2>2, <2>4, <3>2 DEF ExplainInv, CancelledFutures
      <4>2. QED
        BY <1>2, <3>2, <4>1 DEF Waiting
    <3>3. QED
      BY <2>4, <3>1, <3>2
  <2>5. QED
    BY <2>3, <2>4
<1>6. CrashIsExplained'
  <2>1. ASSUME NEW q \in Requests, Abandoned(q) PROVE Abandoned(q)'
    <3>1. CASE call[q].stage \in {"CancelledError", "KeyError"}
      BY <1>3, <3>1 DEF Abandoned, Errors
    <3>2. CASE call[q].stage = "expired" /\ futures[call[q].id] = None
      <4>1. call[q].id \in Ids
        BY <3>2 DEF TypeOK, CallsInv, CallIds, Started, Call
      <4>2. futures'[call[q].id] = None
        BY <3>2, <4>1
      <4>3. CASE q # r
        BY <1>1, <3>2, <4>2, <4>3 DEF Abandoned
      <4>4. CASE q = r
        BY <3>2, <4>4 DEF Abandoned
      <4>5. QED
        BY <4>3, <4>4
    <3>3. QED
      BY <2>1, <3>1, <3>2 DEF Abandoned
  <2>2. QED
    BY <2>1 DEF ExplainInv, CrashIsExplained, NoCrash
<1>7. EndIsExplained'
  <2>1. (\E q \in Requests : call'[q].stage = "RuntimeError") => Cause
    BY <1>1 DEF ExplainInv, EndIsExplained
  <2>2. gen' = "dead" => Cause'
    BY <1>4 DEF ExplainInv, EndIsExplained, GenQuiet
  <2>3. QED
    BY <1>4, <2>1, <2>2 DEF EndIsExplained
<1>8. ConnectionClosedIsFatal'
  <2>1. CASE call'[r].stage = "ConnectionClosed"
    <3>1. \A q \in Requests : call[q].stage # "ConnectionClosed"
      BY <2>1 DEF ExplainInv, ConnectionClosedIsFatal
    <3>2. QED
      BY <1>1, <2>1, <3>1 DEF ConnectionClosedIsFatal
  <2>2. CASE call'[r].stage # "ConnectionClosed"
    BY <1>1, <2>2 DEF ExplainInv, ConnectionClosedIsFatal, GenQuiet
  <2>3. QED
    BY <2>1, <2>2
<1>9. QED
  BY <1>5, <1>6, <1>7, <1>8 DEF ExplainInv

\* Steps that no error comes from.
LEMMA StaysExplained ==
    ASSUME TypeOK, CallsInv, ExplainInv, GenQuiet,
           \A q \in Requests :
             \/ call'[q].stage = call[q].stage
             \/ call[q].stage = "idle" /\ call'[q].stage = "locking",
           CancelledFutures', CrashIsExplained'
    PROVE  ExplainInv'
<1>1. \A q \in Requests : call[q].stage \in Errors \/ call'[q].stage \in Errors
                          => call'[q].stage = call[q].stage
  BY DEF Errors
<1>2. Cause => Cause'
  BY <1>1 DEF Cause, GenQuiet, Errors
<1>3. (\E q \in Requests : call'[q].stage = "RuntimeError") => Cause
  BY <1>1 DEF ExplainInv, EndIsExplained, Errors
<1>4. gen' = "dead" => Cause'
  BY <1>2 DEF ExplainInv, EndIsExplained, GenQuiet
<1>5. EndIsExplained'
  BY <1>2, <1>3, <1>4 DEF EndIsExplained
<1>6. ConnectionClosedIsFatal'
  BY <1>1 DEF ExplainInv, ConnectionClosedIsFatal, GenQuiet, Errors
<1>7. QED
  BY <1>5, <1>6 DEF ExplainInv

LEMMA SameExplained ==
    ASSUME TypeOK, CallsInv, ExplainInv, GenQuiet, UNCHANGED <<call, futures>>,
           RecvQuiet
    PROVE  ExplainInv'
<1>1. CancelledFutures'
  BY DEF ExplainInv, CancelledFutures
<1>2. CrashIsExplained'
  BY DEF ExplainInv, CrashIsExplained, Abandoned, RecvQuiet
<1>3. QED
  BY <1>1, <1>2, StaysExplained

LEMMA RaisesExplained ==
    ASSUME TypeOK, CallsInv, ExplainInv, NEW r \in Requests,
           call[r].stage \in Waiting, NEW e \in Errors, Raise(r, e),
           RecvQuiet, e = "RuntimeError" => Cause,
           e = "ConnectionClosed" => gen # "dead" /\ gen' = "dead",
           Moves(r, {e, "KeyError"}) => GenQuiet
    PROVE  ExplainInv'
<1>1. /\ Moves(r, {e, "KeyError"}) /\ futures'[call[r].id] = None
      /\ \A i \in Ids : futures'[i] \in {futures[i], None}
      /\ futures[call[r].id] = None => call'[r].stage = "KeyError"
  BY RaiseMoves
<1>2. call'[r].stage \in {e, "KeyError"}
  BY <1>1 DEF Moves
<1>3. /\ call'[r].stage = "RuntimeError" => e = "RuntimeError"
      /\ call'[r].stage = "ConnectionClosed" => e = "ConnectionClosed"
  BY <1>2
<1>4. QED
  BY <1>1, <1>3, MovesExplained, QuietNoCrash

LEMMA AwaitsExplained ==
    ASSUME TypeOK, CallsInv, ExplainInv, NEW r \in Requests,
           call[r].stage \in Waiting \ {"expired"}, AwaitFuture(r),
           UNCHANGED futures, RecvQuiet, GenQuiet
    PROVE  ExplainInv'
<1>1. Moves(r, {"reading", "result", "CancelledError"}) /\ Keeps(r)
  BY AwaitMoves
<1>2. call'[r].stage \in {"reading", "result", "CancelledError"}
  BY <1>1 DEF Moves
<1>3. QED
  BY <1>1, <1>2, MovesExplained, QuietNoCrash DEF Keeps

LEMMA WaitsExplained ==
    ASSUME TypeOK, CallsInv, ExplainInv, NEW r \in Requests,
           call[r].stage \in Waiting \ {"expired"},
           NEW s \in Waiting, Goes(r, s),
           UNCHANGED futures, RecvQuiet, GenQuiet
    PROVE  ExplainInv'
<1>1. Moves(r, {s}) /\ Keeps(r)
  BY WaitMoves
<1>2. call'[r].stage \in Waiting
  BY <1>1 DEF Moves
<1>3. QED
  BY <1>1, <1>2, MovesExplained, QuietNoCrash DEF Keeps, Waiting

LEMMA ConnExplained ==
    ASSUME TypeOK, CallsInv, ExplainInv, NEW r \in Requests,
           call[r].stage \in Waiting \ {"expired"}, NEW n,
           call' = [call EXCEPT ![r] = [@ EXCEPT !.conn = n,
                                                 !.stage = "writing"]],
           UNCHANGED futures, RecvQuiet, GenQuiet
    PROVE  ExplainInv'
<1>1. Moves(r, {"writing"}) /\ call'[r].fut = call[r].fut
  BY ConnMoves DEF Waiting
<1>2. call'[r].stage = "writing"
  BY <1>1 DEF Moves
<1>3. QED
  BY <1>1, <1>2, MovesExplained, QuietNoCrash

LEMMA ClearAllExplained ==
    ASSUME TypeOK, CallsInv, ExplainInv, ClearAll, GenQuiet, RecvQuiet
    PROVE  ExplainInv'
<1>1. \A i \in Ids : futures'[i] = None
  BY DEF ClearAll
<1>2. None \notin Requests
  BY ConstantsAssumption
<1>3. CancelledFutures'
  BY <1>1, <1>2 DEF CancelledFutures
<1>4. \A q \in Requests : /\ call'[q].stage = call[q].stage
                          /\ call'[q].id = call[q].id
  BY ClearAllStays DEF StagesStay, CallQuiet
<1>5. ASSUME NEW q \in Requests, Abandoned(q) PROVE Abandoned(q)'
  <2>1. call[q].stage = "expired" => call[q].id \in Ids
    BY DEF TypeOK, CallsInv, CallIds, Started, Call
  <2>2. QED
    BY <1>1, <1>4, <1>5, <2>1 DEF Abandoned
<1>6. CrashIsExplained'
  BY <1>5 DEF ExplainInv, CrashIsExplained, RecvQuiet
<1>7. QED
  BY <1>3, <1>4, <1>6, StaysExplained

LEMMA SendExplained ==
    ASSUME TypeOK, CallsInv, ExplainInv, NEW r \in Requests, Send(r)
    PROVE  ExplainInv'
<1>1. /\ call[r].stage = "idle" /\ call'[r].stage = "locking"
      /\ call'[r].fut = "pending"
      /\ \A q \in Requests : q # r => call'[q] = call[q]
  BY DEF TypeOK, Send, Call
<1>2. /\ lastId' = lastId + 1 /\ lastId' \in Ids
      /\ futures' = [futures EXCEPT ![lastId'] = r]
      /\ UNCHANGED genVars /\ UNCHANGED closer
  BY DEF Send, TypeOK
<1>3. CancelledFutures'
  <2>1. ASSUME NEW i \in Ids, NEW q \in Requests, futures'[i] = q,
               call'[q].fut = "cancelled"
        PROVE  call'[q].stage \in {"expired", "CancelledError"}
    <3>1. q # r /\ call'[q] = call[q]
      BY <1>1, <2>1
    <3>2. futures[i] = q
      BY <1>2, <2>1, <3>1 DEF TypeOK
    <3>3. QED
      BY <2>1, <3>1, <3>2 DEF ExplainInv, CancelledFutures
  <2>2. QED
    BY <2>1 DEF CancelledFutures
<1>4. ASSUME NEW q \in Requests, Abandoned(q) PROVE Abandoned(q)'
  <2>1. q # r /\ call'[q] = call[q]
    BY <1>1, <1>4 DEF Abandoned
  <2>2. call[q].stage = "expired" =>
          call[q].id \in Ids /\ call[q].id # lastId'
    BY <1>2 DEF TypeOK, CallsInv, CallIds, Started, Call
  <2>3. QED
    BY <1>2, <1>4, <2>1, <2>2 DEF Abandoned, TypeOK
<1>5. CrashIsExplained'
  BY <1>2, <1>4 DEF ExplainInv, CrashIsExplained, genVars
<1>6. QED
  BY <1>1, <1>2, <1>3, <1>5, StaysExplained DEF GenQuiet, genVars

\* A receiver that crashes has popped a future that was cancelled.
LEMMA DeliverExplained ==
    ASSUME TypeOK, CallsInv, ExplainInv, NEW c \in Conns, DeliverResponse(c)
    PROVE  ExplainInv'
<1> DEFINE m == Head(wire[c])
           r == futures[m.id]
<1>1. m.id \in Ids
  <2>1. wire[c] \in Seq(Message) /\ wire[c] # <<>> /\ m.id # 0
    BY DEF TypeOK, DeliverResponse
  <2>2. m \in Message
    BY <2>1, HeadTailProperties
  <2>3. QED
    BY <2>1, <2>2 DEF Message
<1>2. \A i \in Ids : futures'[i] \in {futures[i], None}
  BY DEF DeliverResponse, TypeOK
<1>3. \A q \in Requests : /\ call'[q].stage = call[q].stage
                          /\ call'[q].fut \in {call[q].fut, "done"}
                          /\ call'[q].id = call[q].id
  BY DeliverStays DEF StagesStay
<1>4. CancelledFutures'
  <2>1. None \notin Requests
    BY ConstantsAssumption
  <2>2. QED
    BY <1>2, <1>3, <2>1 DEF ExplainInv, CancelledFutures
<1>5. ASSUME NEW q \in Requests, Abandoned(q) PROVE Abandoned(q)'
  <2>1. call[q].stage = "expired" => call[q].id \in Ids
    BY DEF TypeOK, CallsInv, CallIds, Started, Call
  <2>2. QED
    BY <1>2, <1>3, <1>5, <2>1 DEF Abandoned
<1>6. ASSUME RecvQuiet PROVE CrashIsExplained'
  <2>1. SUFFICES ASSUME NEW d \in Conns, recv'[d] = "crashed"
                 PROVE  \E q \in Requests : Abandoned(q)'
    BY DEF CrashIsExplained
  <2>2. recv[d] = "crashed"
    BY <1>6, <2>1 DEF RecvQuiet
  <2>3. PICK q \in Requests : Abandoned(q)
    BY <2>2 DEF ExplainInv, CrashIsExplained
  <2>4. QED
    BY <1>5, <2>3
<1>7. ASSUME r # None, call[r].fut # "pending", UNCHANGED call,
             futures' = [futures EXCEPT ![m.id] = None]
      PROVE  CrashIsExplained'
  <2>1. PICK q \in Requests : q = r
    BY <1>1, <1>7 DEF TypeOK
  <2>2. call[q].id = m.id /\ call[q].fut = "cancelled"
    BY <1>1, <1>7, <2>1 DEF CallsInv, FutureIds
  <2>3. call[q].stage \in {"expired", "CancelledError"}
    BY <1>1, <2>1, <2>2 DEF ExplainInv, CancelledFutures
  <2>4. futures'[m.id] = None /\ call'[q] = call[q]
    BY <1>1, <1>7 DEF TypeOK
  <2>5. Abandoned(q)'
    BY <2>2, <2>3, <2>4 DEF Abandoned
  <2>6. QED
    BY <2>5 DEF CrashIsExplained
<1>8. CrashIsExplained'
  <2>1. \/ RecvQuiet
        \/ /\ r # None /\ call[r].fut # "pending" /\ UNCHANGED call
           /\ futures' = [futures EXCEPT ![m.id] = None]
    BY DEF DeliverResponse, RecvQuiet, TypeOK
  <2>2. QED
    BY <1>6, <1>7, <2>1
<1>9. UNCHANGED <<gen, closer>>
  BY DEF DeliverResponse
<1>10. QED
  BY <1>3, <1>4, <1>8, <1>9, StaysExplained DEF GenQuiet

LEMMA SameGen == ASSUME UNCHANGED <<gen, closer>> PROVE GenQuiet
  BY DEF GenQuiet

\* While a call is inside the generator, the generator runs.
LEMMA InsideRuns ==
    ASSUME GeneratorInv, NEW r \in Requests,
           call[r].stage \in {"connecting", "disconnecting"}
    PROVE  gen = "running"
<1>1. r # None
  BY ConstantsAssumption
<1>2. QED
  BY <1>1 DEF GeneratorInv, LockProtectsGenerator

\* The generator refuses a call when it has finished or close() runs it.
LEMMA RefusedFor ==
    ASSUME GeneratorInv, ExplainInv, LockFree, gen \in {"dead", "running"}
    PROVE  Cause
  BY DEF GeneratorInv, LockProtectsGenerator, ExplainInv, EndIsExplained,
         LockFree, Cause

LEMMA ExplainSteps ==
    TypeOK /\ GeneratorInv /\ CallsInv /\ ExplainInv /\ [Next]_vars
    => ExplainInv'
<1> SUFFICES ASSUME TypeOK, GeneratorInv, CallsInv, ExplainInv, [Next]_vars
             PROVE  ExplainInv'
  OBVIOUS
<1>1. ASSUME NEW r \in Requests, Send(r) PROVE ExplainInv'
  BY <1>1, SendExplained
<1>2. ASSUME NEW r \in Requests, TakeConnection(r) PROVE ExplainInv'
  BY <1>2, ConnExplained, ReceiverQuiet, SameGen DEF TakeConnection, Waiting,
     genVars
<1>3. ASSUME NEW r \in Requests, StartConnect(r) PROVE ExplainInv'
  <2>1. GenQuiet
    BY <1>3 DEF StartConnect, GenQuiet
  <2>2. QED
    BY <1>3, <2>1, WaitsExplained, ReceiverQuiet DEF StartConnect, Waiting
<1>4. ASSUME NEW r \in Requests, RefuseConnection(r) PROVE ExplainInv'
  BY <1>4, RefusedFor, RaisesExplained, ReceiverQuiet, SameGen
  DEF RefuseConnection, Waiting, Errors, genVars
<1>5. ASSUME NEW r \in Requests, ConnectOk(r) PROVE ExplainInv'
  <2>1. gen = "running" /\ gen' = "open" /\ UNCHANGED closer
    BY <1>5, InsideRuns DEF ConnectOk
  <2>2. GenQuiet
    BY <2>1 DEF GenQuiet
  <2>3. NoCrash
    BY <1>5 DEF ConnectOk, TypeOK, NoCrash
  <2>4. Moves(r, {"writing"}) /\ call'[r].fut = call[r].fut
    BY <1>5, ConnMoves DEF ConnectOk, Waiting
  <2>5. call'[r].stage = "writing"
    BY <2>4 DEF Moves
  <2>6. UNCHANGED futures /\ call[r].stage = "connecting"
    BY <1>5 DEF ConnectOk
  <2>7. QED
    BY <2>2, <2>3, <2>4, <2>5, <2>6, MovesExplained
<1>6. ASSUME NEW r \in Requests, ConnectRetry(r) PROVE ExplainInv'
  BY <1>6, SameExplained, ReceiverQuiet, SameGen DEF ConnectRetry
<1>7. ASSUME NEW r \in Requests, ConnectFail(r) PROVE ExplainInv'
  <2>1. gen = "running" /\ gen' = "failed" /\ UNCHANGED closer
    BY <1>7, InsideRuns DEF ConnectFail
  <2>2. GenQuiet
    BY <2>1 DEF GenQuiet
  <2>3. QED
    BY <1>7, <2>2, RaisesExplained, ReceiverQuiet
    DEF ConnectFail, Waiting, Errors
<1>8. ASSUME NEW r \in Requests, Transmit(r) PROVE ExplainInv'
  BY <1>8, WaitsExplained, ReceiverQuiet, SameGen DEF Transmit, Waiting, genVars
<1>9. ASSUME NEW r \in Requests, WriteOk(r) PROVE ExplainInv'
  BY <1>9, AwaitsExplained, ReceiverQuiet, SameGen DEF WriteOk, Waiting, genVars
<1>10. ASSUME NEW r \in Requests, WriteTimeout(r) PROVE ExplainInv'
  BY <1>10, RaisesExplained, ReceiverQuiet, SameGen DEF WriteTimeout, Waiting, Errors, genVars
<1>11. ASSUME NEW r \in Requests, WriteFails(r) PROVE ExplainInv'
  BY <1>11, WaitsExplained, ReceiverQuiet, SameGen DEF WriteFails, Waiting, genVars
<1>12. ASSUME NEW r \in Requests, ThrowDisconnects(r) PROVE ExplainInv'
  <2>1. GenQuiet
    BY <1>12 DEF ThrowDisconnects, GenQuiet
  <2>2. QED
    BY <1>12, <2>1, WaitsExplained, ReceiverQuiet DEF ThrowDisconnects, Waiting
<1>13. ASSUME NEW r \in Requests, Disconnected(r) PROVE ExplainInv'
  <2>1. gen = "running" /\ gen' = "failed" /\ UNCHANGED closer
    BY <1>13, InsideRuns DEF Disconnected
  <2>2. GenQuiet
    BY <2>1 DEF GenQuiet
  <2>3. QED
    BY <1>13, <2>2, AwaitsExplained, ReceiverQuiet DEF Disconnected, Waiting
<1>14. ASSUME NEW r \in Requests, ThrowKills(r) PROVE ExplainInv'
  <2>1. /\ call[r].stage \in Waiting /\ gen = "failed" /\ gen' = "dead"
        /\ UNCHANGED closer
    BY <1>14 DEF ThrowKills, Waiting
  <2>2. Moves(r, {"ConnectionClosed", "KeyError"}) => GenQuiet
    BY <2>1 DEF Moves, GenQuiet, Cause
  <2>3. QED
    BY <1>14, <2>1, <2>2, RaisesExplained, ReceiverQuiet DEF ThrowKills, Errors
<1>15. ASSUME NEW r \in Requests, ThrowIgnored(r) PROVE ExplainInv'
  BY <1>15, AwaitsExplained, ReceiverQuiet, SameGen DEF ThrowIgnored, Waiting, genVars
<1>16. ASSUME NEW r \in Requests, ThrowRefused(r) PROVE ExplainInv'
  BY <1>16, RefusedFor, RaisesExplained, ReceiverQuiet, SameGen
  DEF ThrowRefused, Waiting, Errors, genVars
<1>17. ASSUME NEW r \in Requests, Resume(r) PROVE ExplainInv'
  BY <1>17, AwaitsExplained, ReceiverQuiet, SameGen DEF Resume, Waiting, genVars
<1>18. ASSUME NEW r \in Requests, ReadTimeout(r) PROVE ExplainInv'
  <2>1. /\ Moves(r, {"expired"}) /\ call[r].stage = "reading"
        /\ UNCHANGED <<futures, recv, gen, closer>>
    BY <1>18, InterruptMoves DEF ReadTimeout, Waiting, genVars
  <2>2. call'[r].stage = "expired"
    BY <2>1 DEF Moves
  <2>3. QED
    BY <2>1, <2>2, MovesExplained, QuietNoCrash, ReceiverQuiet, SameGen
<1>19. ASSUME NEW r \in Requests, Expire(r) PROVE ExplainInv'
  BY <1>19, RaisesExplained, ReceiverQuiet, SameGen DEF Expire, Waiting, Errors, genVars
<1>20. ASSUME NEW r \in Requests, Cancel(r) PROVE ExplainInv'
  <2>1. /\ Moves(r, {"CancelledError"})
        /\ UNCHANGED <<futures, recv, gen, closer>>
    BY <1>20, InterruptMoves DEF Cancel, Waiting, genVars
  <2>2. call'[r].stage = "CancelledError"
    BY <2>1 DEF Moves
  <2>3. QED
    BY <2>1, <2>2, MovesExplained, QuietNoCrash, ReceiverQuiet, SameGen
<1>21. ASSUME NEW r \in Requests, CancelInGenerator(r) PROVE ExplainInv'
  <2>1. /\ Moves(r, {"CancelledError"}) /\ UNCHANGED futures
        /\ gen' = "dead" /\ UNCHANGED closer /\ RecvQuiet
    BY <1>21, AbandonMoves, ReceiverQuiet
    DEF CancelInGenerator, Waiting, Abandon
  <2>2. call'[r].stage = "CancelledError"
    BY <2>1 DEF Moves
  <2>3. GenQuiet
    BY <2>1, <2>2 DEF GenQuiet, Cause
  <2>4. QED
    BY <2>1, <2>2, <2>3, MovesExplained, QuietNoCrash
<1>22. ASSUME NEW r \in Requests, Unsubscribe(r) PROVE ExplainInv'
  BY <1>22, SameExplained, ReceiverQuiet, SameGen DEF Unsubscribe, genVars
<1>23. ASSUME NEW r \in Requests, Serve(r) PROVE ExplainInv'
  BY <1>23, SameExplained, ReceiverQuiet, SameGen DEF Serve, genVars
<1>24. ASSUME NEW r \in Requests, Notify(r) PROVE ExplainInv'
  BY <1>24, SameExplained, ReceiverQuiet, SameGen DEF Notify, genVars
<1>25. ASSUME NEW c \in Conns, DeliverResponse(c) PROVE ExplainInv'
  BY <1>25, DeliverExplained
<1>26. ASSUME NEW c \in Conns, DeliverNote(c) PROVE ExplainInv'
  BY <1>26, SameExplained, ReceiverQuiet, SameGen DEF DeliverNote, genVars
<1>27. ASSUME NEW c \in Conns, Awaken(c) PROVE ExplainInv'
  <2>1. \A d \in Conns : recv'[d] = "crashed" => recv[d] = "crashed"
    BY <1>27 DEF Awaken, TypeOK
  <2>2. UNCHANGED <<call, futures, gen, closer>>
    BY <1>27 DEF Awaken
  <2>3. CancelledFutures' /\ CrashIsExplained'
    BY <2>1, <2>2 DEF ExplainInv, CancelledFutures, CrashIsExplained, Abandoned
  <2>4. QED
    BY <2>2, <2>3, StaysExplained, SameGen
<1>28. ASSUME NEW c \in Conns, ReceiverEnds(c) PROVE ExplainInv'
  <2>1. RecvQuiet
    BY <1>28 DEF ReceiverEnds, RecvQuiet, TypeOK
  <2>2. QED
    BY <1>28, <2>1, SameExplained, SameGen DEF ReceiverEnds
<1>29. ASSUME NEW c \in Conns, Drop(c) PROVE ExplainInv'
  BY <1>29, SameExplained, ReceiverQuiet, SameGen DEF Drop, genVars
<1>30. ASSUME CloseOpen PROVE ExplainInv'
  <2>1. GenQuiet
    BY <1>30 DEF CloseOpen, GenQuiet
  <2>2. QED
    BY <1>30, <2>1, ClearAllExplained, ReceiverQuiet DEF CloseOpen
<1>31. ASSUME CloseIdle PROVE ExplainInv'
  <2>1. GenQuiet
    BY <1>31 DEF CloseIdle, GenQuiet, Cause
  <2>2. QED
    BY <1>31, <2>1, ClearAllExplained, ReceiverQuiet DEF CloseIdle
<1>32. ASSUME CloseRefused PROVE ExplainInv'
  <2>1. GenQuiet
    BY <1>32 DEF CloseRefused, GenQuiet, genVars
  <2>2. QED
    BY <1>32, <2>1, ClearAllExplained, ReceiverQuiet DEF CloseRefused, genVars
<1>33. ASSUME CloseEnd PROVE ExplainInv'
  <2>1. GenQuiet
    BY <1>33 DEF CloseEnd, GenQuiet, Cause
  <2>2. QED
    BY <1>33, <2>1, SameExplained, ReceiverQuiet DEF CloseEnd
<1>34. CASE UNCHANGED vars
  BY <1>34, SameExplained, ReceiverQuiet, SameGen DEF vars, genVars
<1>35. QED
  BY <1>1, <1>2, <1>3, <1>4, <1>5, <1>6, <1>7, <1>8, <1>9, <1>10, <1>11,
     <1>12, <1>13, <1>14, <1>15, <1>16, <1>17, <1>18, <1>19, <1>20, <1>21,
     <1>22, <1>23, <1>24, <1>25, <1>26, <1>27, <1>28, <1>29, <1>30, <1>31,
     <1>32, <1>33, <1>34
     DEF Next, Advance, Receive, Close

\* No receiver crashes, no call is refused by the generator and none sees its
\* connection closed but for a cancellation, a read timeout, a close() or, once,
\* the second loss of a connection.
THEOREM FailuresCorrect == Spec => []FailuresAreExplained
<1>1. Init => ExplainInv
  BY DEF Init, ExplainInv, CancelledFutures, CrashIsExplained, EndIsExplained,
         ConnectionClosedIsFatal
<1>2. ExplainInv => FailuresAreExplained
  <2> SUFFICES ASSUME ExplainInv PROVE FailuresAreExplained
    OBVIOUS
  <2>1. OnlyAbandonedCallsCrash
    BY DEF ExplainInv, CrashIsExplained, Abandoned, OnlyAbandonedCallsCrash
  <2>2. RuntimeErrorIsExplained
    BY DEF ExplainInv, EndIsExplained, Cause, RuntimeErrorIsExplained
  <2>3. QED
    BY <2>1, <2>2 DEF FailuresAreExplained, ExplainInv
<1>3. QED
  BY <1>1, <1>2, TypeInit, GeneratorInit, CallsInit, TypeStep, GeneratorStep,
     CallsStep, ExplainSteps, PTL DEF Spec

=============================================================================
