------------------------- MODULE WebSocketTransport -------------------------
(***************************************************************************)
(* turbobt/substrate/transports/websocket.py: JSON-RPC calls multiplexed   *)
(* over one WebSocket that an asynchronous generator opens, and opens      *)
(* again after a failure.                                                  *)
(*                                                                         *)
(* A request is one call of send() in a task of its own.  asyncio runs one *)
(* task at a time, so an action is what happens between two awaits.  The   *)
(* server and the network are the environment.                             *)
(***************************************************************************)
EXTENDS Naturals, Sequences

CONSTANTS
    Requests,      \* the calls of send()
    Subscribing,   \* those that return a subscription id
    Cancellable,   \* those whose task somebody may cancel
    Closable,      \* whether somebody calls close()
    None,          \* no call: a free lock, an absent dict entry
    Retries,       \* the constructor's retries
    MaxId,         \* bound: ids handed out
    MaxConn,       \* bound: connections opened
    MaxWire        \* bound: messages on their way to the client

ASSUME ConstantsAssumption ==
    /\ Subscribing \subseteq Requests
    /\ Cancellable \subseteq Requests
    /\ Closable \in BOOLEAN
    /\ None \notin Requests
    /\ Retries \in Nat
    /\ MaxId \in Nat
    /\ MaxConn \in Nat
    /\ MaxWire \in Nat

VARIABLES
    lastId,       \* _id
    futures,      \* _futures: for each id the call whose future it is, or None
    call,         \* the local state of each call of send()
    lock,         \* __lock: the call that holds it across an await, or None
    gen,          \* where the generator __connections is suspended
    connection,   \* _connection, 0 for None
    retriesLeft,  \* the generator's retries_left
    link,         \* the state of each connection
    recv,         \* the state of the _recv task of each connection
    subs,         \* _subscriptions, by the call that made the subscription
    closer,       \* the task that calls close()
    frame,        \* the id in the message each call sent, 0 before it is sent
    served,       \* the calls the server has executed
    wire          \* the server's messages on each connection, in order

genVars == <<lock, gen, connection, retriesLeft, link, recv>>
envVars == <<frame, served, wire>>
vars    == <<lastId, futures, call, genVars, subs, closer, envVars>>

Ids   == 1 .. MaxId
Conns == 1 .. MaxConn

\* id 0 stands for a message that has "params" in place of an "id".
Message == [id : 0 .. MaxId, req : Requests]

Errors == {"TimeoutError", "CancelledError", "KeyError", "ConnectionClosed",
           "RuntimeError", "AttributeError"}

Stages == {"idle", "locking", "connecting", "writing", "draining", "throwing",
           "disconnecting", "reading", "expired", "result"} \cup Errors

Call == [id : 0 .. MaxId, stage : Stages, conn : 0 .. MaxConn,
         fut : {"none", "pending", "done", "cancelled"},
         got : Requests \cup {None}]

\* Every variable has its type.
TypeOK ==
    /\ lastId \in 0 .. MaxId
    /\ futures \in [Ids -> Requests \cup {None}]
    /\ call \in [Requests -> Call]
    /\ lock \in Requests \cup {None}
    /\ gen \in {"start", "open", "failed", "running", "dead"}
    /\ connection \in 0 .. MaxConn
    /\ retriesLeft \in 0 .. Retries
    /\ link \in [Conns -> {"none", "open", "lost", "gone", "shut"}]
    /\ recv \in [Conns -> {"none", "running", "sleeping", "ended",
                           "cancelled", "crashed"}]
    /\ subs \in [Requests -> {"absent", "live", "failed"}]
    /\ closer \in {"idle", "closing", "done", "failed"}
    /\ frame \in [Requests -> 0 .. MaxId]
    /\ served \subseteq Requests
    /\ wire \in [Conns -> Seq(Message)]

Init ==
    /\ lastId = 0
    /\ futures = [i \in Ids |-> None]
    /\ call = [r \in Requests |-> [id |-> 0, stage |-> "idle", conn |-> 0,
                                   fut |-> "none", got |-> None]]
    /\ lock = None
    /\ gen = "start"
    /\ connection = 0
    /\ retriesLeft = Retries
    /\ link = [c \in Conns |-> "none"]
    /\ recv = [c \in Conns |-> "none"]
    /\ subs = [r \in Requests |-> "absent"]
    /\ closer = "idle"
    /\ frame = [r \in Requests |-> 0]
    /\ served = {}
    /\ wire = [c \in Conns |-> <<>>]

-----------------------------------------------------------------------------
(* What the actions are made of.                                           *)

Goes(r, stage) == call' = [call EXCEPT ![r].stage = stage]

\* `except Exception: del self._futures[future_id]; raise`.  The del itself
\* raises KeyError when the entry is gone already.
Raise(r, error) ==
    /\ Goes(r, IF futures[call[r].id] = None THEN "KeyError" ELSE error)
    /\ futures' = [futures EXCEPT ![call[r].id] = None]

\* CancelledError is no Exception: the entry stays in _futures.
Abandon(r) == Goes(r, "CancelledError") /\ UNCHANGED futures

\* `response = await future`, which suspends on a pending future only, and
\* what the caller does before it next awaits: one that asked for a
\* subscription calls subscribe().
AwaitFuture(r) ==
    \/ /\ call[r].fut = "pending"
       /\ Goes(r, "reading")
       /\ UNCHANGED subs
    \/ /\ call[r].fut = "done"
       /\ Goes(r, "result")
       /\ subs' = [s \in Requests |-> IF s = r /\ r \in Subscribing
                                      THEN "live" ELSE subs[s]]
    \/ /\ call[r].fut = "cancelled"
       /\ Goes(r, "CancelledError")
       /\ UNCHANGED subs

\* `async with self.__lock` does not wait.
LockFree == lock = None

\* Mutant of CancelReceiver: the statement marked TODO left out.
KeepReceiver == UNCHANGED recv

\* `finally: if task: task.cancel()`: task is the _recv of _connection.
CancelReceiver ==
    recv' = [c \in Conns |->
               IF c = connection /\ recv[c] \in {"running", "sleeping"}
               THEN "cancelled" ELSE recv[c]]

\* `await self._connection.close()`, or leaving `async with connect`: later
\* writes raise, and _recv sees ConnectionClosedOK.
CloseConnection ==
    link' = [c \in Conns |-> IF c = connection /\ link[c] = "open"
                             THEN "shut" ELSE link[c]]

\* Mutant of MessageId: self._id read when the message is built.
LatestId(r) == lastId

\* The "id" of the message.
MessageId(r) == call[r].id

\* Mutant of CallersRan: no sleep(0).
NoSleep == TRUE

\* set_result() put the caller that awaits its future on the loop's ready queue
\* before _recv put itself there, so the caller is the first to run.  One that
\* has not come to that await, because its write still drains, is not delayed
\* for.
CallersRan ==
    \A r \in Requests : call[r].stage \in {"reading", "expired"}
                        => call[r].fut # "done"

-----------------------------------------------------------------------------
(* send()                                                                  *)

Send(r) ==
    /\ call[r].stage = "idle"
    /\ lastId < MaxId
    /\ lastId' = lastId + 1
    /\ futures' = [futures EXCEPT ![lastId'] = r]
    /\ call' = [call EXCEPT ![r] = [@ EXCEPT !.id = lastId', !.fut = "pending",
                                             !.stage = "locking"]]
    /\ UNCHANGED <<genVars, subs, closer, envVars>>

\* connected(): __anext__ on a generator that stands at its inner yield.
TakeConnection(r) ==
    /\ call[r].stage = "locking"
    /\ LockFree
    /\ gen = "open"
    /\ call' = [call EXCEPT ![r] = [@ EXCEPT !.conn = connection,
                                             !.stage = "writing"]]
    /\ UNCHANGED <<lastId, futures, genVars, subs, closer, envVars>>

\* connected(): __anext__ makes a connection.  Leaving the bare yield resets
\* retries_left and cancels the receiver of the connection before.
StartConnect(r) ==
    /\ call[r].stage = "locking"
    /\ LockFree
    /\ gen \in {"start", "failed"}
    /\ lock' = r
    /\ gen' = "running"
    /\ retriesLeft' = Retries
    /\ CancelReceiver
    /\ CloseConnection
    /\ Goes(r, "connecting")
    /\ UNCHANGED <<lastId, futures, connection, subs, closer, envVars>>

\* connected(): __anext__ on a finished generator (StopAsyncIteration, turned
\* into RuntimeError), or on one that aclose() is running.
RefuseConnection(r) ==
    /\ call[r].stage = "locking"
    /\ LockFree
    /\ gen \in {"dead", "running"}
    /\ Raise(r, "RuntimeError")
    /\ UNCHANGED <<lastId, genVars, subs, closer, envVars>>

ConnectOk(r) ==
    /\ call[r].stage = "connecting"
    /\ connection < MaxConn
    /\ connection' = connection + 1
    /\ link' = [link EXCEPT ![connection'] = "open"]
    /\ recv' = [recv EXCEPT ![connection'] = "running"]
    /\ retriesLeft' = Retries
    /\ gen' = "open"
    /\ lock' = None
    /\ call' = [call EXCEPT ![r] = [@ EXCEPT !.conn = connection',
                                             !.stage = "writing"]]
    /\ UNCHANGED <<lastId, futures, subs, closer, envVars>>

\* Mutant of ConnectRetry: retries are not counted.
RetryForever(r) ==
    /\ call[r].stage = "connecting"
    /\ retriesLeft' = retriesLeft - 1
    /\ UNCHANGED <<lastId, futures, call, lock, gen, connection, link, recv,
                   subs, closer, envVars>>

\* An error process_exception() calls transient, with retries left: back off
\* and go round the generator's loop again, the lock held.
ConnectRetry(r) ==
    /\ call[r].stage = "connecting"
    /\ retriesLeft > 0
    /\ retriesLeft' = retriesLeft - 1
    /\ UNCHANGED <<lastId, futures, call, lock, gen, connection, link, recv,
                   subs, closer, envVars>>

\* Mutant of ConnectFail: acquire() and release() in place of `async with`, the
\* release skipped by the exception.
LockKept(r) ==
    /\ call[r].stage = "connecting"
    /\ gen' = "failed"
    /\ Raise(r, "AttributeError")
    /\ UNCHANGED <<lastId, lock, connection, retriesLeft, link, recv, subs,
                   closer, envVars>>

\* A fatal error, or no retries left: the bare yield hands None to
\* connected(), and None.send raises AttributeError.
ConnectFail(r) ==
    /\ call[r].stage = "connecting"
    /\ gen' = "failed"
    /\ lock' = None
    /\ Raise(r, "AttributeError")
    /\ UNCHANGED <<lastId, connection, retriesLeft, link, recv, subs, closer,
                   envVars>>

\* connection.send(): the frame goes to the socket ...
Transmit(r) ==
    /\ call[r].stage = "writing"
    /\ link[call[r].conn] = "open"
    /\ frame' = [frame EXCEPT ![r] = MessageId(r)]
    /\ Goes(r, "draining")
    /\ UNCHANGED <<lastId, futures, genVars, subs, closer, served, wire>>

\* ... and send() returns once the write buffer has drained.
WriteOk(r) ==
    /\ call[r].stage = "draining"
    /\ AwaitFuture(r)
    /\ UNCHANGED <<lastId, futures, genVars, closer, envVars>>

\* asyncio.timeout(self._timeout.write), before or after the frame has left.
WriteTimeout(r) ==
    /\ call[r].stage \in {"writing", "draining"}
    /\ Raise(r, "TimeoutError")
    /\ UNCHANGED <<lastId, genVars, subs, closer, envVars>>

\* connection.send() raises ConnectionClosed, and connected() queues for the
\* lock.
WriteFails(r) ==
    /\ call[r].stage \in {"writing", "draining"}
    /\ link[call[r].conn] # "open"
    /\ Goes(r, "throwing")
    /\ UNCHANGED <<lastId, futures, genVars, subs, closer, envVars>>

\* athrow(e) at the inner yield: `async with connect` closes the connection of
\* the generator, whichever connection e came from.
ThrowDisconnects(r) ==
    /\ call[r].stage = "throwing"
    /\ LockFree
    /\ gen = "open"
    /\ lock' = r
    /\ gen' = "running"
    /\ CloseConnection
    /\ Goes(r, "disconnecting")
    /\ UNCHANGED <<lastId, futures, connection, retriesLeft, recv, subs,
                   closer, envVars>>

\* process_exception() calls ConnectionClosed fatal, so the generator stops at
\* its bare yield; athrow() returns, connected() has swallowed e, and send()
\* goes on to wait for its answer.
Disconnected(r) ==
    /\ call[r].stage = "disconnecting"
    /\ gen' = "failed"
    /\ lock' = None
    /\ AwaitFuture(r)
    /\ UNCHANGED <<lastId, futures, connection, retriesLeft, link, recv,
                   closer, envVars>>

\* Mutant of ThrowKills: e is swallowed and the generator goes on.
ThrowSurvives(r) ==
    /\ call[r].stage = "throwing"
    /\ LockFree
    /\ gen = "failed"
    /\ Raise(r, "ConnectionClosed")
    /\ UNCHANGED <<lastId, genVars, subs, closer, envVars>>

\* athrow(e) at the bare yield leaves the generator, which is finished.
ThrowKills(r) ==
    /\ call[r].stage = "throwing"
    /\ LockFree
    /\ gen = "failed"
    /\ gen' = "dead"
    /\ CancelReceiver
    /\ Raise(r, "ConnectionClosed")
    /\ UNCHANGED <<lastId, lock, connection, retriesLeft, link, subs, closer,
                   envVars>>

\* athrow(e) on a finished generator returns None: e is swallowed.
ThrowIgnored(r) ==
    /\ call[r].stage = "throwing"
    /\ LockFree
    /\ gen = "dead"
    /\ AwaitFuture(r)
    /\ UNCHANGED <<lastId, futures, genVars, closer, envVars>>

\* athrow(e) while aclose() runs the generator.
ThrowRefused(r) ==
    /\ call[r].stage = "throwing"
    /\ LockFree
    /\ gen = "running"
    /\ Raise(r, "RuntimeError")
    /\ UNCHANGED <<lastId, genVars, subs, closer, envVars>>

\* The task wakes from `await future`.
Resume(r) ==
    /\ call[r].stage = "reading"
    /\ call[r].fut # "pending"
    /\ AwaitFuture(r)
    /\ UNCHANGED <<lastId, futures, genVars, closer, envVars>>

\* A pending future its waiting task is cancelled in is cancelled too.
Interrupt(r, stage) ==
    LET awaits == call[r].stage = "reading" /\ call[r].fut = "pending" IN
    call' = [call EXCEPT ![r] =
               [@ EXCEPT !.stage = stage,
                         !.fut = IF awaits THEN "cancelled" ELSE call[r].fut]]

\* Mutant of ReadTimeout: no read timeout.
NoReadTimeout(r) == FALSE /\ UNCHANGED vars

\* The timer of asyncio.timeout(self._timeout.read) cancels the task, which
\* wakes up later.
ReadTimeout(r) ==
    /\ call[r].stage = "reading"
    /\ Interrupt(r, "expired")
    /\ UNCHANGED <<lastId, futures, genVars, subs, closer, envVars>>

Expire(r) ==
    /\ call[r].stage = "expired"
    /\ Raise(r, "TimeoutError")
    /\ UNCHANGED <<lastId, genVars, subs, closer, envVars>>

\* The caller's task is cancelled at an await outside the generator ...
Cancel(r) ==
    /\ r \in Cancellable
    /\ call[r].stage \in {"locking", "writing", "draining", "throwing",
                          "reading", "expired"}
    /\ Interrupt(r, "CancelledError")
    /\ UNCHANGED <<lastId, futures, genVars, subs, closer, envVars>>

\* ... or at one inside it: CancelledError finishes the generator.
CancelInGenerator(r) ==
    /\ r \in Cancellable
    /\ call[r].stage \in {"connecting", "disconnecting"}
    /\ Abandon(r)
    /\ gen' = "dead"
    /\ lock' = None
    /\ CancelReceiver
    /\ UNCHANGED <<lastId, connection, retriesLeft, link, subs, closer, envVars>>

-----------------------------------------------------------------------------
(* _recv()                                                                 *)

\* `self._futures.pop(message_body["id"])` and set_result(), which raises
\* InvalidStateError on a cancelled future: that ends the task.  A response
\* nobody waits for is dropped.
DeliverResponse(c) ==
    /\ recv[c] = "running"
    /\ wire[c] # <<>>
    /\ Head(wire[c]).id # 0
    /\ LET m == Head(wire[c])
           r == futures[m.id]
       IN \/ /\ r = None
             /\ UNCHANGED <<futures, call, recv>>
          \/ /\ r # None
             /\ call[r].fut = "pending"
             /\ call' = [call EXCEPT ![r] = [@ EXCEPT !.fut = "done",
                                                      !.got = m.req]]
             /\ futures' = [futures EXCEPT ![m.id] = None]
             /\ recv' = [recv EXCEPT ![c] = "sleeping"]
          \/ /\ r # None
             /\ call[r].fut # "pending"
             /\ futures' = [futures EXCEPT ![m.id] = None]
             /\ recv' = [recv EXCEPT ![c] = "crashed"]
             /\ UNCHANGED call
    /\ wire' = [wire EXCEPT ![c] = Tail(@)]
    /\ UNCHANGED <<lastId, lock, gen, connection, retriesLeft, link, subs,
                   closer, frame, served>>

\* A notification goes to its queue; one nobody subscribed to is dropped.
\* (What a queue holds is not modelled here.)
DeliverNote(c) ==
    /\ recv[c] = "running"
    /\ wire[c] # <<>>
    /\ Head(wire[c]).id = 0
    /\ wire' = [wire EXCEPT ![c] = Tail(@)]
    /\ UNCHANGED <<lastId, futures, call, genVars, subs, closer, frame, served>>

\* `await asyncio.sleep(0)`: one turn of the loop.
Awaken(c) ==
    /\ recv[c] = "sleeping"
    /\ CallersRan
    /\ recv' = [recv EXCEPT ![c] = "running"]
    /\ UNCHANGED <<lastId, futures, call, lock, gen, connection, retriesLeft,
                   link, subs, closer, envVars>>

\* Mutant of ReceiverEnds: `except ConnectionClosed: pass`.
ReceiverEndsSilently(c) ==
    /\ recv[c] = "running"
    /\ wire[c] = <<>>
    /\ link[c] # "open"
    /\ recv' = [recv EXCEPT ![c] = "ended"]
    /\ UNCHANGED <<lastId, futures, call, lock, gen, connection, retriesLeft,
                   link, subs, closer, envVars>>

\* The connection is over and its buffer empty.  ConnectionClosedError is put
\* on every queue; on ConnectionClosedOK the `async for` just ends.
ReceiverEnds(c) ==
    /\ recv[c] = "running"
    /\ wire[c] = <<>>
    /\ link[c] # "open"
    /\ recv' = [recv EXCEPT ![c] = "ended"]
    /\ subs' = [r \in Requests |-> IF link[c] = "lost" /\ subs[r] = "live"
                                   THEN "failed" ELSE subs[r]]
    /\ UNCHANGED <<lastId, futures, call, lock, gen, connection, retriesLeft,
                   link, closer, envVars>>

-----------------------------------------------------------------------------
(* unsubscribe() and close()                                               *)

Unsubscribe(r) ==
    /\ subs[r] # "absent"
    /\ subs' = [subs EXCEPT ![r] = "absent"]
    /\ UNCHANGED <<lastId, futures, call, genVars, closer, envVars>>

\* Mutant of ClearAll: nothing is cancelled.
ClearOnly ==
    /\ futures' = [i \in Ids |-> None]
    /\ subs' = [r \in Requests |-> "absent"]
    /\ UNCHANGED call

\* cancel() on every registered future, and both dicts cleared.
ClearAll ==
    /\ call' = [r \in Requests |->
                  IF call[r].fut = "pending" /\ \E i \in Ids : futures[i] = r
                  THEN [call[r] EXCEPT !.fut = "cancelled"] ELSE call[r]]
    /\ futures' = [i \in Ids |-> None]
    /\ subs' = [r \in Requests |-> "absent"]

\* aclose() at the inner yield waits for the connection to close.
CloseOpen ==
    /\ closer = "idle"
    /\ gen = "open"
    /\ ClearAll
    /\ gen' = "running"
    /\ CloseConnection
    /\ closer' = "closing"
    /\ UNCHANGED <<lastId, lock, connection, retriesLeft, recv, envVars>>

CloseEnd ==
    /\ closer = "closing"
    /\ gen' = "dead"
    /\ CancelReceiver
    /\ closer' = "done"
    /\ UNCHANGED <<lastId, futures, call, lock, connection, retriesLeft, link,
                   subs, envVars>>

\* aclose() anywhere else does not wait.
CloseIdle ==
    /\ closer = "idle"
    /\ gen \in {"start", "failed", "dead"}
    /\ ClearAll
    /\ gen' = "dead"
    /\ CancelReceiver
    /\ CloseConnection
    /\ closer' = "done"
    /\ UNCHANGED <<lastId, lock, connection, retriesLeft, envVars>>

\* aclose() while a call runs the generator raises RuntimeError out of close().
CloseRefused ==
    /\ closer = "idle"
    /\ gen = "running"
    /\ ClearAll
    /\ closer' = "failed"
    /\ UNCHANGED <<lastId, genVars, envVars>>

-----------------------------------------------------------------------------
(* The environment: the server and the network.                            *)

\* The server executes a request once and answers on the connection it came
\* by; the answer is lost with the connection.
Serve(r) ==
    LET c == call[r].conn IN
    /\ frame[r] # 0
    /\ r \notin served
    /\ served' = served \cup {r}
    /\ \/ /\ link[c] \in {"open", "shut"}
          /\ Len(wire[c]) < MaxWire
          /\ wire' = [wire EXCEPT ![c] = Append(@, [id |-> frame[r], req |-> r])]
       \/ /\ link[c] \in {"lost", "gone"}
          /\ UNCHANGED wire
    /\ UNCHANGED <<lastId, futures, call, genVars, subs, closer, frame>>

Notify(r) ==
    LET c == call[r].conn IN
    /\ r \in Subscribing \cap served
    /\ link[c] = "open"
    /\ Len(wire[c]) < MaxWire
    /\ wire' = [wire EXCEPT ![c] = Append(@, [id |-> 0, req |-> r])]
    /\ UNCHANGED <<lastId, futures, call, genVars, subs, closer, frame, served>>

\* The peer goes away, with a close frame ("gone") or without ("lost"); what
\* has not reached the client is lost.
Drop(c) ==
    /\ link[c] = "open"
    /\ \E how \in {"lost", "gone"} : link' = [link EXCEPT ![c] = how]
    /\ \E n \in 0 .. Len(wire[c]) :
         wire' = [wire EXCEPT ![c] = SubSeq(@, 1, n)]
    /\ UNCHANGED <<lastId, futures, call, lock, gen, connection, retriesLeft,
                   recv, subs, closer, frame, served>>

-----------------------------------------------------------------------------

\* What a call does by itself; its timeouts are among it.
Advance(r) ==
    \/ TakeConnection(r) \/ StartConnect(r) \/ RefuseConnection(r)
    \/ ConnectOk(r) \/ ConnectRetry(r) \/ ConnectFail(r)
    \/ Transmit(r) \/ WriteOk(r) \/ WriteTimeout(r) \/ WriteFails(r)
    \/ ThrowDisconnects(r) \/ Disconnected(r)
    \/ ThrowKills(r) \/ ThrowIgnored(r) \/ ThrowRefused(r)
    \/ Resume(r) \/ ReadTimeout(r) \/ Expire(r)

Receive(c) ==
    DeliverResponse(c) \/ DeliverNote(c) \/ Awaken(c) \/ ReceiverEnds(c)

Close == Closable /\ (CloseOpen \/ CloseIdle \/ CloseRefused)

Next ==
    \/ \E r \in Requests : \/ Send(r) \/ Advance(r)
                           \/ Cancel(r) \/ CancelInGenerator(r)
                           \/ Unsubscribe(r) \/ Serve(r) \/ Notify(r)
    \/ \E c \in Conns : Receive(c) \/ Drop(c)
    \/ Close \/ CloseEnd

Spec == Init /\ [][Next]_vars

\* The event loop runs every task that is ready, timers go off, and the
\* library's connect and close handshakes end (open_timeout, close_timeout).
\* Nothing is assumed of the server, of cancellation or of close().
Fairness ==
    /\ \A r \in Requests : WF_vars(Advance(r))
    /\ \A c \in Conns : WF_vars(Receive(c))
    /\ WF_vars(CloseEnd)

FairSpec == Spec /\ Fairness

=============================================================================
