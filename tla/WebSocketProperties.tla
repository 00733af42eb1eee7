------------------------ MODULE WebSocketProperties -------------------------
(***************************************************************************)
(* What WebSocketTransport is meant to guarantee, and that it implements   *)
(* RpcCall.                                                                *)
(***************************************************************************)
EXTENDS WebSocketTransport

Terminal == {"result"} \cup Errors

Started(r) == call[r].stage # "idle"
Ended(r)   == call[r].stage \in Terminal
Active(r)  == Started(r) /\ ~ Ended(r)

-----------------------------------------------------------------------------
(* Matching answers with calls.                                            *)

\* A call returns the answer to its own request, whatever the order in which
\* answers arrive and connections come and go (send() and _recv() share
\* nothing but the id).
ResponseMatches ==
    \A r \in Requests : call[r].stage = "result" => call[r].got = r

\* A call whose future is pending can still be answered: the future is in
\* _futures under the id its message carries.  So close() may not clear the
\* dict without cancelling what it holds, and no call may remove the entry of
\* another.
PendingIsRegistered ==
    \A r \in Requests : Active(r) /\ call[r].fut = "pending"
                        => futures[call[r].id] = r

\* A finished call leaves nothing in _futures, unless its task was cancelled:
\* `except Exception` does not see CancelledError.
OnlyCancellationLeaks ==
    \A i \in Ids, r \in Requests :
        futures[i] = r /\ Ended(r) => call[r].stage = "CancelledError"

\* _futures holds what can still be answered, and nothing else.
NoStrayFutures == PendingIsRegistered /\ OnlyCancellationLeaks

\* Inductive form of the above: an id belongs to one call, and so do the
\* frame, the messages and the future that carry it.
CallIds ==
    /\ \A r \in Requests : /\ call[r].id \in 0 .. lastId
                           /\ Started(r) <=> call[r].id # 0
                           /\ ~ Started(r) => call[r].fut = "none"
    /\ \A r, s \in Requests : call[r].id = call[s].id /\ Started(r) => r = s

MessageIds ==
    /\ \A r \in Requests : frame[r] \in {0, call[r].id}
    /\ \A c \in Conns : \A k \in 1 .. Len(wire[c]) :
         wire[c][k].id # 0 => wire[c][k].id = call[wire[c][k].req].id

Answers ==
    \A r \in Requests : /\ call[r].fut = "done" => call[r].got = r
                        /\ call[r].stage = "result" => call[r].fut = "done"

FutureIds ==
    \A i \in Ids, r \in Requests :
        futures[i] = r => /\ call[r].id = i
                          /\ call[r].fut \in {"pending", "cancelled"}

CallsInv ==
    /\ CallIds
    /\ MessageIds
    /\ Answers
    /\ FutureIds
    /\ PendingIsRegistered
    /\ OnlyCancellationLeaks

\* A _recv task that dies of InvalidStateError met the answer to a call that
\* had been cancelled or had run into its read timeout.  Nothing else, close()
\* included, kills it.
OnlyAbandonedCallsCrash ==
    (\E c \in Conns : recv[c] = "crashed")
    => \E r \in Requests :
         call[r].stage \in {"CancelledError", "expired", "KeyError"}

-----------------------------------------------------------------------------
(* The generator, its lock and its connections.                            *)

\* The generator is never entered twice: while it is suspended inside itself
\* it runs for exactly one task, which is the call that holds the lock or the
\* one that calls close().
LockProtectsGenerator ==
    /\ \A r \in Requests :
         call[r].stage \in {"connecting", "disconnecting"} <=> lock = r
    /\ lock # None => closer # "closing"
    /\ gen = "running" <=> lock # None \/ closer = "closing"

\* RuntimeError is what a call gets from a generator that has finished, or
\* that aclose() runs: it was closed, a task was cancelled inside it, or a
\* second ConnectionClosed went through it (which its caller sees as KeyError
\* when its answer came before).
RuntimeErrorIsExplained ==
    (\E r \in Requests : call[r].stage = "RuntimeError")
    => \/ closer # "idle"
       \/ \E r \in Requests :
            call[r].stage \in {"CancelledError", "ConnectionClosed", "KeyError"}

\* The caller that sees ConnectionClosed sees it because its athrow() finished
\* the generator, and is the only one to see it.
ConnectionClosedIsFatal ==
    \A r \in Requests : call[r].stage = "ConnectionClosed" =>
        /\ gen = "dead"
        /\ \A s \in Requests : call[s].stage = "ConnectionClosed" => s = r

\* Of what may go wrong nothing comes unprovoked: a crashed receiver, a finished
\* generator and the errors that tell of them each have a cause above.
FailuresAreExplained ==
    OnlyAbandonedCallsCrash /\ RuntimeErrorIsExplained /\ ConnectionClosedIsFatal

\* There is one receiver at a time.  Two would race to pop the same futures;
\* `task.cancel()  # TODO needed?` (websocket.py:125) is what prevents it.
SingleReceiver ==
    \A c, d \in Conns :
        {recv[c], recv[d]} \subseteq {"running", "sleeping"} => c = d

\* No connection is left open behind the generator's back: what is open is
\* _connection, and the generator stands at its inner yield.
NoLeakedConnection ==
    \A c \in Conns : link[c] = "open" => c = connection /\ gen = "open"

\* However often the transport has reconnected, there is one connection and one
\* receiver.
OneConnection == NoLeakedConnection /\ SingleReceiver

\* Inductive form of SingleReceiver: the receiver that lives is that of
\* _connection, and there is none while a call connects.
ReceiverOfConnection ==
    \A c \in Conns : recv[c] \in {"running", "sleeping"} =>
        /\ c = connection
        /\ \A r \in Requests : call[r].stage # "connecting"

\* Inductive form of LockProtectsGenerator and OneConnection.
GeneratorInv ==
    LockProtectsGenerator /\ NoLeakedConnection /\ ReceiverOfConnection

-----------------------------------------------------------------------------
(* Subscriptions.                                                          *)

\* `gives time for subscription?` (websocket.py:150): to a caller that awaits
\* its answer when that comes, and to no other.  Of a call that has its answer
\* and has not returned, a notification is read, and dropped, only while its
\* write drains or fails: there the answer can overtake the write, and the caller
\* subscribes too late.
NoteMissedOnlyInWrite ==
    [][\A c \in Conns : DeliverNote(c) =>
         LET r == Head(wire[c]).req IN
         subs[r] = "absent" /\ call[r].fut = "done" /\ ~ Ended(r)
         => call[r].stage \in {"draining", "throwing", "disconnecting"}]_vars

\* A subscriber learns that its connection was lost, unless its receiver was
\* cancelled or has crashed before.
LossIsAnnounced ==
    \A c \in Conns, r \in Subscribing :
        link[c] = "lost" /\ recv[c] = "running" /\ subs[r] = "live"
        ~> subs[r] # "live" \/ recv[c] \in {"cancelled", "crashed"}

-----------------------------------------------------------------------------
(* Calls.                                                                  *)

\* Every call ends, whatever the server and the network do.
EveryCallEnds == \A r \in Requests : Started(r) ~> Ended(r)

\* "The response received from the WebSocket connection" (websocket.py:164) is
\* awaited by calls only that have sent "the JSON-RPC request to be sent".
AwaitedWasSent ==
    \A r \in Requests :
        call[r].stage = "reading" /\ call[r].fut = "pending" => frame[r] # 0

-----------------------------------------------------------------------------
(* Refinement.                                                             *)

phase ==
    [r \in Requests |-> IF ~ Started(r) THEN "idle"
                        ELSE IF ~ Ended(r) THEN "waiting"
                        ELSE IF call[r].stage = "result" THEN "answered"
                        ELSE "failed"]

answer ==
    [r \in Requests |-> IF call[r].stage = "result" THEN call[r].got ELSE None]

Rpc == INSTANCE RpcCall WITH executed <- served

\* send() keeps the promise of RpcCall: it returns the answer to its own
\* request, which the server has executed by then, or raises.
ImplementsRpcCall == Rpc!Spec

=============================================================================
