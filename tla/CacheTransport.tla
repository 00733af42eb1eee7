--------------------------- MODULE CacheTransport ---------------------------
(***************************************************************************)
(* turbobt/subtensor/cache.py: answers to some requests are kept in an     *)
(* ordered dict, for ever or until there is no room.                       *)
(*                                                                         *)
(* A task calls CacheTransport.send() for a method of the runtime and the  *)
(* block to run it at: a block that exists, or Latest (the "hash" None).   *)
(* The transport below and the chain are the environment.                  *)
(***************************************************************************)
EXTENDS Integers, Sequences, FiniteSets

CONSTANTS
    Calls,      \* tasks, each of which calls send() again and again
    Methods,    \* what a request may ask
    Cachable,   \* the methods is_cachable() lists
    Absent,     \* no entry in the dict
    MaxSize,    \* max_size of InMemoryStorage
    MaxHead     \* bound: the height of the chain

Latest   == 0
Blocks   == 1 .. MaxHead
Request  == [method : Methods, hash : {Latest} \cup Blocks]
\* What the node answers: the result of a method at a block, or an error.
Response == [method : Methods, at : Blocks, error : BOOLEAN]

ASSUME CacheAssumption ==
    /\ Cachable \subseteq Methods
    /\ Absent \notin Response
    /\ MaxSize \in Nat \ {0}
    /\ MaxHead \in Nat \ {0}

VARIABLES
    head,      \* the chain's latest block
    call,      \* the local state of each task's current call
    cached,    \* InMemoryStorage._cache: key to response, or Absent
    order,     \* the keys of _cache in the order of the dict
    read       \* history: the entries that have answered a request

vars == <<head, call, cached, order, read>>

Stages == {"idle", "sent", "served", "returned", "raised"}

Keys == Request

\* Every variable has its type; the order is that of the entries there are, and
\* those are at most max_size.
TypeOK ==
    /\ head \in Blocks
    /\ call \in [Calls -> [stage : Stages, req : Request \cup {Absent},
                           got : Response \cup {Absent}]]
    /\ cached \in [Keys -> Response \cup {Absent}]
    /\ order \in Seq(Keys)
    /\ Len(order) <= MaxSize
    /\ Len(order) = Cardinality({k \in Keys : cached[k] # Absent})
    /\ \A i \in 1 .. Len(order) : cached[order[i]] # Absent
    /\ read \subseteq {k \in Keys : cached[k] # Absent}

Init ==
    /\ head = 1
    /\ call = [t \in Calls |-> [stage |-> "idle", req |-> Absent, got |-> Absent]]
    /\ cached = [k \in Keys |-> Absent]
    /\ order = <<>>
    /\ read = {}

\* Mutant of Key: the block is left out.
KeyOfMethod(q) == [method |-> q.method, hash |-> Latest]

\* key_generator(): a digest of the method and of every parameter, put one after
\* the other with nothing between.  Of the requests the client makes no two
\* differ and run together to the same bytes (a name of the runtime, parameters
\* of one length, and a hash of 32 bytes or nothing), so the key tells them all
\* apart.
Key(q) == q

-----------------------------------------------------------------------------
(* InMemoryStorage                                                         *)

Without(k) ==
    LET i == CHOOSE i \in 1 .. Len(order) : order[i] = k
    IN SubSeq(order, 1, i - 1) \o SubSeq(order, i + 1, Len(order))

\* Mutant of MoveToFront: last=True.
MoveToEnd(k) == order' = Append(Without(k), k)

\* move_to_end(key, last=False): to the front.
MoveToFront(k) == order' = <<k>> \o Without(k)

\* Mutant of Store: no limit.
StoreUnbounded(k, response) ==
    /\ cached' = [cached EXCEPT ![k] = response]
    /\ order' = IF cached[k] = Absent THEN Append(order, k) ELSE order
    /\ UNCHANGED read

\* set(): a full dict first loses its last entry, whether or not the key is
\* new; a key that is still there keeps its place.
Store(k, response) ==
    LET full   == Len(order) >= MaxSize
        victim == order[Len(order)]
        rest   == IF full THEN SubSeq(order, 1, Len(order) - 1) ELSE order
        stays  == cached[k] # Absent /\ ~ (full /\ k = victim)
    IN /\ order' = IF stays THEN rest ELSE Append(rest, k)
       /\ cached' = [j \in Keys |-> IF j = k THEN response
                                    ELSE IF full /\ j = victim THEN Absent
                                    ELSE cached[j]]
       /\ read' = IF full THEN read \ {victim} ELSE read

-----------------------------------------------------------------------------
(* CacheTransport.send()                                                   *)

\* A task that is in no call may ask for any method at Latest or at a block
\* that exists.
MayAsk(t, q) ==
    /\ call[t].stage \in {"idle", "returned", "raised"}
    /\ q.hash <= head

\* A cachable request found in the dict is answered without an await.
Hit(t, q) ==
    /\ MayAsk(t, q)
    /\ q.method \in Cachable
    /\ cached[Key(q)] # Absent
    /\ call' = [call EXCEPT ![t] = [stage |-> "returned", req |-> q,
                                   got |-> cached[Key(q)]]]
    /\ MoveToFront(Key(q))
    /\ read' = read \cup {Key(q)}
    /\ UNCHANGED <<head, cached>>

\* Anything else goes to the transport, even when another call is asking for
\* the same key.
Miss(t, q) ==
    /\ MayAsk(t, q)
    /\ q.method \in Cachable => cached[Key(q)] = Absent
    /\ call' = [call EXCEPT ![t] = [stage |-> "sent", req |-> q, got |-> Absent]]
    /\ UNCHANGED <<head, cached, order, read>>

\* `if not response.error`.
Remembered(t) == call[t].req.method \in Cachable /\ ~ call[t].got.error

\* The task wakes with the answer, stores it and returns it.
Return(t) ==
    /\ call[t].stage = "served"
    /\ call' = [call EXCEPT ![t].stage = "returned"]
    /\ IF Remembered(t) THEN Store(Key(call[t].req), call[t].got)
                        ELSE UNCHANGED <<cached, order, read>>
    /\ UNCHANGED head

-----------------------------------------------------------------------------
(* The transport below, and the chain.                                     *)

\* The node runs the method at the block asked for, or at the one that is the
\* latest now, or answers with an error (a block it no longer has, say).
Serve(t, error) ==
    LET q == call[t].req IN
    /\ call[t].stage = "sent"
    /\ call' = [call EXCEPT ![t] =
                  [@ EXCEPT !.stage = "served",
                            !.got = [method |-> q.method,
                                     at     |-> IF q.hash = Latest THEN head
                                                ELSE q.hash,
                                     error  |-> error]]]
    /\ UNCHANGED <<head, cached, order, read>>

\* The transport raises, or the task is cancelled.
Fail(t) ==
    /\ call[t].stage \in {"sent", "served"}
    /\ call' = [call EXCEPT ![t] = [@ EXCEPT !.stage = "raised", !.got = Absent]]
    /\ UNCHANGED <<head, cached, order, read>>

NewBlock ==
    /\ head < MaxHead
    /\ head' = head + 1
    /\ UNCHANGED <<call, cached, order, read>>

-----------------------------------------------------------------------------

Next ==
    \/ \E t \in Calls, q \in Request : Hit(t, q) \/ Miss(t, q)
    \/ \E t \in Calls : Return(t) \/ Fail(t)
    \/ \E t \in Calls, error \in BOOLEAN : Serve(t, error)
    \/ NewBlock

Spec == Init /\ [][Next]_vars

-----------------------------------------------------------------------------
(* Properties                                                              *)

\* Hit or miss, whatever was evicted or stored in between, a call gets the
\* result of its own method, and of its own block if it named one.  An error is
\* nobody's answer but that of the call the node gave it to: the next call asks
\* again.
RightAnswer ==
    /\ \A t \in Calls : call[t].stage = "returned" =>
         /\ call[t].got.method = call[t].req.method
         /\ call[t].req.hash # Latest => call[t].got.at = call[t].req.hash
    /\ \A k \in Keys : cached[k] # Absent => ~ cached[k].error

\* What makes it so: an entry answers every request that has its key.
EntriesAnswerTheirKey ==
    \A k \in Keys : cached[k] # Absent =>
        /\ cached[k].method = k.method
        /\ k.hash # Latest => cached[k].at = k.hash
        /\ ~ cached[k].error

\* How room is made: popitem() takes an entry that has answered nothing, as long
\* as there is one.  An entry that has answered a request goes only when they
\* all have, whatever was stored and read in between: answers that are asked for
\* once drive out each other, never one that is asked for again.
UnreadGoFirst ==
    [][\A k \in read : cached'[k] = Absent
                       => \A j \in Keys : cached[j] # Absent => j \in read]_vars

=============================================================================
