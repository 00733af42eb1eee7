----------------------------- MODULE HttpClient ------------------------------
(***************************************************************************)
(* RuntimeInit over turbobt/substrate/transports/http.py, and rpc() of     *)
(* substrate/client.py and subtensor/client.py between them: each request  *)
(* of a call is one HTTP exchange, and an error of the node an exception.  *)
(*                                                                         *)
(* A call makes up to two requests: the metadata for everybody, and its    *)
(* own.  Every step here is a step of RuntimeInit or leaves it as it is.   *)
(***************************************************************************)
EXTENDS RuntimeInit, Exceptions

CONSTANT Errors     \* the errors the node may answer with

\* The body of a response without "error".
Result == [code |-> 0, data |-> 0]

ASSUME HttpAssumption == Errors \subseteq [code : Int, data : Int] \ {Result}

Exchanges == Calls \X {"metadata", "own"}

Metadata(t) == <<t, "metadata">>
Own(t)      == <<t, "own">>

VARIABLES
    lastId,     \* _id
    closed,     \* aclose() was called
    http,       \* each exchange
    reply,      \* the body of its response: an error, or Result
    executed,   \* the requests the node has executed
    raised      \* the class of the exception a call has raised

httpVars == <<lastId, closed, http, reply, executed, raised>>

allVars == <<vars, httpVars>>

\* What is raised by httpx or json(), by the decoding of a result, and by None
\* where the metadata should be; and nothing.
Classes == ErrorClasses \cup {"UnknownBlock", "SubstrateException", "HTTPError",
                              "DecodeError", "TypeError", "CancelledError", "none"}

\* Every variable has its type, and a call has raised exactly when it has ended
\* without a result.
HttpTypeOK ==
    /\ TypeOK
    /\ lastId \in Nat
    /\ closed \in BOOLEAN
    /\ http \in [Exchanges -> {"none", "posted", "replied", "answered", "refused", "failed"}]
    /\ reply \in [Exchanges -> Errors \cup {Result}]
    /\ executed \subseteq Exchanges
    /\ raised \in [Calls -> Classes]
    /\ \A t \in Calls : raised[t] # "none" <=> stage[t] \in Ended \ {"returned"}

HttpInit ==
    /\ Init
    /\ lastId = 0
    /\ closed = FALSE
    /\ http = [r \in Exchanges |-> "none"]
    /\ reply = [r \in Exchanges |-> Result]
    /\ executed = {}
    /\ raised = [t \in Calls |-> "none"]

-----------------------------------------------------------------------------
(* HTTPTransport.send()                                                    *)

\* post() of a client that was closed raises before anything is sent.
Post(r, exchanges) ==
    /\ lastId' = lastId + 1
    /\ http' = IF closed THEN exchanges ELSE [exchanges EXCEPT ![r] = "posted"]

\* Mutant of IsError: `"error" in response_body` is not looked at.
NeverError(body) == FALSE

IsError(body) == body # Result

\* The response has come: whether it has a result ...
Answered(r) == http[r] = "replied" /\ ~ IsError(reply[r])

\* ... or an error.
Refused(r) == http[r] = "replied" /\ IsError(reply[r])

\* The exchange is over for the caller; one that was not begun stays so.
Over(r, how) == [http EXCEPT ![r] = IF @ = "none" THEN @ ELSE how]

Close ==
    /\ ~ closed
    /\ closed' = TRUE
    /\ UNCHANGED <<vars, lastId, http, reply, executed, raised>>

-----------------------------------------------------------------------------
(* The node, which works also for callers that are gone                    *)

\* The answer to a caller that has given up comes to nobody.
Responds(r, body) ==
    /\ reply' = [reply EXCEPT ![r] = IF http[r] = "posted" THEN body ELSE @]
    /\ http' = [http EXCEPT ![r] = IF @ = "posted" THEN "replied" ELSE @]
    /\ UNCHANGED <<vars, lastId, closed, raised>>

\* It executes a request, which may fail then.
Serve(r) ==
    /\ http[r] \in {"posted", "failed"}
    /\ r \notin executed
    /\ executed' = executed \cup {r}
    /\ \E body \in Errors \cup {Result} : Responds(r, body)

\* It refuses a request.
Refuse(r) ==
    /\ http[r] = "posted"
    /\ UNCHANGED executed
    /\ \E body \in Errors : Responds(r, body)

-----------------------------------------------------------------------------
(* The calls                                                               *)

Raises(t, class) == raised' = [raised EXCEPT ![t] = class]

Rest == UNCHANGED <<closed, reply, executed>>

HttpEnter(t) == Enter(t) /\ UNCHANGED httpVars

\* With metadata the request follows at once, without it api_call() raises.
HttpReady(t) ==
    /\ Ready(t)
    /\ IF metadata THEN Post(Own(t), http) /\ UNCHANGED raised
                   ELSE Raises(t, "TypeError") /\ UNCHANGED <<lastId, http>>
    /\ Rest

HttpLoad(t) == Load(t) /\ Post(Metadata(t), http) /\ UNCHANGED raised /\ Rest

HttpLoaded(t) ==
    /\ Answered(Metadata(t))
    /\ Loaded(t)
    /\ Post(Own(t), Over(Metadata(t), "answered"))
    /\ UNCHANGED raised /\ Rest

\* The request for the metadata raises, is refused, or brings none.
HttpLoadFails(t) ==
    /\ LoadFails(t)
    /\ \/ http' = Over(Metadata(t), "failed") /\ Raises(t, "HTTPError")
       \/ /\ Answered(Metadata(t))
          /\ http' = Over(Metadata(t), "answered") /\ Raises(t, "DecodeError")
       \/ /\ Refused(Metadata(t))
          /\ http' = Over(Metadata(t), "refused")
          /\ Raises(t, ClassOf(reply[Metadata(t)]))
    /\ UNCHANGED lastId /\ Rest

HttpReturn(t) ==
    /\ Answered(Own(t))
    /\ Call(t)
    /\ http' = Over(Own(t), "answered")
    /\ Raises(t, IF stage'[t] = "returned" THEN "none" ELSE "DecodeError")
    /\ UNCHANGED lastId /\ Rest

HttpRaise(t) ==
    /\ Call(t) /\ stage'[t] = "raised"
    /\ \/ http' = Over(Own(t), "failed") /\ Raises(t, "HTTPError")
       \/ /\ Refused(Own(t))
          /\ http' = Over(Own(t), "refused")
          /\ Raises(t, ClassOf(reply[Own(t)]))
    /\ UNCHANGED lastId /\ Rest

\* Cancelled, with or without a request on its way.
HttpCancel(t) ==
    /\ \/ Cancel(t) /\ http' = Over(Own(t), "failed")
       \/ CancelLoad(t) /\ http' = Over(Metadata(t), "failed")
    /\ Raises(t, "CancelledError")
    /\ UNCHANGED lastId /\ Rest

\* What the event loop and httpx bring about: a request ends within its timeout.
HttpAdvance(t) ==
    \/ HttpReady(t) \/ HttpLoad(t) \/ HttpLoaded(t) \/ HttpLoadFails(t)
    \/ HttpReturn(t) \/ HttpRaise(t)

HttpNext ==
    \/ \E t \in Calls : HttpEnter(t) \/ HttpAdvance(t) \/ HttpCancel(t)
    \/ \E r \in Exchanges : Serve(r) \/ Refuse(r)
    \/ Close

HttpSpec == HttpInit /\ [][HttpNext]_allVars

FairHttpSpec == HttpSpec /\ \A t \in Calls : WF_allVars(HttpAdvance(t))

-----------------------------------------------------------------------------
(* Properties                                                              *)

Phase(r) == CASE http[r] = "none"                  -> "idle"
              [] http[r] \in {"posted", "replied"} -> "waiting"
              [] http[r] = "answered"              -> "answered"
              [] OTHER                             -> "failed"

Phases(kind)  == [t \in Calls |-> Phase(<<t, kind>>)]
Done(kind)    == {t \in Calls : <<t, kind>> \in executed}
Answers(kind) == [t \in Calls |-> IF http[<<t, kind>>] = "answered" THEN t ELSE None]

\* The requests for the metadata, and the calls' own.
MetadataRpc == INSTANCE RpcCall WITH
    Requests <- Calls, phase <- Phases("metadata"), executed <- Done("metadata"),
    answer   <- Answers("metadata")
OwnRpc == INSTANCE RpcCall WITH
    Requests <- Calls, phase <- Phases("own"), executed <- Done("own"),
    answer   <- Answers("own")

\* A request over HTTP ends with a result only when the node has executed it,
\* and otherwise with an error that leaves that open: what RpcCall asks of a
\* transport, as of the WebSocket.
HttpImplementsRpcCall == MetadataRpc!Spec /\ OwnRpc!Spec

\* What a call has raised says what the node said, of the call's own request or
\* of the one for the metadata: an unknown block, a transaction that was not
\* taken, and which of the listed reasons; nothing of the sort is raised when
\* the node has said nothing, and no two listed reasons look the same.
ErrorsKeepTheirMeaning ==
    LET Said(t) == {reply[r] : r \in {q \in {Metadata(t), Own(t)} : http[q] = "refused"}}
        Listed(e) == e.code = InvalidTransaction /\ e.data \in DOMAIN CustomErrors
    IN /\ \A t \in Calls :
            /\ raised[t] = "UnknownBlock" <=> \E e \in Said(t) : e.code = BlockNotFound
            /\ raised[t] \in ErrorClasses <=> \E e \in Said(t) : e.code = InvalidTransaction
            /\ stage[t] = "returned" => Said(t) = {}
       /\ \A t, u \in Calls : \A e \in Said(t), f \in Said(u) :
            Listed(e) /\ e # f => raised[t] # raised[u]

=============================================================================
