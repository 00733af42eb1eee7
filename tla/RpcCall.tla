------------------------------ MODULE RpcCall -------------------------------
(***************************************************************************)
(* What a transport's send() promises (transports/base.py): a call ends    *)
(* with the answer to its own request, which the server has executed by    *)
(* then, or with an error, which says nothing about the server: it may     *)
(* have executed the request, or execute it later, but never twice.        *)
(***************************************************************************)

CONSTANTS Requests, None

VARIABLES
    phase,      \* what the caller of send() knows
    executed,   \* the requests the server has executed
    answer      \* whose answer each call returned

rpcVars == <<phase, executed, answer>>

Init ==
    /\ phase = [r \in Requests |-> "idle"]
    /\ executed = {}
    /\ answer = [r \in Requests |-> None]

Invoke(r) ==
    /\ phase[r] = "idle"
    /\ phase' = [phase EXCEPT ![r] = "waiting"]
    /\ UNCHANGED <<executed, answer>>

Execute(r) ==
    /\ phase[r] # "idle"
    /\ r \notin executed
    /\ executed' = executed \cup {r}
    /\ UNCHANGED <<phase, answer>>

Answer(r) ==
    /\ phase[r] = "waiting"
    /\ r \in executed
    /\ phase' = [phase EXCEPT ![r] = "answered"]
    /\ answer' = [answer EXCEPT ![r] = r]
    /\ UNCHANGED executed

Fail(r) ==
    /\ phase[r] = "waiting"
    /\ phase' = [phase EXCEPT ![r] = "failed"]
    /\ UNCHANGED <<executed, answer>>

Next == \E r \in Requests : Invoke(r) \/ Execute(r) \/ Answer(r) \/ Fail(r)

Spec == Init /\ [][Next]_rpcVars

=============================================================================
