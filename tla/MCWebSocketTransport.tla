------------------------ MODULE MCWebSocketTransport ------------------------
(* WebSocketTransport for TLC. *)
EXTENDS WebSocketProperties, TLC

\* Calls that are treated alike.
Alike == Permutations(Requests \ Subscribing)

=============================================================================
