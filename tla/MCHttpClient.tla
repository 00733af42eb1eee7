---------------------------- MODULE MCHttpClient ----------------------------
(* HttpClient, and with it RuntimeInit, for TLC. *)
EXTENDS HttpClient

E(code, data) == [code |-> code, data |-> data]

\* The last of the listed reasons, and none; an unknown block; another
\* error.
SomeErrors == {E(1010, 255), E(1010, NoNumber), E(4003, NoNumber),
               E(-32000, NoNumber)}

=============================================================================
