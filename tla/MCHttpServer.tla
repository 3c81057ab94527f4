---------------------------- MODULE MCHttpServer -----------------------------
(* Small instances of HttpServer for TLC.                                  *)
EXTENDS HttpServer

KeptHeader == {[version |-> 11, connection |-> {}]}

EitherWay == [version : {11}, connection : {{}, {"close"}}]

\* Both versions, with the token that changes what happens to the connection
\* and without.
FourHeaders ==
  [version : {10}, connection : {{}, {"keep-alive"}}]
    \cup [version : {11}, connection : {{}, {"close"}}]

=============================================================================
