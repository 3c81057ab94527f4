---------------------------- MODULE HttpMessages ----------------------------
(***************************************************************************)
(* What a connection depends on in an HTTP message, its version and the    *)
(* tokens of its Connection field, as Boost.Beast reads and writes them,   *)
(* and ResponseFactory, which builds the responses.                        *)
(***************************************************************************)
EXTENDS Naturals

Statuses == {"ok", "bad_request", "forbidden", "not_found",
             "internal_server_error"}

\* The parser refuses any version but HTTP/1.0 and HTTP/1.1.
Headers ==
  [version : {10, 11}, connection : SUBSET {"close", "keep-alive"}]

Responses == [status : Statuses, header : Headers]

\* message::keep_alive(): does this header ask to keep the connection?
KeepAlive(h) ==
  IF h.version < 11 THEN "keep-alive" \in h.connection
                    ELSE "close" \notin h.connection

\* message::keep_alive(bool) on a message without a Connection field.
Announcing(version, keep_alive) ==
  [version    |-> version,
   connection |-> IF version < 11
                  THEN IF keep_alive THEN {"keep-alive"} ELSE {}
                  ELSE IF keep_alive THEN {} ELSE {"close"}]

-----------------------------------------------------------------------------

\* A factory that leaves out keep_alive, whose default is false.
errorByDefault(status, version, keep_alive) ==
  [status |-> status, header |-> Announcing(version, FALSE)]

\* ResponseFactory::error.
error(status, version, keep_alive) ==
  [status |-> status, header |-> Announcing(version, keep_alive)]

bad_request(version, keep_alive) == error("bad_request", version, keep_alive)

forbidden(version, keep_alive) == error("forbidden", version, keep_alive)

not_found(version, keep_alive) == error("not_found", version, keep_alive)

internal_server_error(version, keep_alive) ==
  error("internal_server_error", version, keep_alive)

=============================================================================
