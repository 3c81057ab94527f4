----------------------------- MODULE HttpSession -----------------------------
(***************************************************************************)
(* HttpSession: one object per accepted connection.  It reads a request,   *)
(* processes it, writes the response and, when the request asked to keep   *)
(* the connection alive, reads again.                                      *)
(*                                                                         *)
(* A session lives as long as some outstanding asynchronous operation      *)
(* holds a shared_ptr to it: reads[c] and writes[c] count those            *)
(* operations, and the socket closes with the last of them.  A completion  *)
(* handler runs to its end on the one thread of the io_context, so a step  *)
(* is the completion of an operation together with its whole handler.      *)
(***************************************************************************)
EXTENDS Sequences, HttpMessages

CONSTANTS
  Conns,          \* the connections clients may open
  Targets,        \* the request targets clients may ask for
  Routed,         \* those of them some route prefix matches
  Outcomes,       \* what a route handler may do: see Handled
  ClientHeaders,  \* the headers clients may send
  MaxRequests,    \* bound: requests a client sends over one connection
  Malformed,      \* bytes the HTTP parser rejects
  NoRequest,      \* the value of request_ before the first read completes
  NoMessage       \* no async_write outstanding

ASSUME SessionAssumption ==
  /\ Routed \subseteq Targets
  /\ Outcomes \subseteq Statuses \cup {"throws", "dies"}
  /\ ClientHeaders \subseteq Headers
  /\ MaxRequests \in Nat
  /\ Malformed \notin [target : Targets, header : ClientHeaders]

VARIABLES
  inbox,    \* per connection: what the client sent and no read has consumed
  peer,     \* per connection: "up", "fin" (closed its end) or "reset"
  sock,     \* per connection: "idle", "backlog", "open" or "closed"
  reads,    \* outstanding http::async_read operations of the session
  writes,   \* outstanding beast::async_write operations of the session
  request,  \* request_, reused by every read of the session
  expiry,   \* the deadline of socket_: "never", "armed" or "expired"
  message,  \* what the outstanding async_write owns: see Writes
  asked,    \* history: the requests read, in order, as they were sent
  told      \* history: the responses written to their end, in order

client  == <<inbox, peer>>
session == <<sock, reads, writes, request, expiry, message, asked, told>>

Requests == [target : Targets, header : ClientHeaders]

\* The response, and the keep_alive that the write's handler captured.
Writes == [response : Responses, keep_alive : BOOLEAN]

-----------------------------------------------------------------------------
(* The client's end of a connection.                                       *)

Connect(c) ==
  /\ sock[c] = "idle"
  /\ sock' = [sock EXCEPT ![c] = "backlog"]
  /\ UNCHANGED <<client, reads, writes, request, expiry, message, asked, told>>

\* Requests may be pipelined: the client need not wait for a response.
Send(c, r) ==
  /\ sock[c] \in {"backlog", "open"}
  /\ peer[c] = "up"
  /\ Len(asked[c]) + Len(inbox[c]) < MaxRequests
  /\ inbox' = [inbox EXCEPT ![c] = Append(@, r)]
  /\ UNCHANGED <<peer, session>>

HangUp(c, how) ==
  /\ sock[c] \in {"backlog", "open"}
  /\ peer[c] = "up"
  /\ peer' = [peer EXCEPT ![c] = how]
  /\ UNCHANGED <<inbox, session>>

\* Time passes; tcp_stream fails what is outstanding at its deadline.
TimerExpires(c) ==
  /\ sock[c] = "open"
  /\ expiry[c] = "armed"
  /\ expiry' = [expiry EXCEPT ![c] = "expired"]
  /\ UNCHANGED <<client, sock, reads, writes, request, message, asked, told>>

-----------------------------------------------------------------------------
(* Responses.                                                              *)

\* The response to a routed request whose handler does o: its own, or the one
\* made for it when it throws.
Handled(o, version, keep_alive) ==
  CASE o = "ok" -> [status |-> o, header |-> Announcing(version, keep_alive)]
    [] o = "bad_request" -> bad_request(version, keep_alive)
    [] o = "forbidden" -> forbidden(version, keep_alive)
    [] o = "not_found" -> not_found(version, keep_alive)
    [] OTHER -> internal_server_error(version, keep_alive)

\* The responses process_request may make of request q.
Answers(q) ==
  LET keep_alive == KeepAlive(q.header) IN
  IF q.target \in Routed
  THEN {Handled(o, q.header.version, keep_alive) : o \in Outcomes \ {"dies"}}
  ELSE {not_found(q.header.version, keep_alive)}

\* Their statuses, for target t.
StatusesFor(t) ==
  IF t \in Routed
  THEN {IF o = "throws" THEN "internal_server_error" ELSE o :
          o \in Outcomes \ {"dies"}}
  ELSE {"not_found"}

-----------------------------------------------------------------------------
(* The session.                                                            *)

\* ~HttpSession: with its last outstanding operation gone, nothing owns the
\* session, and its socket closes.
CloseUnowned(c) ==
  sock' = IF reads'[c] + writes'[c] = 0
          THEN [sock EXCEPT ![c] = "closed"]
          ELSE sock

\* The constructor and start() of the session on_accept makes.
StartSession(c) ==
  /\ sock' = [sock EXCEPT ![c] = "open"]
  /\ reads' = [reads EXCEPT ![c] = @ + 1]
  /\ UNCHANGED <<client, writes, request, expiry, message, asked, told>>

\* A read whose handler starts the next one at once.
ReadOn(c) == UNCHANGED reads

\* A read that gives up its session twice.
ReadEndsTwice(c) == reads' = [reads EXCEPT ![c] = @ - 2]

\* An async_read completes, and with it its hold on the session.
ReadEnds(c) == reads' = [reads EXCEPT ![c] = @ - 1]

\* A deadline that is left as it was.
LeaveDeadline(c) == UNCHANGED expiry

\* socket_.expires_after.
PushDeadline(c) == expiry' = [expiry EXCEPT ![c] = "armed"]

\* process_request: push the deadline back, answer, start the write.
ProcessRequest(c) ==
  /\ PushDeadline(c)
  /\ \E s \in Answers(request'[c]) :
       message' = [message EXCEPT ![c] =
         [response |-> s, keep_alive |-> KeepAlive(request'[c].header)]]
  /\ writes' = [writes EXCEPT ![c] = @ + 1]

\* The read can complete without an error.
Arrived(c) == reads[c] > 0 /\ inbox[c] # <<>> /\ Head(inbox[c]) # Malformed

\* on_read without an error.  The parser clears the fields of request_ before
\* it fills them; the body, which no code reads, is left out.
OnReadOk(c) ==
  /\ Arrived(c)
  /\ inbox' = [inbox EXCEPT ![c] = Tail(@)]
  /\ ReadEnds(c)
  /\ asked' = [asked EXCEPT ![c] = Append(@, Head(inbox[c]))]
  /\ request' = [request EXCEPT ![c] = Head(inbox[c])]
  /\ ProcessRequest(c)
  /\ UNCHANGED <<peer, told>>
  /\ CloseUnowned(c)

\* What makes the outstanding read complete with an error.
ReadFails(c) ==
  \/ inbox[c] # <<>> /\ Head(inbox[c]) = Malformed
  \/ inbox[c] = <<>> /\ peer[c] = "fin"
  \/ peer[c] = "reset"
  \/ expiry[c] = "expired"

\* on_read with an error: nothing is started, the session is let go.
OnReadErr(c) ==
  /\ reads[c] > 0
  /\ ReadFails(c)
  /\ ReadEnds(c)
  /\ UNCHANGED <<client, writes, request, expiry, message, asked, told>>
  /\ CloseUnowned(c)

\* The write's handler reads again whatever it captured.
ReadAgainAlways(c) == reads' = [reads EXCEPT ![c] = @ + 1]

\* Read again if the request asked to keep the connection.
ReadAgain(c) ==
  reads' = [reads EXCEPT ![c] = IF message[c].keep_alive THEN @ + 1 ELSE @]

\* An async_write completes; the response it owned is gone with it.
WriteEnded(c) ==
  /\ writes' = [writes EXCEPT ![c] = @ - 1]
  /\ message' = [message EXCEPT ![c] = NoMessage]
  /\ UNCHANGED <<client, request, expiry, asked>>
  /\ CloseUnowned(c)

\* The write's handler without an error.
OnWriteOk(c) ==
  /\ writes[c] > 0
  /\ told' = [told EXCEPT ![c] = Append(@, message[c].response)]
  /\ ReadAgain(c)
  /\ WriteEnded(c)

\* What makes the outstanding write complete with an error: the client is
\* gone, the deadline passed, or the file behind a body cannot be read.
WriteFails(c) ==
  \/ peer[c] # "up"
  \/ expiry[c] = "expired"
  \/ message[c].response.status = "ok"

\* A write's handler that does not look at ec.
OnWriteErrIgnored(c) ==
  writes[c] > 0 /\ WriteFails(c) /\ ReadAgain(c) /\ WriteEnded(c) /\ UNCHANGED told

\* The write's handler with an error: the session is let go.
OnWriteErr(c) ==
  writes[c] > 0 /\ WriteFails(c) /\ UNCHANGED <<reads, told>> /\ WriteEnded(c)

=============================================================================
