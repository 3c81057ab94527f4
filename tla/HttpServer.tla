----------------------------- MODULE HttpServer ------------------------------
(***************************************************************************)
(* The running server: main() from the moment the acceptor is bound, the   *)
(* accept loop of HttpServer::Impl, the sessions, SIGINT/SIGTERM, and the  *)
(* teardown of the io_context with the operations still outstanding in it. *)
(***************************************************************************)
EXTENDS HttpSession

CONSTANT MaxFailures  \* bound: how often accepting a connection fails

ASSUME ServerAssumption == MaxFailures \in Nat

VARIABLES
  main,       \* main(): "setup", "listening", "running" (the signal_set waits,
              \* in ioc.run), "stopped", "exited", or "killed" at any point
  accepts,    \* outstanding async_accept operations of acceptor_
  failures,   \* how often an accept completed with an error
  signalled   \* SIGINT or SIGTERM was sent to the process

loop == <<main, accepts, failures, signalled>>
vars == <<client, session, loop>>

Ended == main \in {"exited", "killed"}

Init ==
  /\ inbox = [c \in Conns |-> <<>>]
  /\ peer = [c \in Conns |-> "up"]
  /\ sock = [c \in Conns |-> "idle"]
  /\ reads = [c \in Conns |-> 0]
  /\ writes = [c \in Conns |-> 0]
  /\ request = [c \in Conns |-> NoRequest]
  /\ expiry = [c \in Conns |-> "never"]
  /\ message = [c \in Conns |-> NoMessage]
  /\ asked = [c \in Conns |-> <<>>]
  /\ told = [c \in Conns |-> <<>>]
  /\ main = "setup"
  /\ accepts = 0
  /\ failures = 0
  /\ signalled = FALSE

\* server.run(): the first accept_request().
Run ==
  /\ main = "setup"
  /\ main' = "listening"
  /\ accepts' = accepts + 1
  /\ UNCHANGED <<client, session, failures, signalled>>

\* The signal_set takes over SIGINT and SIGTERM and waits, ioc.run() is entered.
EnterLoop ==
  /\ main = "listening"
  /\ main' = "running"
  /\ UNCHANGED <<client, session, accepts, failures, signalled>>

\* An on_accept that ends without accept_request().
AcceptNoMore == accepts' = accepts - 1

\* on_accept ends with the next accept_request(), whatever ec says.
AcceptAgain == accepts' = (accepts - 1) + 1

\* on_accept without an error: a session for the socket.
OnAcceptOk(c) ==
  /\ main = "running"
  /\ accepts > 0
  /\ sock[c] = "backlog"
  /\ StartSession(c)
  /\ AcceptAgain
  /\ UNCHANGED <<main, failures, signalled>>

\* on_accept with an error: no session.
OnAcceptErr ==
  /\ main = "running"
  /\ accepts > 0
  /\ failures < MaxFailures
  /\ failures' = failures + 1
  /\ AcceptAgain
  /\ UNCHANGED <<client, session, main, signalled>>

\* A handle_signal that waits for the sessions to end.
OnSignalDraining ==
  /\ main = "running"
  /\ signalled
  /\ \A c \in Conns : sock[c] # "open"
  /\ main' = "stopped"
  /\ UNCHANGED <<client, session, accepts, failures, signalled>>

\* handle_signal: ioc.stop(), so that ioc.run() runs no further handler.
OnSignal ==
  /\ main = "running"
  /\ signalled
  /\ main' = "stopped"
  /\ UNCHANGED <<client, session, accepts, failures, signalled>>

\* The io_context is destroyed and with it every operation still outstanding,
\* so every session; the acceptor goes with its accept.
TearDown ==
  /\ accepts' = 0
  /\ reads' = [c \in Conns |-> 0]
  /\ writes' = [c \in Conns |-> 0]
  /\ message' = [c \in Conns |-> NoMessage]
  /\ sock' = [c \in Conns |->
                IF sock[c] \in {"backlog", "open"} THEN "closed" ELSE sock[c]]
  /\ UNCHANGED <<client, request, expiry, asked, told, failures>>

\* main() returns.
Exit ==
  /\ main = "stopped"
  /\ main' = "exited"
  /\ TearDown
  /\ UNCHANGED signalled

\* A signal: the signal_set keeps it for its handler, and without a signal_set
\* it ends the process.
Signal ==
  /\ ~Ended /\ ~signalled
  /\ signalled' = TRUE
  /\ IF main \in {"setup", "listening"}
     THEN main' = "killed" /\ TearDown
     ELSE UNCHANGED <<client, session, main, accepts, failures>>

\* A route handler takes the process with it.
Die(c) ==
  /\ main = "running"
  /\ Arrived(c)
  /\ Head(inbox[c]).target \in Routed /\ "dies" \in Outcomes
  /\ main' = "killed"
  /\ TearDown
  /\ UNCHANGED signalled

Client(c) ==
  /\ ~Ended
  /\ \/ Connect(c)
     \/ \E r \in Requests \cup {Malformed} : Send(c, r)
     \/ \E how \in {"fin", "reset"} : HangUp(c, how)
     \/ TimerExpires(c)
  /\ UNCHANGED loop

Handler(c) ==
  /\ main = "running"
  /\ \/ OnReadOk(c)
     \/ OnReadErr(c)
     \/ OnWriteOk(c)
     \/ OnWriteErr(c)
  /\ UNCHANGED loop

Next ==
  \/ Run \/ EnterLoop
  \/ \E c \in Conns : OnAcceptOk(c) \/ Client(c) \/ Handler(c) \/ Die(c)
  \/ OnAcceptErr
  \/ Signal \/ OnSignal
  \/ Exit

Spec == Init /\ [][Next]_vars

\* The io_context runs the handler of whatever is ready, and time passes.  It
\* is not assumed that a write gets through (the client need not read), that
\* a client sends or closes anything, or that a signal comes.
Fairness ==
  /\ WF_vars(Run) /\ WF_vars(EnterLoop) /\ WF_vars(OnSignal) /\ WF_vars(Exit)
  /\ \A c \in Conns :
       /\ WF_vars(OnAcceptOk(c))
       /\ WF_vars(~Ended /\ TimerExpires(c) /\ UNCHANGED loop)
       /\ WF_vars(main = "running" /\ OnReadOk(c) /\ UNCHANGED loop)
       /\ WF_vars(main = "running" /\ OnReadErr(c) /\ UNCHANGED loop)
       /\ WF_vars(/\ main = "running"
                  /\ expiry[c] = "expired"
                  /\ OnWriteErr(c)
                  /\ UNCHANGED loop)

FairSpec == Spec /\ Fairness

-----------------------------------------------------------------------------
(* Safety.                                                                 *)

\* The type of every variable of the server.
TypeOK ==
  /\ inbox \in [Conns -> Seq(Requests \cup {Malformed})]
  /\ peer \in [Conns -> {"up", "fin", "reset"}]
  /\ sock \in [Conns -> {"idle", "backlog", "open", "closed"}]
  /\ reads \in [Conns -> Nat]
  /\ writes \in [Conns -> Nat]
  /\ request \in [Conns -> Requests \cup {NoRequest}]
  /\ expiry \in [Conns -> {"never", "armed", "expired"}]
  /\ message \in [Conns -> Writes \cup {NoMessage}]
  /\ asked \in [Conns -> Seq(Requests)]
  /\ told \in [Conns -> Seq(Responses)]
  /\ main \in {"setup", "listening", "running", "stopped", "exited", "killed"}
  /\ accepts \in Nat
  /\ failures \in Nat
  /\ signalled \in BOOLEAN

\* A session with an open socket has exactly one operation outstanding: with
\* two, a read and a write handler would race for request_; with none it
\* would be gone.  A closed connection has none left that holds the session.
OneOperationPerSession ==
  \A c \in Conns :
    reads[c] + writes[c] = IF sock[c] = "open" THEN 1 ELSE 0

\* From server.run() to the teardown there is exactly one async_accept
\* outstanding, whatever connections were made, failed or stopped meanwhile.
AcceptorArmed ==
  accepts = IF main \in {"listening", "running", "stopped"} THEN 1 ELSE 0

\* The server implements the conversation it promises each client.
Link ==
  [c \in Conns |-> IF sock[c] \in {"idle", "backlog"} THEN "none" ELSE sock[c]]

Conversation == INSTANCE HttpConversation WITH link <- Link

ImplementsConversation == Conversation!Spec

\* The i-th response written over a connection answers the i-th request read
\* from it, pipelined or not, and what it says of the connection is what the
\* write's handler will do.  A request waits for its response while, and only
\* while, an async_write owns that response, so a session that reads again has
\* answered everything.
AnswersFollowRequests ==
  \A c \in Conns :
    /\ Len(told[c]) <= Len(asked[c])
    /\ \A i \in DOMAIN told[c] : Conversation!Fits(told[c][i], asked[c], i)
    /\ reads[c] > 0 => Len(asked[c]) = Len(told[c])
    /\ writes[c] > 0 =>
         /\ Len(asked[c]) = Len(told[c]) + 1
         /\ Conversation!Fits(message[c].response, asked[c], Len(asked[c]))
         /\ message[c].keep_alive = KeepAlive(message[c].response.header)

\* The session reads on only behind requests that all asked to go on and
\* responses that all told the client so, even when the client has pipelined
\* more: neither side's close is overlooked.
NothingReadAfterClose ==
  \A c \in Conns : \A i \in DOMAIN told[c] :
    i < Len(asked[c]) \/ reads[c] > 0 =>
      KeepAlive(asked[c][i].header) /\ KeepAlive(told[c][i].header)

\* Every operation of a session that has read a request runs against a
\* deadline; the session's first read is the one that has none.
DeadlineAfterFirstRequest ==
  \A c \in Conns :
    sock[c] = "open" => (expiry[c] = "never" <=> asked[c] = <<>>)

IInv ==
  /\ TypeOK
  /\ OneOperationPerSession
  /\ AcceptorArmed
  /\ AnswersFollowRequests
  /\ NothingReadAfterClose
  /\ DeadlineAfterFirstRequest

-----------------------------------------------------------------------------
(* Liveness, under FairSpec.                                               *)

\* Every response's write ends, even when the client never reads: the
\* deadline set before the write fails it.
WriteEnds == \A c \in Conns : writes[c] > 0 ~> writes[c] = 0

\* A kept-alive connection whose client falls silent does not hold its
\* session: the deadline set for the last request ends the next read too.
IdleEnds ==
  \A c \in Conns : reads[c] > 0 /\ asked[c] # <<>> ~> reads[c] = 0

\* The server keeps accepting: no connection stays in the backlog, whatever
\* accepts failed before, unless the server stops.
BacklogDrains ==
  \A c \in Conns :
    sock[c] = "backlog" /\ ~Ended ~> sock[c] # "backlog"

\* A signal ends the process, whatever sessions are open, silent or writing,
\* and also when it comes before main() waits for it.
SignalEnds == signalled ~> Ended

\* Every read of a session ends, the first one included, as the configured
\* timeout_seconds suggests.  The code arms no deadline before the first
\* request, so a silent client holds its session for ever.
EveryReadEnds == \A c \in Conns : reads[c] > 0 ~> reads[c] = 0

=============================================================================
