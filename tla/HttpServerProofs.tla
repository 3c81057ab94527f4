-------------------------- MODULE HttpServerProofs ---------------------------
(***************************************************************************)
(* The invariants of HttpServer for any set of connections, targets,       *)
(* headers, handler outcomes and bounds, and that HttpServer implements    *)
(* HttpConversation.                                                       *)
(***************************************************************************)
EXTENDS HttpServer, TLAPS

\* What the invariants say of connection c, and what they rest on: a write
\* owns a message, and nothing has happened over a connection that is not
\* accepted.
ConnInv(c) ==
  /\ reads[c] + writes[c] = IF sock[c] = "open" THEN 1 ELSE 0
  /\ Len(told[c]) <= Len(asked[c])
  /\ \A i \in DOMAIN told[c] : Conversation!Fits(told[c][i], asked[c], i)
  /\ reads[c] > 0 => Len(asked[c]) = Len(told[c])
  /\ writes[c] > 0 =>
       /\ Len(asked[c]) = Len(told[c]) + 1
       /\ Conversation!Fits(message[c].response, asked[c], Len(asked[c]))
       /\ message[c].keep_alive = KeepAlive(message[c].response.header)
       /\ message[c] \in Writes
  /\ \A i \in DOMAIN told[c] :
       i < Len(asked[c]) \/ reads[c] > 0 => KeepAlive(told[c][i].header)
  /\ sock[c] = "open" => (expiry[c] = "never" <=> asked[c] = <<>>)
  /\ sock[c] \in {"idle", "backlog"} =>
       asked[c] = <<>> /\ told[c] = <<>> /\ expiry[c] = "never"

Inv == TypeOK /\ AcceptorArmed /\ \A c \in Conns : ConnInv(c)

-----------------------------------------------------------------------------
(* Responses.                                                              *)

\* A header asks to keep its connection or does not.
LEMMA KeepAliveIsBoolean == \A h : KeepAlive(h) \in BOOLEAN
  <1> TAKE h
  <1>1. CASE h.version < 11 BY <1>1 DEF KeepAlive
  <1>2. CASE ~(h.version < 11) BY <1>2 DEF KeepAlive
  <1> QED BY <1>1, <1>2

\* Whatever keep_alive is set to on a fresh response, the client reads that.
LEMMA AnnouncesKeepAlive ==
  ASSUME NEW v \in {10, 11}, NEW k \in BOOLEAN
  PROVE  /\ Announcing(v, k) \in Headers
         /\ Announcing(v, k).version = v
         /\ KeepAlive(Announcing(v, k)) = k
  BY DEF Announcing, Headers, KeepAlive

\* The conversation reads headers as the server does.
LEMMA SameHeaders == \A h : Conversation!KeepAlive(h) = KeepAlive(h)
  BY DEF Conversation!KeepAlive, KeepAlive

\* Every answer is a response of the request's version, with a status its
\* target may get and an announcement of the request's own keep-alive.
LEMMA AnswersAnswer ==
  ASSUME NEW q \in Requests, NEW s \in Answers(q)
  PROVE  /\ s \in Responses
         /\ s.status \in StatusesFor(q.target)
         /\ s.header.version = q.header.version
         /\ KeepAlive(s.header) = KeepAlive(q.header)
  <1> DEFINE v == q.header.version
             k == KeepAlive(q.header)
  <1>1. v \in {10, 11} /\ k \in BOOLEAN
    <2>1. q.header \in Headers BY SessionAssumption DEF Requests
    <2> QED BY <2>1, KeepAliveIsBoolean DEF Headers
  <1>2. PICK x \in Statuses :
          x \in StatusesFor(q.target) /\ s = [status |-> x, header |-> Announcing(v, k)]
    <2>1. CASE q.target \in Routed
      <3>1. PICK o \in Outcomes \ {"dies"} : s = Handled(o, v, k)
        BY <2>1 DEF Answers
      <3>2. o \in Statuses \cup {"throws"} BY SessionAssumption
      <3>3. o \in StatusesFor(q.target) \/ o = "throws" BY <2>1 DEF StatusesFor
      <3>4. o = "throws" => "internal_server_error" \in StatusesFor(q.target)
        BY <2>1 DEF StatusesFor
      <3> HIDE DEF v, k
      <3> QED
        BY <3>1, <3>2, <3>3, <3>4
           DEF Handled, Statuses, bad_request, forbidden, not_found,
               internal_server_error, error
    <2>2. CASE q.target \notin Routed
      BY <2>2 DEF Answers, StatusesFor, Statuses, not_found, error
    <2> QED BY <2>1, <2>2
  <1>3. /\ Announcing(v, k) \in Headers
        /\ Announcing(v, k).version = v
        /\ KeepAlive(Announcing(v, k)) = k
    BY <1>1, AnnouncesKeepAlive
  <1> HIDE DEF v, k
  <1>4. s \in Responses /\ s.status = x /\ s.header = Announcing(v, k)
    BY <1>2, <1>3 DEF Responses
  <1> QED BY <1>2, <1>3, <1>4 DEF v, k

-----------------------------------------------------------------------------

\* Inv is the invariants of HttpServer and what they rest on.
LEMMA InvImpliesInvariants == Inv => IInv
  <1> SUFFICES ASSUME Inv PROVE IInv OBVIOUS
  <1>1. NothingReadAfterClose
    <2> SUFFICES ASSUME NEW c \in Conns, NEW i \in DOMAIN told[c],
                        i < Len(asked[c]) \/ reads[c] > 0
        PROVE  KeepAlive(asked[c][i].header) /\ KeepAlive(told[c][i].header)
      BY DEF NothingReadAfterClose
    <2>1. /\ Conversation!Fits(told[c][i], asked[c], i)
          /\ KeepAlive(told[c][i].header)
      BY DEF Inv, ConnInv
    <2> QED BY <2>1, SameHeaders DEF Conversation!Fits
  <1> QED
    BY <1>1 DEF Inv, ConnInv, IInv, OneOperationPerSession,
       AnswersFollowRequests, DeadlineAfterFirstRequest

\* The invariant holds before the server runs.
LEMMA InitInv == Init => Inv
  <1> SUFFICES ASSUME Init PROVE Inv OBVIOUS
  <1>1. TypeOK
    <2>1. /\ <<>> \in Seq(Requests \cup {Malformed})
          /\ <<>> \in Seq(Requests) /\ <<>> \in Seq(Responses)
      OBVIOUS
    <2> QED BY <2>1 DEF Init, TypeOK
  <1>2. AcceptorArmed BY DEF Init, AcceptorArmed
  <1>3. ASSUME NEW c \in Conns PROVE ConnInv(c)
    BY <1>3 DEF Init, ConnInv
  <1> QED BY <1>1, <1>2, <1>3 DEF Inv

\* A step leaves alone what it does not touch of a connection.
LEMMA Untouched ==
  ASSUME NEW c \in Conns, ConnInv(c),
         sock'[c] = sock[c], reads'[c] = reads[c], writes'[c] = writes[c],
         expiry'[c] = expiry[c], message'[c] = message[c],
         asked'[c] = asked[c], told'[c] = told[c]
  PROVE  ConnInv(c)'
  BY DEF ConnInv, Conversation!Fits

\* A client that connects, sends or hangs up, or a deadline that passes,
\* disturbs nothing the session has done.
LEMMA ClientInv ==
  ASSUME Inv, NEW c \in Conns, Client(c)
  PROVE  Inv'
  <1>1. TypeOK /\ AcceptorArmed /\ \A d \in Conns : ConnInv(d) BY DEF Inv
  <1>2. UNCHANGED loop BY DEF Client
  <1>3. AcceptorArmed' BY <1>1, <1>2 DEF AcceptorArmed, loop
  <1>4. CASE Connect(c)
    <2>1. /\ sock[c] = "idle"
          /\ sock' = [sock EXCEPT ![c] = "backlog"]
          /\ UNCHANGED <<inbox, peer, reads, writes, request, expiry, message,
                         asked, told, main, accepts, failures, signalled>>
      BY <1>2, <1>4 DEF Connect, client, loop
    <2>2. TypeOK' BY <1>1, <2>1 DEF TypeOK
    <2>3. sock'[c] = "backlog" BY <1>1, <2>1 DEF TypeOK
    <2>4. ConnInv(c)'
      BY <1>1, <2>1, <2>3 DEF ConnInv, Conversation!Fits
    <2>5. ASSUME NEW d \in Conns, d # c PROVE ConnInv(d)'
      <3>1. sock'[d] = sock[d] BY <1>1, <2>1, <2>5 DEF TypeOK
      <3> QED BY <1>1, <2>1, <3>1, Untouched
    <2> QED BY <1>3, <2>2, <2>4, <2>5 DEF Inv
  <1>5. ASSUME UNCHANGED session, TypeOK' PROVE Inv'
    <2>1. ASSUME NEW d \in Conns PROVE ConnInv(d)'
      BY <1>1, <1>5, Untouched DEF session
    <2> QED BY <1>3, <1>5, <2>1 DEF Inv
  <1>6. ASSUME NEW r \in Requests \cup {Malformed}, Send(c, r)
        PROVE  Inv'
    <2>1. UNCHANGED <<session, loop, peer>> BY <1>2, <1>6 DEF Send
    <2>2. inbox' \in [Conns -> Seq(Requests \cup {Malformed})]
      BY <1>1, <1>6 DEF Send, TypeOK
    <2>3. TypeOK' BY <1>1, <2>1, <2>2 DEF TypeOK, session, loop
    <2> QED BY <1>5, <2>1, <2>3
  <1>7. ASSUME NEW how \in {"fin", "reset"}, HangUp(c, how)
        PROVE  Inv'
    <2>1. UNCHANGED <<session, loop, inbox>> BY <1>2, <1>7 DEF HangUp
    <2>2. peer' \in [Conns -> {"up", "fin", "reset"}]
      BY <1>1, <1>7 DEF HangUp, TypeOK
    <2>3. TypeOK' BY <1>1, <2>1, <2>2 DEF TypeOK, session, loop
    <2> QED BY <1>5, <2>1, <2>3
  <1>8. CASE TimerExpires(c)
    <2>1. /\ sock[c] = "open" /\ expiry[c] = "armed"
          /\ expiry' = [expiry EXCEPT ![c] = "expired"]
          /\ UNCHANGED <<inbox, peer, sock, reads, writes, request, message,
                         asked, told, main, accepts, failures, signalled>>
      BY <1>2, <1>8 DEF TimerExpires, client, loop
    <2>2. TypeOK' BY <1>1, <2>1 DEF TypeOK
    <2>3. expiry'[c] = "expired" BY <1>1, <2>1 DEF TypeOK
    <2>4. ConnInv(c)'
      BY <1>1, <2>1, <2>3 DEF ConnInv, Conversation!Fits
    <2>5. ASSUME NEW d \in Conns, d # c PROVE ConnInv(d)'
      <3>1. expiry'[d] = expiry[d] BY <1>1, <2>1, <2>5 DEF TypeOK
      <3> QED BY <1>1, <2>1, <3>1, Untouched
    <2> QED BY <1>3, <2>2, <2>4, <2>5 DEF Inv
  <1> QED BY <1>4, <1>6, <1>7, <1>8 DEF Client

\* A session is made for an accepted connection with its first read, and the
\* accept that made it is armed again.
LEMMA AcceptInv ==
  ASSUME Inv, NEW c \in Conns, OnAcceptOk(c)
  PROVE  Inv'
  <1>1. TypeOK /\ AcceptorArmed /\ \A d \in Conns : ConnInv(d) BY DEF Inv
  <1>2. /\ sock[c] = "backlog" /\ reads[c] = 0 /\ writes[c] = 0
        /\ asked[c] = <<>> /\ told[c] = <<>> /\ expiry[c] = "never"
    <2>1. sock[c] = "backlog" BY DEF OnAcceptOk
    <2>2. reads[c] + writes[c] = 0 /\ reads[c] \in Nat /\ writes[c] \in Nat
      BY <1>1, <2>1 DEF ConnInv, TypeOK
    <2>3. asked[c] = <<>> /\ told[c] = <<>> /\ expiry[c] = "never"
      BY <1>1, <2>1 DEF ConnInv
    <2> QED BY <2>1, <2>2, <2>3
  <1>3. /\ sock' = [sock EXCEPT ![c] = "open"]
        /\ reads' = [reads EXCEPT ![c] = 1]
        /\ accepts' = accepts
        /\ UNCHANGED <<inbox, peer, writes, request, expiry, message, asked,
                       told, main, failures, signalled>>
    BY <1>1, <1>2 DEF OnAcceptOk, StartSession, AcceptAgain, client, TypeOK
  <1>4. TypeOK' BY <1>1, <1>3 DEF TypeOK
  <1>5. AcceptorArmed' BY <1>1, <1>3 DEF AcceptorArmed
  <1>6. sock'[c] = "open" /\ reads'[c] = 1 BY <1>1, <1>3 DEF TypeOK
  <1>7. ConnInv(c)' BY <1>1, <1>2, <1>3, <1>6 DEF ConnInv
  <1>8. ASSUME NEW d \in Conns, d # c PROVE ConnInv(d)'
    <2>1. sock'[d] = sock[d] /\ reads'[d] = reads[d]
      BY <1>1, <1>3, <1>8 DEF TypeOK
    <2> QED BY <1>1, <1>3, <2>1, Untouched
  <1> QED BY <1>4, <1>5, <1>7, <1>8 DEF Inv

\* What a read that completes without an error does: the next request is
\* asked and the write gets an answer to it.
LEMMA ReadOkStep ==
  ASSUME Inv, NEW c \in Conns, OnReadOk(c), UNCHANGED loop
  PROVE  /\ Head(inbox[c]) \in Requests
         /\ sock[c] = "open" /\ reads[c] = 1 /\ writes[c] = 0
         /\ reads' = [reads EXCEPT ![c] = 0]
         /\ writes' = [writes EXCEPT ![c] = 1]
         /\ expiry' = [expiry EXCEPT ![c] = "armed"]
         /\ asked' = [asked EXCEPT ![c] = Append(@, Head(inbox[c]))]
         /\ inbox' = [inbox EXCEPT ![c] = Tail(@)]
         /\ UNCHANGED <<sock, told, peer, main, accepts, failures, signalled>>
         /\ request' = [request EXCEPT ![c] = Head(inbox[c])]
         /\ \E s \in Answers(Head(inbox[c])) :
              message' = [message EXCEPT ![c] =
                [response |-> s, keep_alive |-> KeepAlive(Head(inbox[c]).header)]]
  <1> DEFINE r == Head(inbox[c])
  <1>1. TypeOK /\ ConnInv(c) BY DEF Inv
  <1>2. r \in Requests
    <2>1. /\ inbox[c] \in Seq(Requests \cup {Malformed})
          /\ inbox[c] # <<>> /\ r # Malformed
      BY <1>1 DEF TypeOK, OnReadOk, Arrived
    <2>2. r \in Requests \cup {Malformed} BY <2>1
    <2> QED BY <2>1, <2>2
  <1>4. reads[c] > 0 BY DEF OnReadOk, Arrived
  <1>5. reads[c] \in Nat /\ writes[c] \in Nat BY <1>1 DEF TypeOK
  <1>6. sock[c] = "open" /\ reads[c] = 1 /\ writes[c] = 0
    BY <1>1, <1>4, <1>5 DEF ConnInv
  <1>7. /\ reads' = [reads EXCEPT ![c] = 0]
        /\ writes' = [writes EXCEPT ![c] = 1]
    BY <1>6 DEF OnReadOk, ReadEnds, ProcessRequest
  <1>8. sock' = sock
    <2>1. reads'[c] + writes'[c] = 1 BY <1>1, <1>7 DEF TypeOK
    <2> QED BY <2>1 DEF OnReadOk, CloseUnowned
  <1>9. /\ expiry' = [expiry EXCEPT ![c] = "armed"]
        /\ asked' = [asked EXCEPT ![c] = Append(@, r)]
        /\ inbox' = [inbox EXCEPT ![c] = Tail(@)]
        /\ UNCHANGED <<told, peer, main, accepts, failures, signalled>>
    BY DEF OnReadOk, ProcessRequest, PushDeadline, loop
  <1>10. request' = [request EXCEPT ![c] = r] BY DEF OnReadOk
  <1>11. request'[c] = r BY <1>1, <1>10 DEF TypeOK
  <1>12. \E s \in Answers(r) : message' = [message EXCEPT ![c] =
           [response |-> s, keep_alive |-> KeepAlive(r.header)]]
    BY <1>11 DEF OnReadOk, ProcessRequest
  <1> QED BY <1>2, <1>6, <1>7, <1>8, <1>9, <1>10, <1>12

\* A request is read: it is the next one of the conversation, what the
\* session writes for it answers it, and the deadline is pushed back.
LEMMA ReadOkInv ==
  ASSUME Inv, NEW c \in Conns, OnReadOk(c), UNCHANGED loop
  PROVE  Inv'
  <1> DEFINE r == Head(inbox[c])
  <1>1. TypeOK /\ AcceptorArmed /\ \A d \in Conns : ConnInv(d) BY DEF Inv
  <1>2. /\ r \in Requests
        /\ sock[c] = "open" /\ reads[c] = 1 /\ writes[c] = 0
        /\ reads' = [reads EXCEPT ![c] = 0]
        /\ writes' = [writes EXCEPT ![c] = 1]
        /\ expiry' = [expiry EXCEPT ![c] = "armed"]
        /\ asked' = [asked EXCEPT ![c] = Append(@, r)]
        /\ inbox' = [inbox EXCEPT ![c] = Tail(@)]
        /\ UNCHANGED <<sock, told, peer, main, accepts, failures, signalled>>
    BY ReadOkStep
  <1>3. PICK s \in Answers(r) :
          /\ request' = [request EXCEPT ![c] = r]
          /\ message' = [message EXCEPT ![c] =
               [response |-> s, keep_alive |-> KeepAlive(r.header)]]
    BY ReadOkStep
  <1>4. /\ s \in Responses
        /\ s.status \in StatusesFor(r.target)
        /\ s.header.version = r.header.version
        /\ KeepAlive(s.header) = KeepAlive(r.header)
    BY <1>2, AnswersAnswer
  <1>5. KeepAlive(r.header) \in BOOLEAN BY KeepAliveIsBoolean
  <1> DEFINE m == [response |-> s, keep_alive |-> KeepAlive(r.header)]
  <1>6. m \in Writes /\ m.response = s /\ m.keep_alive = KeepAlive(s.header)
    BY <1>4, <1>5 DEF Writes
  <1>7. TypeOK'
    <2>1. inbox' \in [Conns -> Seq(Requests \cup {Malformed})]
      <3>1. inbox[c] \in Seq(Requests \cup {Malformed}) /\ inbox[c] # <<>>
        BY <1>1 DEF TypeOK, OnReadOk, Arrived
      <3> QED BY <1>1, <1>2, <3>1 DEF TypeOK
    <2>2. request' \in [Conns -> Requests \cup {NoRequest}]
      BY <1>1, <1>2, <1>3 DEF TypeOK
    <2>3. message' \in [Conns -> Writes \cup {NoMessage}]
      BY <1>1, <1>3, <1>6 DEF TypeOK
    <2>4. asked' \in [Conns -> Seq(Requests)]
      BY <1>1, <1>2 DEF TypeOK
    <2> QED BY <2>1, <2>2, <2>3, <2>4, <1>1, <1>2 DEF TypeOK
  <1>8. AcceptorArmed' BY <1>1, <1>2 DEF AcceptorArmed
  <1>9. ConnInv(c)'
    <2>1. /\ asked[c] \in Seq(Requests) /\ told[c] \in Seq(Responses)
          /\ asked'[c] = Append(asked[c], r)
          /\ Len(asked'[c]) = Len(asked[c]) + 1
          /\ asked'[c][Len(asked[c]) + 1] = r
          /\ \A n \in DOMAIN asked[c] : asked'[c][n] = asked[c][n]
      BY <1>1, <1>2 DEF TypeOK
    <2>2. /\ reads'[c] = 0 /\ writes'[c] = 1 /\ expiry'[c] = "armed"
          /\ message'[c] = m
      BY <1>1, <1>2, <1>3 DEF TypeOK
    <2>3. Len(asked[c]) = Len(told[c]) BY <1>1, <1>2 DEF ConnInv
    <2>4. ASSUME NEW n \in DOMAIN told[c]
          PROVE  /\ Conversation!Fits(told[c][n], asked'[c], n)
                 /\ KeepAlive(told[c][n].header)
      <3>1. /\ Conversation!Fits(told[c][n], asked[c], n)
            /\ KeepAlive(told[c][n].header)
        BY <1>1, <1>2 DEF ConnInv
      <3>2. asked'[c][n] = asked[c][n]
        <4>1. n \in DOMAIN asked[c] BY <2>1, <2>3
        <4> QED BY <2>1, <4>1
      <3> HIDE DEF r
      <3> QED BY <3>1, <3>2 DEF Conversation!Fits
    <2>5. Conversation!Fits(s, asked'[c], Len(asked'[c]))
      <3>1. asked'[c][Len(asked'[c])] = r BY <2>1
      <3> HIDE DEF r
      <3> QED BY <1>4, <3>1, SameHeaders DEF Conversation!Fits
    <2>6. asked'[c] # <<>> BY <2>1
    <2>7. UNCHANGED <<sock, told>> BY <1>2
    <2>8. /\ \A n \in DOMAIN told'[c] :
               Conversation!Fits(told'[c][n], asked'[c], n)
          /\ \A n \in DOMAIN told'[c] : KeepAlive(told'[c][n].header)
      BY <2>4, <2>7
    <2>9. Conversation!Fits(message'[c].response, asked'[c], Len(asked'[c]))
      BY <1>6, <2>2, <2>5
    <2>10. message'[c].keep_alive = KeepAlive(message'[c].response.header)
      BY <1>6, <2>2
    <2>11. /\ sock'[c] = "open" /\ Len(asked'[c]) = Len(told'[c]) + 1
           /\ message'[c] \in Writes
      BY <1>2, <1>6, <2>1, <2>2, <2>3, <2>7
    <2>12. Len(told'[c]) \in Nat BY <2>1, <2>7
    <2> HIDE DEF r, m
    <2> QED
      BY <2>2, <2>6, <2>8, <2>9, <2>10, <2>11, <2>12 DEF ConnInv
  <1>10. ASSUME NEW d \in Conns, d # c PROVE ConnInv(d)'
    <2>1. /\ reads'[d] = reads[d] /\ writes'[d] = writes[d]
          /\ expiry'[d] = expiry[d] /\ asked'[d] = asked[d]
          /\ message'[d] = message[d]
          /\ sock'[d] = sock[d] /\ told'[d] = told[d]
      BY <1>1, <1>2, <1>3, <1>10 DEF TypeOK
    <2> QED BY <1>1, <2>1, Untouched
  <1> QED BY <1>7, <1>8, <1>9, <1>10 DEF Inv

\* What an open session's completed operation leaves behind when it starts no
\* other: the socket closes and the invariant of its connection goes on.
LEMMA SessionEnds ==
  ASSUME Inv, NEW c \in Conns, sock[c] = "open",
         sock' = [sock EXCEPT ![c] = "closed"],
         reads' = [reads EXCEPT ![c] = 0], writes' = [writes EXCEPT ![c] = 0],
         message' = message \/ message' = [message EXCEPT ![c] = NoMessage],
         UNCHANGED <<inbox, peer, request, expiry, asked, told, loop>>
  PROVE  Inv'
  <1>1. TypeOK /\ AcceptorArmed /\ \A d \in Conns : ConnInv(d) BY DEF Inv
  <1>2. TypeOK' BY <1>1 DEF TypeOK, loop
  <1>3. AcceptorArmed' BY <1>1 DEF AcceptorArmed, loop
  <1>4. ConnInv(c)'
    <2>1. sock'[c] = "closed" /\ reads'[c] = 0 /\ writes'[c] = 0
      BY <1>1 DEF TypeOK
    <2> QED BY <1>1, <2>1 DEF ConnInv, Conversation!Fits
  <1>5. ASSUME NEW d \in Conns, d # c PROVE ConnInv(d)'
    <2>1. /\ sock'[d] = sock[d] /\ reads'[d] = reads[d]
          /\ writes'[d] = writes[d] /\ message'[d] = message[d]
      BY <1>1, <1>5 DEF TypeOK
    <2> QED BY <1>1, <2>1, Untouched
  <1> QED BY <1>2, <1>3, <1>4, <1>5 DEF Inv

\* The operation an open session has outstanding is the only one.
LEMMA OnlyOperation ==
  ASSUME Inv, NEW c \in Conns
  PROVE  /\ reads[c] > 0 => sock[c] = "open" /\ reads[c] = 1 /\ writes[c] = 0
         /\ writes[c] > 0 => sock[c] = "open" /\ writes[c] = 1 /\ reads[c] = 0
  <1>1. reads[c] \in Nat /\ writes[c] \in Nat BY DEF Inv, TypeOK
  <1>2. reads[c] + writes[c] = IF sock[c] = "open" THEN 1 ELSE 0
    BY DEF Inv, ConnInv
  <1> QED BY <1>1, <1>2

\* A failed read ends its session and changes nothing of the conversation.
LEMMA ReadErrStep ==
  ASSUME Inv, NEW c \in Conns, OnReadErr(c)
  PROVE  /\ sock[c] = "open"
         /\ sock' = [sock EXCEPT ![c] = "closed"]
         /\ reads' = [reads EXCEPT ![c] = 0]
         /\ writes' = [writes EXCEPT ![c] = 0]
         /\ UNCHANGED <<client, request, expiry, message, asked, told>>
  <1>1. TypeOK BY DEF Inv
  <1>2. sock[c] = "open" /\ reads[c] = 1 /\ writes[c] = 0
    BY OnlyOperation DEF OnReadErr
  <1>3. /\ reads' = [reads EXCEPT ![c] = 0] /\ writes' = writes
        /\ UNCHANGED <<client, request, expiry, message, asked, told>>
    BY <1>2 DEF OnReadErr, ReadEnds
  <1>4. reads'[c] + writes'[c] = 0 BY <1>1, <1>2, <1>3 DEF TypeOK
  <1>5. sock' = [sock EXCEPT ![c] = "closed"]
    BY <1>4 DEF OnReadErr, CloseUnowned
  <1>6. writes' = [writes EXCEPT ![c] = 0] BY <1>1, <1>2, <1>3 DEF TypeOK
  <1> QED BY <1>2, <1>3, <1>5, <1>6

\* A failed write ends its session; the response it owned is never told.
LEMMA WriteErrStep ==
  ASSUME Inv, NEW c \in Conns, OnWriteErr(c)
  PROVE  /\ sock[c] = "open"
         /\ sock' = [sock EXCEPT ![c] = "closed"]
         /\ reads' = [reads EXCEPT ![c] = 0]
         /\ writes' = [writes EXCEPT ![c] = 0]
         /\ message' = [message EXCEPT ![c] = NoMessage]
         /\ UNCHANGED <<client, request, expiry, asked, told>>
  <1>1. TypeOK BY DEF Inv
  <1>2. sock[c] = "open" /\ writes[c] = 1 /\ reads[c] = 0
    BY OnlyOperation DEF OnWriteErr
  <1>3. /\ writes' = [writes EXCEPT ![c] = 0] /\ reads' = reads
        /\ message' = [message EXCEPT ![c] = NoMessage]
        /\ UNCHANGED <<client, request, expiry, asked, told>>
    BY <1>2 DEF OnWriteErr, WriteEnded
  <1>4. reads'[c] + writes'[c] = 0 BY <1>1, <1>2, <1>3 DEF TypeOK
  <1>5. sock' = [sock EXCEPT ![c] = "closed"]
    BY <1>4 DEF OnWriteErr, WriteEnded, CloseUnowned
  <1>6. reads' = [reads EXCEPT ![c] = 0] BY <1>1, <1>2, <1>3 DEF TypeOK
  <1> QED BY <1>2, <1>3, <1>5, <1>6

\* Both keep the invariant.
LEMMA FailureInv ==
  ASSUME Inv, NEW c \in Conns, OnReadErr(c) \/ OnWriteErr(c), UNCHANGED loop
  PROVE  Inv'
  <1>1. CASE OnReadErr(c) BY <1>1, ReadErrStep, SessionEnds DEF client
  <1>2. CASE OnWriteErr(c) BY <1>2, WriteErrStep, SessionEnds DEF client
  <1> QED BY <1>1, <1>2

\* What a completed write does: it tells the response that answers the last
\* request, and the session reads on exactly when the response says so.
LEMMA WriteOkStep ==
  ASSUME Inv, NEW c \in Conns, OnWriteOk(c)
  PROVE  LET s == message[c].response
             keep == KeepAlive(s.header)
         IN  /\ sock[c] = "open" /\ reads[c] = 0 /\ writes[c] = 1
             /\ s \in Responses
             /\ Len(asked[c]) = Len(told[c]) + 1
             /\ Conversation!Fits(s, asked[c], Len(asked[c]))
             /\ writes' = [writes EXCEPT ![c] = 0]
             /\ reads' = [reads EXCEPT ![c] = IF keep THEN 1 ELSE 0]
             /\ sock' = IF keep THEN sock ELSE [sock EXCEPT ![c] = "closed"]
             /\ told' = [told EXCEPT ![c] = Append(@, s)]
             /\ message' = [message EXCEPT ![c] = NoMessage]
             /\ UNCHANGED <<client, request, expiry, asked>>
  <1> DEFINE s == message[c].response
             keep == KeepAlive(s.header)
  <1>1. TypeOK BY DEF Inv
  <1>2. sock[c] = "open" /\ writes[c] = 1 /\ reads[c] = 0
    BY OnlyOperation DEF OnWriteOk
  <1>3. /\ message[c] \in Writes
        /\ Len(asked[c]) = Len(told[c]) + 1
        /\ Conversation!Fits(s, asked[c], Len(asked[c]))
        /\ message[c].keep_alive = keep
    BY <1>2 DEF Inv, ConnInv
  <1>4. s \in Responses BY <1>3 DEF Writes
  <1>5. keep \in BOOLEAN BY KeepAliveIsBoolean
  <1>6. /\ writes' = [writes EXCEPT ![c] = 0]
        /\ reads' = [reads EXCEPT ![c] = IF keep THEN 1 ELSE 0]
        /\ told' = [told EXCEPT ![c] = Append(@, s)]
        /\ message' = [message EXCEPT ![c] = NoMessage]
        /\ UNCHANGED <<client, request, expiry, asked>>
    BY <1>2, <1>3 DEF OnWriteOk, ReadAgain, WriteEnded
  <1>7. reads'[c] + writes'[c] = IF keep THEN 1 ELSE 0
    BY <1>1, <1>6 DEF TypeOK
  <1>8. sock' = IF keep THEN sock ELSE [sock EXCEPT ![c] = "closed"]
    BY <1>5, <1>7 DEF OnWriteOk, WriteEnded, CloseUnowned
  <1> QED BY <1>2, <1>3, <1>4, <1>6, <1>8

\* A response is written to its end.
LEMMA WriteOkInv ==
  ASSUME Inv, NEW c \in Conns, OnWriteOk(c), UNCHANGED loop
  PROVE  Inv'
  <1> DEFINE s == message[c].response
             keep == KeepAlive(s.header)
  <1>1. TypeOK /\ AcceptorArmed /\ \A d \in Conns : ConnInv(d) BY DEF Inv
  <1>2. /\ sock[c] = "open" /\ reads[c] = 0 /\ writes[c] = 1
        /\ s \in Responses
        /\ Len(asked[c]) = Len(told[c]) + 1
        /\ Conversation!Fits(s, asked[c], Len(asked[c]))
        /\ writes' = [writes EXCEPT ![c] = 0]
        /\ reads' = [reads EXCEPT ![c] = IF keep THEN 1 ELSE 0]
        /\ sock' = IF keep THEN sock ELSE [sock EXCEPT ![c] = "closed"]
        /\ told' = [told EXCEPT ![c] = Append(@, s)]
        /\ message' = [message EXCEPT ![c] = NoMessage]
        /\ UNCHANGED <<client, request, expiry, asked>>
    BY WriteOkStep
  <1>3. keep \in BOOLEAN BY KeepAliveIsBoolean
  <1> HIDE DEF keep
  <1>4. TypeOK'
    <2>1. told' \in [Conns -> Seq(Responses)] BY <1>1, <1>2 DEF TypeOK
    <2>2. /\ reads' \in [Conns -> Nat] /\ writes' \in [Conns -> Nat]
          /\ message' \in [Conns -> Writes \cup {NoMessage}]
      BY <1>1, <1>2 DEF TypeOK
    <2>3. sock' \in [Conns -> {"idle", "backlog", "open", "closed"}]
      BY <1>1, <1>2 DEF TypeOK
    <2> QED BY <2>1, <2>2, <2>3, <1>1, <1>2 DEF TypeOK, client, loop
  <1>5. AcceptorArmed' BY <1>1 DEF AcceptorArmed, loop
  <1>6. ConnInv(c)'
    <2>1. /\ told'[c] = Append(told[c], s)
          /\ asked'[c] = asked[c] /\ expiry'[c] = expiry[c]
          /\ writes'[c] = 0 /\ reads'[c] = IF keep THEN 1 ELSE 0
          /\ sock'[c] = IF keep THEN "open" ELSE "closed"
      BY <1>1, <1>2 DEF TypeOK
    <2>2. asked[c] \in Seq(Requests) /\ told[c] \in Seq(Responses)
      BY <1>1 DEF TypeOK
    <2>3. Len(told'[c]) = Len(asked[c]) BY <1>2, <2>1, <2>2
    <2>4. ASSUME NEW i \in DOMAIN told'[c]
          PROVE  /\ Conversation!Fits(told'[c][i], asked[c], i)
                 /\ i < Len(asked[c]) \/ keep => KeepAlive(told'[c][i].header)
      <3>1. CASE i = Len(told[c]) + 1
        BY <1>2, <2>1, <2>2, <3>1 DEF keep
      <3>2. CASE i # Len(told[c]) + 1
        <4>1. i \in DOMAIN told[c] /\ told'[c][i] = told[c][i]
          BY <1>2, <2>1, <2>2, <3>2
        <4>2. i < Len(asked[c]) BY <1>2, <2>2, <4>1
        <4> QED BY <1>1, <4>1, <4>2 DEF ConnInv
      <3> QED BY <3>1, <3>2
    <2>5. asked[c] # <<>> /\ (expiry[c] = "never" <=> asked[c] = <<>>)
      BY <1>1, <1>2, <2>2 DEF ConnInv
    <2>6. /\ \A i \in DOMAIN told'[c] :
               Conversation!Fits(told'[c][i], asked'[c], i)
          /\ \A i \in DOMAIN told'[c] :
               i < Len(asked'[c]) \/ reads'[c] > 0
                 => KeepAlive(told'[c][i].header)
      BY <1>3, <2>1, <2>4
    <2>7. Len(told'[c]) = Len(asked'[c]) /\ Len(told'[c]) \in Nat
      BY <2>1, <2>2, <2>3
    <2> HIDE DEF s
    <2> QED BY <1>3, <2>1, <2>5, <2>6, <2>7 DEF ConnInv
  <1>7. ASSUME NEW d \in Conns, d # c PROVE ConnInv(d)'
    <2>1. /\ sock'[d] = sock[d] /\ reads'[d] = reads[d]
          /\ writes'[d] = writes[d] /\ message'[d] = message[d]
          /\ told'[d] = told[d] /\ asked'[d] = asked[d]
          /\ expiry'[d] = expiry[d]
      BY <1>1, <1>2, <1>3, <1>7 DEF TypeOK
    <2> QED BY <1>1, <2>1, Untouched
  <1> QED BY <1>4, <1>5, <1>6, <1>7 DEF Inv

\* The end of the process releases every operation and closes every socket.
LEMMA TearDownInv ==
  ASSUME Inv, TearDown, main' \in {"exited", "killed"}, signalled' \in BOOLEAN
  PROVE  Inv'
  <1>1. TypeOK /\ \A c \in Conns : ConnInv(c) BY DEF Inv
  <1>2. /\ accepts' = 0
        /\ reads' = [c \in Conns |-> 0]
        /\ writes' = [c \in Conns |-> 0]
        /\ message' = [c \in Conns |-> NoMessage]
        /\ sock' = [c \in Conns |->
             IF sock[c] \in {"backlog", "open"} THEN "closed" ELSE sock[c]]
        /\ UNCHANGED <<inbox, peer, request, expiry, asked, told, failures>>
    BY DEF TearDown, client
  <1>3. TypeOK'
    <2>1. sock' \in [Conns -> {"idle", "backlog", "open", "closed"}]
      BY <1>1, <1>2 DEF TypeOK
    <2>2. /\ reads' \in [Conns -> Nat] /\ writes' \in [Conns -> Nat]
          /\ message' \in [Conns -> Writes \cup {NoMessage}] /\ accepts' \in Nat
      BY <1>2
    <2> QED BY <1>1, <1>2, <2>1, <2>2 DEF TypeOK
  <1>4. AcceptorArmed' BY <1>2 DEF AcceptorArmed
  <1>5. ASSUME NEW c \in Conns PROVE ConnInv(c)'
    <2>1. /\ reads'[c] = 0 /\ writes'[c] = 0
          /\ sock'[c] \in {"idle", "closed"}
          /\ sock'[c] = "idle" => sock[c] = "idle"
      BY <1>1, <1>2 DEF TypeOK
    <2> QED BY <1>1, <1>2, <2>1 DEF ConnInv, Conversation!Fits
  <1> QED BY <1>3, <1>4, <1>5 DEF Inv

\* main(), a failed accept, a signal and the teardown.
LEMMA LoopInv ==
  ASSUME Inv, Run \/ EnterLoop \/ OnAcceptErr \/ OnSignal \/ Exit \/ Signal
  PROVE  Inv'
  <1>1. TypeOK /\ AcceptorArmed /\ \A d \in Conns : ConnInv(d) BY DEF Inv
  <1>2. ASSUME UNCHANGED <<client, session>>, AcceptorArmed',
               accepts' \in Nat, failures' \in Nat, signalled' \in BOOLEAN,
               main' \in {"setup", "listening", "running", "stopped", "exited", "killed"}
        PROVE  Inv'
    <2>1. TypeOK' BY <1>1, <1>2 DEF TypeOK, client, session
    <2>2. ASSUME NEW c \in Conns PROVE ConnInv(c)'
      BY <1>1, <1>2, Untouched DEF session
    <2> QED BY <1>2, <2>1, <2>2 DEF Inv
  <1>3. /\ accepts \in Nat /\ failures \in Nat /\ signalled \in BOOLEAN
        /\ main \in {"setup", "listening", "running", "stopped", "exited", "killed"}
    BY <1>1 DEF TypeOK
  <1>4. CASE Run
    BY <1>1, <1>2, <1>3, <1>4 DEF Run, AcceptorArmed
  <1>5. CASE EnterLoop
    BY <1>1, <1>2, <1>3, <1>5 DEF EnterLoop, AcceptorArmed
  <1>6. CASE OnAcceptErr
    BY <1>1, <1>2, <1>3, <1>6 DEF OnAcceptErr, AcceptAgain, AcceptorArmed
  <1>7. CASE OnSignal
    BY <1>1, <1>2, <1>3, <1>7 DEF OnSignal, AcceptorArmed
  <1>8. CASE Exit BY <1>3, <1>8, TearDownInv DEF Exit
  <1>9. CASE Signal
    <2>1. CASE main \in {"setup", "listening"}
      BY <1>9, <2>1, TearDownInv DEF Signal
    <2>2. CASE main \notin {"setup", "listening"}
      BY <1>1, <1>2, <1>3, <1>9, <2>2 DEF Signal, AcceptorArmed
    <2> QED BY <2>1, <2>2
  <1> QED BY <1>4, <1>5, <1>6, <1>7, <1>8, <1>9

\* Every step of the server, and every step that is none of the server's.
LEMMA NextInv == Inv /\ [Next]_vars => Inv'
  <1> SUFFICES ASSUME Inv, [Next]_vars PROVE Inv' OBVIOUS
  <1>1. CASE UNCHANGED vars
    <2>1. TypeOK /\ AcceptorArmed /\ \A d \in Conns : ConnInv(d) BY DEF Inv
    <2>2. TypeOK' BY <1>1, <2>1 DEF TypeOK, vars, client, session, loop
    <2>3. AcceptorArmed' BY <1>1, <2>1 DEF AcceptorArmed, vars, loop
    <2>4. ASSUME NEW c \in Conns PROVE ConnInv(c)'
      BY <1>1, <2>1, Untouched DEF vars, session
    <2> QED BY <2>2, <2>3, <2>4 DEF Inv
  <1>2. CASE Run \/ EnterLoop \/ OnAcceptErr \/ OnSignal \/ Exit \/ Signal
    BY <1>2, LoopInv
  <1>3. ASSUME NEW c \in Conns,
               OnAcceptOk(c) \/ Client(c) \/ Handler(c) \/ Die(c)
        PROVE  Inv'
    <2>1. CASE OnAcceptOk(c) BY <2>1, AcceptInv
    <2>2. CASE Client(c) BY <2>2, ClientInv
    <2>3. CASE Handler(c)
      BY <2>3, ReadOkInv, WriteOkInv, FailureInv DEF Handler
    <2>4. CASE Die(c)
      <3>1. signalled \in BOOLEAN BY DEF Inv, TypeOK
      <3> QED BY <2>4, <3>1, TearDownInv DEF Die
    <2> QED BY <1>3, <2>1, <2>2, <2>3, <2>4
  <1> QED BY <1>1, <1>2, <1>3 DEF Next

\* Inv holds of every state the server can reach.
THEOREM InvHolds == Spec => []Inv
  BY InitInv, NextInv, PTL DEF Spec

-----------------------------------------------------------------------------

\* Every variable keeps its type; in particular no counter of outstanding
\* operations is taken below zero.
THEOREM TypeCorrect == Spec => []TypeOK
  BY InvHolds, InvImpliesInvariants, PTL DEF IInv

\* However accepts, reads, writes, errors and the teardown interleave, an open
\* session owns exactly one asynchronous operation and a closed one none.
THEOREM OneOperation == Spec => []OneOperationPerSession
  BY InvHolds, InvImpliesInvariants, PTL DEF IInv

\* The acceptor is armed from server.run() to the teardown.
THEOREM Accepting == Spec => []AcceptorArmed
  BY InvHolds, InvImpliesInvariants, PTL DEF IInv

\* The i-th response written over a connection answers the i-th request read
\* from it, for any handler and any pipelining client, and
\* what it announces of the connection is what the session goes on to do.
THEOREM InOrder == Spec => []AnswersFollowRequests
  BY InvHolds, InvImpliesInvariants, PTL DEF IInv

\* Nothing is read behind a response that announced the end.
THEOREM LastRequestIsLast == Spec => []NothingReadAfterClose
  BY InvHolds, InvImpliesInvariants, PTL DEF IInv

\* Only the first read of a session runs without a deadline.
THEOREM Deadlines == Spec => []DeadlineAfterFirstRequest
  BY InvHolds, InvImpliesInvariants, PTL DEF IInv

-----------------------------------------------------------------------------
(* The server implements the conversation it promises its clients.         *)

\* The conversation starts where the server does.
LEMMA ConversationInit == Init => Conversation!Init
  BY DEF Init, Conversation!Init, Link

\* A step that changes no socket and no history is none of the conversation's.
LEMMA LinkUnchanged ==
  ASSUME UNCHANGED <<sock, asked, told>>
  PROVE  UNCHANGED Conversation!vars
  BY DEF Conversation!vars, Link

\* Making the session of a connection begins its conversation.
LEMMA AcceptBegins ==
  ASSUME Inv, NEW c \in Conns, OnAcceptOk(c)
  PROVE  Conversation!Begin(c)
  <1>1. /\ sock[c] = "backlog" /\ sock' = [sock EXCEPT ![c] = "open"]
        /\ UNCHANGED <<asked, told>>
    BY DEF OnAcceptOk, StartSession
  <1> QED BY <1>1 DEF Conversation!Begin, Link, Inv, TypeOK

\* Reading a request asks it.
LEMMA ReadAsks ==
  ASSUME Inv, NEW c \in Conns, OnReadOk(c), UNCHANGED loop
  PROVE  \E r \in Requests : Conversation!Ask(c, r)
  <1> DEFINE r == Head(inbox[c])
  <1>1. /\ r \in Requests
        /\ sock[c] = "open" /\ reads[c] = 1
        /\ asked' = [asked EXCEPT ![c] = Append(@, r)]
        /\ UNCHANGED <<sock, told>>
    BY ReadOkStep
  <1>2. /\ Len(asked[c]) = Len(told[c])
        /\ \A i \in DOMAIN told[c] : KeepAlive(told[c][i].header)
    BY <1>1 DEF Inv, ConnInv
  <1> HIDE DEF r
  <1>3. Conversation!Ask(c, r)
    BY <1>1, <1>2, SameHeaders DEF Conversation!Ask, Link
  <1> QED BY <1>1, <1>3

\* Writing a response to its end tells it, and ends the conversation when it
\* says so.
LEMMA WriteTells ==
  ASSUME Inv, NEW c \in Conns, OnWriteOk(c)
  PROVE  \E s \in Conversation!Responses : Conversation!Tell(c, s)
  <1> DEFINE s == message[c].response
             keep == KeepAlive(s.header)
  <1>1. /\ sock[c] = "open" /\ s \in Responses
        /\ Len(asked[c]) = Len(told[c]) + 1
        /\ Conversation!Fits(s, asked[c], Len(asked[c]))
        /\ sock' = IF keep THEN sock ELSE [sock EXCEPT ![c] = "closed"]
        /\ told' = [told EXCEPT ![c] = Append(@, s)]
        /\ UNCHANGED asked
    BY WriteOkStep
  <1>2. s \in Conversation!Responses
    BY <1>1 DEF Responses, Conversation!Responses, Statuses,
         Conversation!Statuses, Headers, Conversation!Headers
  <1>3. keep \in BOOLEAN /\ Conversation!KeepAlive(s.header) = keep
    BY KeepAliveIsBoolean, SameHeaders
  <1> HIDE DEF keep
  <1>4. Link' = IF keep THEN Link ELSE [Link EXCEPT ![c] = "closed"]
    BY <1>1, <1>3 DEF Link, Inv, TypeOK
  <1>5. Link[c] = "open" BY <1>1 DEF Link
  <1> HIDE DEF s
  <1>6. Conversation!Tell(c, s)
    BY <1>1, <1>3, <1>4, <1>5 DEF Conversation!Tell
  <1> QED BY <1>2, <1>6

\* A failed read or write ends the conversation of its connection.
LEMMA FailureEnds ==
  ASSUME Inv, NEW c \in Conns, OnReadErr(c) \/ OnWriteErr(c)
  PROVE  Conversation!End({c})
  <1>1. /\ sock[c] = "open"
        /\ sock' = [sock EXCEPT ![c] = "closed"]
        /\ UNCHANGED <<asked, told>>
    BY ReadErrStep, WriteErrStep
  <1> QED BY <1>1 DEF Conversation!End, Link, Inv, TypeOK

\* The end of the process ends all conversations, and refuses the connections
\* that wait for theirs.
LEMMA TearDownEnds ==
  ASSUME Inv, TearDown
  PROVE  \E gone \in SUBSET Conns : Conversation!End(gone)
  <1> DEFINE gone == {c \in Conns : sock[c] \in {"backlog", "open"}}
  <1>1. Conversation!End(gone)
    BY DEF Conversation!End, TearDown, Link, Inv, TypeOK
  <1> QED BY <1>1

\* Every step of the server is a step of the conversation or leaves it alone.
LEMMA ConversationNext ==
  Inv /\ [Next]_vars => [Conversation!Next]_Conversation!vars
  <1> SUFFICES ASSUME Inv, [Next]_vars
      PROVE  Conversation!Next \/ UNCHANGED Conversation!vars
    OBVIOUS
  <1>1. CASE UNCHANGED vars BY <1>1, LinkUnchanged DEF vars, session
  <1>2. CASE Run \/ EnterLoop \/ OnAcceptErr \/ OnSignal
    BY <1>2, LinkUnchanged DEF Run, EnterLoop, OnAcceptErr, OnSignal, session
  <1>3. CASE TearDown BY <1>3, TearDownEnds DEF Conversation!Next
  <1>4. CASE Exit \/ Signal
    BY <1>3, <1>4, LinkUnchanged DEF Exit, Signal, session
  <1>5. ASSUME NEW c \in Conns,
               OnAcceptOk(c) \/ Client(c) \/ Handler(c) \/ Die(c)
        PROVE  Conversation!Next \/ UNCHANGED Conversation!vars
    <2>1. CASE OnAcceptOk(c)
      BY <2>1, AcceptBegins DEF Conversation!Next
    <2>2. CASE Client(c)
      <3>1. CASE Connect(c)
        BY <3>1 DEF Connect, Conversation!vars, Link, Inv, TypeOK
      <3>2. CASE UNCHANGED <<sock, asked, told>> BY <3>2, LinkUnchanged
      <3> QED BY <2>2, <3>1, <3>2 DEF Client, Send, HangUp, TimerExpires, session
    <2>3. CASE Handler(c)
      <3>1. \/ \E r \in Requests : Conversation!Ask(c, r)
            \/ \E s \in Conversation!Responses : Conversation!Tell(c, s)
            \/ Conversation!End({c})
        BY <2>3, ReadAsks, WriteTells, FailureEnds DEF Handler
      <3> QED BY <3>1 DEF Conversation!Next
    <2>4. CASE Die(c) BY <1>3, <2>4 DEF Die
    <2> QED BY <1>5, <2>1, <2>2, <2>3, <2>4
  <1> QED BY <1>1, <1>2, <1>4, <1>5 DEF Next

\* The server keeps the promise of HttpConversation to every client.
THEOREM Refinement == Spec => ImplementsConversation
  BY ConversationInit, ConversationNext, InvHolds, PTL
     DEF Spec, ImplementsConversation, Conversation!Spec

=============================================================================
