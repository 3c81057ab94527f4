-------------------------- MODULE HttpConversation --------------------------
(***************************************************************************)
(* What the server promises a client, one conversation per connection:     *)
(* requests are taken one at a time and in order, each is answered at most *)
(* once and by a response to that very request, and the conversation goes  *)
(* on exactly while the responses say that it does.  A response says so    *)
(* where its own request asked for it.  The server may end a conversation  *)
(* at any time.                                                            *)
(***************************************************************************)
EXTENDS Naturals, Sequences, HttpMessages

CONSTANTS Conns, Requests, StatusesFor(_)

VARIABLES
  link,   \* per connection: "none", "open" or "closed"
  asked,  \* per connection: the requests taken
  told    \* per connection: the responses given

vars == <<link, asked, told>>

\* Response s answers the i-th of the requests rs.
Fits(s, rs, i) ==
  /\ s.status \in StatusesFor(rs[i].target)
  /\ s.header.version = rs[i].header.version
  /\ KeepAlive(s.header) = KeepAlive(rs[i].header)

Init ==
  /\ link = [c \in Conns |-> "none"]
  /\ asked = [c \in Conns |-> <<>>]
  /\ told = [c \in Conns |-> <<>>]

Begin(c) ==
  /\ link[c] = "none"
  /\ link' = [link EXCEPT ![c] = "open"]
  /\ UNCHANGED <<asked, told>>

Ask(c, r) ==
  /\ link[c] = "open"
  /\ Len(asked[c]) = Len(told[c])
  /\ \A i \in DOMAIN told[c] : KeepAlive(told[c][i].header)
  /\ asked' = [asked EXCEPT ![c] = Append(@, r)]
  /\ UNCHANGED <<link, told>>

Tell(c, s) ==
  /\ link[c] = "open"
  /\ Len(asked[c]) = Len(told[c]) + 1
  /\ Fits(s, asked[c], Len(asked[c]))
  /\ told' = [told EXCEPT ![c] = Append(@, s)]
  /\ link' = IF KeepAlive(s.header) THEN link ELSE [link EXCEPT ![c] = "closed"]
  /\ UNCHANGED asked

\* Ends the conversations of the connections in gone.
End(gone) ==
  /\ link' = [c \in Conns |-> IF c \in gone THEN "closed" ELSE link[c]]
  /\ UNCHANGED <<asked, told>>

Next ==
  \/ \E c \in Conns :
       \/ Begin(c)
       \/ \E r \in Requests : Ask(c, r)
       \/ \E s \in Responses : Tell(c, s)
  \/ \E gone \in SUBSET Conns : End(gone)

Spec == Init /\ [][Next]_vars

=============================================================================
