--------------------------- MODULE RadixRoutesProofs --------------------------
(***************************************************************************)
(* What add_route does to the routes and to the compression of the trees,  *)
(* for any patterns in any order, that a router is a set of routes, and    *)
(* that the search of match finds the best of them.                        *)
(***************************************************************************)
EXTENDS RadixRouterProofs

-----------------------------------------------------------------------------
(* The routes.                                                             *)

\* A step registers nothing, or it ends an add_route and adds one route.
OnlyAdds ==
  \/ UNCHANGED Routes
  \/ /\ call # NoCall /\ call' = NoCall /\ outcome' = "added"
     /\ \E route : Routes' = Routes \cup {route}

\* Routes depend on the nodes' routes and places only.
LEMMA SameRoutes ==
  ASSUME NodeIds' = NodeIds \/ \E x : NodeIds' = NodeIds \cup {x} /\ nodes'[x].route = {},
         \A a \in NodeIds : nodes'[a].route = nodes[a].route /\ where'[a] = where[a]
  PROVE  UNCHANGED Routes
  <1>1. \A a \in NodeIds : RouteAt(a)' = RouteAt(a) BY DEF RouteAt
  <1>2. CASE NodeIds' = NodeIds BY <1>1, <1>2 DEF Routes
  <1>3. ASSUME NEW x, NodeIds' = NodeIds \cup {x}, nodes'[x].route = {}
        PROVE  UNCHANGED Routes
    <2>1. RouteAt(x)' = {} BY <1>3 DEF RouteAt
    <2> QED BY <1>1, <1>3, <2>1 DEF Routes
  <1> QED BY <1>2, <1>3

\* A place that is added moves no other.
LEMMA PlacesKept ==
  ASSUME TypeOK, NEW q, where' = Append(where, q)
  PROVE  \A a \in NodeIds : where'[a] = where[a]
  <1>1. where \in Seq(Places) /\ DOMAIN where = NodeIds
    <2>1. /\ where \in Seq(Places) /\ nodes \in Seq(Nodes)
          /\ Len(where) = Len(nodes)
      BY DEF TypeOK, Places, Nodes
    <2> QED BY <2>1, LenProperties DEF NodeIds
  <1> QED BY <1>1

\* Grow: node n has one more static child, the new node x.
Branched(n, x) ==
  /\ n \in NodeIds /\ n = call.cur /\ x \notin NodeIds
  /\ NodeIds' = NodeIds \cup {x}
  /\ nodes'[n].route = nodes[n].route /\ nodes'[n].type = nodes[n].type
  /\ nodes'[n].prefix = nodes[n].prefix
  /\ nodes'[n].parameter = nodes[n].parameter
  /\ nodes'[n].catch_all = nodes[n].catch_all
  /\ Len(nodes'[n].static) = Len(nodes[n].static) + 1
  /\ nodes'[x].route = {} /\ call'.cur = x
  /\ \A a \in NodeIds : where'[a] = where[a] /\ (a # n => nodes'[a] = nodes[a])

\* That is what Grow does.
LEMMA GrowNodes == Inv /\ Grow => \E n, x : Branched(n, x)
  <1> SUFFICES ASSUME Inv, Grow PROVE \E n, x : Branched(n, x) OBVIOUS
  <1>1. TypeOK /\ call # NoCall BY DEF Inv, Grow
  <1>2. PICK n \in NodeIds, w \in Texts, x \in Nat :
          n = call.cur /\ w = call.text /\ x = Len(nodes) + 1
    <2>1. /\ call.cur \in NodeIds /\ call.text \in Texts /\ Len(nodes) + 1 \in Nat
      BY <1>1, CallTypes, NodeTypes DEF Texts
    <2> QED BY <2>1
  <1>3. nodes \in Seq(Nodes) /\ NodeIds = DOMAIN nodes /\ nodes[n] \in Nodes
    BY <1>1, NodeTypes DEF NodeIds
  <1> DEFINE static == Append(nodes[n].static, x)
             e == [nodes[n] EXCEPT !.static = static]
  <1>4. /\ nodes' = Append([nodes EXCEPT ![n] = e], NewNode("static", w))
        /\ where' = Append(where, [where[n] EXCEPT !.shape = @ \o w])
        /\ call' = [call EXCEPT !.cur = x, !.text = <<>>]
    BY <1>2 DEF Grow
  <1>5. static \in Seq(Nat) /\ Len(static) = Len(nodes[n].static) + 1
    BY <1>1, NodeTypes
  <1> HIDE DEF static
  <1>6. /\ e \in Nodes /\ e.route = nodes[n].route /\ e.type = nodes[n].type
        /\ e.prefix = nodes[n].prefix /\ e.parameter = nodes[n].parameter
        /\ e.catch_all = nodes[n].catch_all /\ e.static = static
    BY <1>3, <1>5 DEF Nodes
  <1>7. NewNode("static", w) \in Nodes /\ NewNode("static", w).route = {}
    BY DEF NewNode, Nodes, Kinds
  <1> HIDE DEF e
  <1>8. /\ NodeIds' = NodeIds \cup {x} /\ x \notin NodeIds
        /\ nodes'[n] = e /\ nodes'[x] = NewNode("static", w)
        /\ \A a \in NodeIds : a # n => nodes'[a] = nodes[a]
    BY <1>2, <1>3, <1>4, <1>6, <1>7, ChangedAndAppended DEF NodeIds
  <1>9. \A a \in NodeIds : where'[a] = where[a] BY <1>1, <1>4, PlacesKept
  <1>10. call'.cur = x BY <1>1, <1>4, CallTypes DEF Calls
  <1>11. Branched(n, x)
    BY <1>2, <1>5, <1>6, <1>7, <1>8, <1>9, <1>10 DEF Branched
  <1> QED BY <1>11

\* Special: node n has a special child, the new node x.
Specialised(n, x) ==
  /\ n \in NodeIds /\ n = call.cur /\ x \notin NodeIds
  /\ NodeIds' = NodeIds \cup {x}
  /\ nodes'[n].route = nodes[n].route
  /\ nodes'[n].parameter # 0 \/ nodes'[n].catch_all # 0
  /\ nodes'[x].type # "static" /\ nodes'[x].route = {}
  /\ \A a \in NodeIds : where'[a] = where[a] /\ (a # n => nodes'[a] = nodes[a])

\* That is what Special does, or it finds one there.
LEMMA SpecialNodes ==
  Inv /\ Special =>
    \/ UNCHANGED <<nodes, where>> /\ SpecialOf(nodes[call.cur]) # 0
    \/ \E n, x : Specialised(n, x)
  <1> SUFFICES ASSUME Inv, Special, ~ \E n, x : Specialised(n, x)
               PROVE  UNCHANGED <<nodes, where>> /\ SpecialOf(nodes[call.cur]) # 0
    OBVIOUS
  <1>1. TypeOK /\ call # NoCall BY DEF Inv, Special, AtSpecial
  <1>2. PICK n \in NodeIds, x \in Nat : n = call.cur /\ x = Len(nodes) + 1
    <2>1. call.cur \in NodeIds /\ Len(nodes) + 1 \in Nat
      BY <1>1, CallTypes, NodeTypes
    <2> QED BY <2>1
  <1>3. CASE SpecialOf(nodes[n]) # 0 BY <1>2, <1>3 DEF Special
  <1>4. CASE SpecialOf(nodes[n]) = 0
    <2> DEFINE e == WithSpecial(nodes[n], x)
               f == NewNode(Kind, <<>>)
    <2>1. nodes \in Seq(Nodes) /\ NodeIds = DOMAIN nodes /\ nodes[n] \in Nodes
      BY <1>1, NodeTypes DEF NodeIds
    <2>2. /\ nodes' = Append([nodes EXCEPT ![n] = e], f)
          /\ where' = Append(where, [where[n] EXCEPT !.shape = @ \o <<Head(call.rest)>>])
      BY <1>2, <1>4 DEF Special
    <2>3. /\ e \in Nodes /\ e.route = nodes[n].route
          /\ e.parameter = x \/ e.catch_all = x
      BY <1>2, <2>1 DEF WithSpecial, Nodes
    <2>4. f \in Nodes /\ f.route = {} /\ f.type # "static"
      <3>1. Kind \in Kinds /\ Kind # "static" BY DEF Kind, Kinds
      <3> QED BY <3>1 DEF NewNode, Nodes, Texts
    <2> HIDE DEF e, f
    <2>5. /\ NodeIds' = NodeIds \cup {x} /\ x \notin NodeIds
          /\ nodes'[n] = e /\ nodes'[x] = f
          /\ \A a \in NodeIds : a # n => nodes'[a] = nodes[a]
      BY <1>2, <2>1, <2>2, <2>3, <2>4, ChangedAndAppended DEF NodeIds
    <2>6. \A a \in NodeIds : where'[a] = where[a] BY <1>1, <2>2, PlacesKept
    <2>7. x # 0 BY <1>1, <1>2, NodeTypes
    <2>8. Specialised(n, x) BY <1>2, <2>3, <2>4, <2>5, <2>6, <2>7 DEF Specialised
    <2> QED BY <2>8
  <1> QED BY <1>3, <1>4

\* A node that is made brings no route.
LEMMA GrowRoutes == Inv /\ Grow => UNCHANGED Routes
  <1> SUFFICES ASSUME Inv, Grow PROVE UNCHANGED Routes OBVIOUS
  <1>1. PICK n, x : Branched(n, x) BY GrowNodes
  <1> QED BY <1>1, SameRoutes DEF Branched

\* Nor does a special one.
LEMMA SpecialRoutes == Inv /\ Special => UNCHANGED Routes
  <1> SUFFICES ASSUME Inv, Special PROVE UNCHANGED Routes OBVIOUS
  <1>1. CASE UNCHANGED <<nodes, where>> BY <1>1, SameRoutes DEF NodeIds
  <1>2. ASSUME NEW n, NEW x, Specialised(n, x) PROVE UNCHANGED Routes
    BY <1>2, SameRoutes DEF Specialised
  <1> QED BY <1>1, <1>2, SpecialNodes

\* A split moves the route of the child to its suffix, with its place.
LEMMA SplitRoutes == Inv /\ Split => UNCHANGED Routes
  <1> SUFFICES ASSUME Inv, Split PROVE UNCHANGED Routes OBVIOUS
  <1>1. PICK n, t, k, x : Parts(n, t, k, x) BY SplitParts
  <1>2. /\ t \in NodeIds /\ x \notin NodeIds /\ NodeIds' = NodeIds \cup {x}
        /\ \A a \in NodeIds : a # t => nodes'[a] = nodes[a] /\ where'[a] = where[a]
        /\ nodes'[t].route = {} /\ nodes'[x].route = nodes[t].route
        /\ where'[x] = where[t]
    BY <1>1 DEF Parts
  <1>3. RouteAt(t)' = {} /\ RouteAt(x)' = RouteAt(t) BY <1>2 DEF RouteAt
  <1>4. \A a \in NodeIds : a # t => RouteAt(a)' = RouteAt(a) BY <1>2 DEF RouteAt
  <1> QED BY <1>2, <1>3, <1>4 DEF Routes

\* Start: the new node x is a root.
RootMade(x) ==
  /\ x \notin NodeIds /\ NodeIds' = NodeIds \cup {x}
  /\ nodes'[x].route = {} /\ nodes'[x].prefix = <<>>
  /\ \A a \in NodeIds : where'[a] = where[a] /\ nodes'[a] = nodes[a]

\* That is what Start makes, or it finds one there.
LEMMA StartNodes ==
  ASSUME Inv, NEW m \in Methods, NEW p \in Patterns, NEW h \in Handlers,
         Start(m, p, h)
  PROVE  UNCHANGED <<nodes, where>> \/ \E x : RootMade(x)
  <1>1. CASE roots[m] # 0 BY <1>1 DEF Start
  <1>2. CASE roots[m] = 0
    <2>1. TypeOK BY DEF Inv
    <2>2. PICK f : f = NewNode("static", <<>>) OBVIOUS
    <2>3. f \in Nodes /\ f.route = {} /\ f.prefix = <<>>
      BY <2>2 DEF NewNode, Nodes, Kinds, Texts
    <2>4. /\ nodes' = Append(nodes, f)
          /\ where' = Append(where, [method |-> m, shape |-> <<>>])
      BY <1>2, <2>2 DEF Start
    <2>5. nodes \in Seq(Nodes) BY <2>1 DEF TypeOK, Nodes
    <2> DEFINE l == Len(nodes)
    <2>6. l \in Nat /\ NodeIds = 1..l BY <2>5, LenProperties DEF NodeIds
    <2>7. /\ nodes' \in Seq(Nodes) /\ Len(nodes') = l + 1 /\ nodes'[l + 1] = f
          /\ \A a \in 1..l : nodes'[a] = nodes[a]
      BY <2>3, <2>4, <2>5, AppendProperties
    <2> HIDE DEF l
    <2>8. NodeIds' = NodeIds \cup {l + 1} /\ l + 1 \notin NodeIds
      <3>1. NodeIds' = 1..(l + 1) BY <2>7, LenProperties DEF NodeIds
      <3>2. 1..(l + 1) = 1..l \cup {l + 1} /\ l + 1 \notin 1..l BY <2>6
      <3> QED BY <2>6, <3>1, <3>2
    <2>9. \A a \in NodeIds : where'[a] = where[a] BY <2>1, <2>4, PlacesKept
    <2>10. RootMade(l + 1) BY <2>3, <2>6, <2>7, <2>8, <2>9 DEF RootMade
    <2> QED BY <2>10
  <1> QED BY <1>1, <1>2

\* A root brings no route.
LEMMA StartRoutes ==
  ASSUME Inv, NEW m \in Methods, NEW p \in Patterns, NEW h \in Handlers,
         Start(m, p, h)
  PROVE  UNCHANGED Routes
  <1>1. CASE UNCHANGED <<nodes, where>> BY <1>1, SameRoutes DEF NodeIds
  <1>2. ASSUME NEW x, RootMade(x) PROVE UNCHANGED Routes
    BY <1>2, SameRoutes DEF RootMade
  <1> QED BY <1>1, <1>2, StartNodes

\* The end of a call adds one route or none.
LEMMA FinishRoutes == Inv /\ Finish => OnlyAdds
  <1> SUFFICES ASSUME Inv, Finish PROVE OnlyAdds OBVIOUS
  <1>1. TypeOK BY DEF Inv
  <1>2. CASE UNCHANGED nodes
    <2>1. UNCHANGED where BY DEF Finish
    <2> QED BY <1>2, <2>1, SameRoutes DEF NodeIds, OnlyAdds
  <1>3. CASE ~ UNCHANGED nodes
    <2>0. PICK n \in NodeIds : n = call.cur BY <1>1, CallTypes DEF Finish
    <2>1. PICK r : r = [handler |-> call.handler, names |-> call.names] OBVIOUS
    <2>2. /\ nodes[n].route = {} /\ nodes' = [nodes EXCEPT ![n].route = {r}]
          /\ UNCHANGED where /\ outcome' = "added" /\ call # NoCall /\ call' = NoCall
      BY <1>3, <2>0, <2>1 DEF Finish
    <2>3. /\ nodes \in Seq(Nodes) /\ nodes[n] \in Nodes BY <1>1, NodeTypes
    <2>4. /\ NodeIds' = NodeIds /\ nodes'[n].route = {r}
          /\ \A a \in NodeIds : a # n => nodes'[a] = nodes[a]
      BY <2>2, <2>3 DEF NodeIds, Nodes
    <2> DEFINE route == [method |-> where[n].method,
                         shape |-> Reference!Segments(where[n].shape),
                         handler |-> r.handler, names |-> r.names]
    <2>5. RouteAt(n) = {} /\ RouteAt(n)' = {route} BY <2>2, <2>4 DEF RouteAt
    <2>6. \A a \in NodeIds : a # n => RouteAt(a)' = RouteAt(a)
      BY <2>2, <2>4 DEF RouteAt
    <2> HIDE DEF route
    <2>7. Routes' = Routes \cup {route} BY <2>4, <2>5, <2>6 DEF Routes
    <2> QED BY <2>2, <2>7 DEF OnlyAdds
  <1> QED BY <1>2, <1>3

\* No step of an add_route removes, moves or alters a registered route: only
\* its end adds one, and says so.
THEOREM RoutesOnlyAdded == Spec => [][OnlyAdds]_vars
  <1>1. Inv /\ [Next]_vars => [OnlyAdds]_vars
    <2> SUFFICES ASSUME Inv, [Next]_vars PROVE [OnlyAdds]_vars OBVIOUS
    <2>1. CASE \E m \in Methods, p \in Patterns, h \in Handlers : Reject(m, p, h)
      BY <2>1, SameRoutes DEF Reject, tree, NodeIds, OnlyAdds
    <2>2. CASE \E m \in Methods, p \in Patterns, h \in Handlers : Start(m, p, h)
      BY <2>2, StartRoutes DEF OnlyAdds
    <2>3. CASE Literal BY <2>3, SameRoutes DEF Literal, tree, NodeIds, OnlyAdds
    <2>4. CASE Descend BY <2>4, SameRoutes DEF Descend, tree, NodeIds, OnlyAdds
    <2>5. CASE Split BY <2>5, SplitRoutes DEF OnlyAdds
    <2>6. CASE Grow BY <2>6, GrowRoutes DEF OnlyAdds
    <2>7. CASE Special BY <2>7, SpecialRoutes DEF OnlyAdds
    <2>8. CASE Finish BY <2>8, FinishRoutes
    <2>9. CASE UNCHANGED vars BY <2>9
    <2> QED
      BY <2>1, <2>2, <2>3, <2>4, <2>5, <2>6, <2>7, <2>8, <2>9 DEF Next, Step
  <1> QED BY <1>1, InvHolds, PTL DEF Spec

-----------------------------------------------------------------------------
(* Compression.                                                            *)

\* A node that only a branch below it justifies.
Bare(n) ==
  /\ nodes[n].type = "static" /\ nodes[n].prefix # <<>>
  /\ nodes[n].route = {} /\ nodes[n].parameter = 0 /\ nodes[n].catch_all = 0

\* No literal text is ahead in the rest of the pattern.
NoLiteralAhead == call.rest = <<>> \/ call.rest[1] \in Markers

\* The running call is about to justify the node it is at: with a route, a
\* special node, or a branch.
Pending ==
  IF call.text = <<>> THEN NoLiteralAhead
  ELSE /\ nodes[call.cur].static # <<>>
       /\ \A i \in 1..Len(nodes[call.cur].static) :
            nodes[nodes[call.cur].static[i]].prefix[1] # call.text[1]

\* A bare node branches, or the running call is at it and about to justify it.
Justified(n) ==
  Bare(n) => \/ Len(nodes[n].static) > 1
             \/ call # NoCall /\ call.cur = n /\ Pending

\* Literal text is taken off the rest up to the next marker.
TextTaken == call # NoCall /\ call.text # <<>> => NoLiteralAhead

Compact == TextTaken /\ \A n \in NodeIds : Justified(n)

\* Between calls no bare node is left without a branch.
LEMMA CompactImplies == TypeOK /\ Compact => Compressed
  BY DEF TypeOK, Compact, Justified, Bare, Compressed

\* A node that a step leaves as it was is still justified, if the call was not
\* what justified it.
LEMMA StaysJustified ==
  ASSUME NEW a, Justified(a), nodes'[a] = nodes[a],
         ~ (call # NoCall /\ call.cur = a /\ Pending)
  PROVE  Justified(a)'
  BY DEF Justified, Bare

\* The call goes on at another node with another text.
LEMMA CallMoves ==
  ASSUME TypeOK, call # NoCall, NEW x \in Nat, NEW w \in Texts,
         call' = [call EXCEPT !.cur = x, !.text = w]
  PROVE  /\ call' # NoCall /\ call'.cur = x /\ call'.text = w
         /\ call'.rest = call.rest
  <1>1. call \in Calls BY CallTypes
  <1>2. call' \in [method : Methods, handler : Handlers, cur : Nat, text : Texts,
                   rest : Texts, names : Seq(Texts)]
    BY <1>1 DEF Calls
  <1>3. call' # NoCall BY <1>2, RouterAssumption DEF Texts
  <1> QED BY <1>1, <1>3 DEF Calls

\* Text that is taken is not followed by more of it.
LEMMA TextStaysTaken ==
  ASSUME TextTaken, call # NoCall, call.text # <<>>, call'.rest = call.rest
  PROVE  NoLiteralAhead'
  BY DEF TextTaken, NoLiteralAhead

\* A root is not bare.
LEMMA StartCompact ==
  ASSUME Inv, Compact, NEW m \in Methods, NEW p \in Patterns, NEW h \in Handlers,
         Start(m, p, h)
  PROVE  Compact'
  <1>1. /\ TextTaken /\ \A a \in NodeIds : Justified(a)
        /\ call = NoCall /\ call'.text = <<>>
    BY DEF Compact, Start
  <1>2. TextTaken' BY <1>1 DEF TextTaken
  <1>3. CASE UNCHANGED <<nodes, where>>
    BY <1>1, <1>2, <1>3, StaysJustified DEF NodeIds, Compact
  <1>4. ASSUME NEW x, RootMade(x) PROVE Compact'
    <2>1. /\ NodeIds' = NodeIds \cup {x} /\ nodes'[x].prefix = <<>>
          /\ \A a \in NodeIds : nodes'[a] = nodes[a]
      BY <1>4 DEF RootMade
    <2>2. Justified(x)' BY <2>1 DEF Justified, Bare
    <2>3. \A a \in NodeIds : Justified(a)' BY <1>1, <2>1, StaysJustified
    <2> QED BY <1>2, <2>1, <2>2, <2>3 DEF Compact
  <1> QED BY <1>3, <1>4, StartNodes

\* The call was at a node only to take text.
LEMMA LiteralCompact == Inv /\ Compact /\ Literal => Compact'
  <1> SUFFICES ASSUME Inv, Compact, Literal PROVE Compact' OBVIOUS
  <1>1. /\ TypeOK /\ \A a \in NodeIds : Justified(a)
        /\ call # NoCall /\ call.text = <<>> /\ call.rest # <<>>
        /\ Head(call.rest) \notin Markers /\ nodes' = nodes
    BY DEF Inv, Compact, Literal, tree
  <1>2. PICK r, k : r = call.rest /\ k = Span(r, Markers) OBVIOUS
  <1>3. call \in Calls /\ r \in Seq(STRING) BY <1>1, <1>2, CallTypes
  <1>4. k \in 0..Len(r) /\ (k < Len(r) => r[k + 1] \in Markers)
    BY <1>2, <1>3, SpanEnds
  <1>5. call' = [call EXCEPT !.text = SubSeq(r, 1, k), !.rest = Drop(r, k)]
    BY <1>2 DEF Literal
  <1>6. call'.rest = Drop(r, k) BY <1>3, <1>5 DEF Calls
  <1>7. NoLiteralAhead'
    <2>1. /\ Drop(r, k) \in Seq(STRING) /\ Len(Drop(r, k)) = Len(r) - k
          /\ \A i \in 1..(Len(r) - k) : Drop(r, k)[i] = r[i + k]
      BY <1>3, <1>4, DropIs
    <2>2. Len(r) \in Nat /\ k \in Nat BY <1>3, <1>4
    <2>3. CASE k = Len(r)
      <3>1. Len(Drop(r, k)) = 0 BY <2>1, <2>2, <2>3
      <3>2. Drop(r, k) = <<>> BY <2>1, <3>1
      <3> QED BY <1>6, <3>2 DEF NoLiteralAhead
    <2>4. CASE k < Len(r)
      <3>1. 1 \in 1..(Len(r) - k) /\ 1 + k = k + 1 BY <2>2, <2>4
      <3>2. Drop(r, k)[1] = r[k + 1] BY <2>1, <3>1
      <3> QED BY <1>4, <1>6, <2>4, <3>2 DEF NoLiteralAhead
    <2> QED BY <1>4, <2>2, <2>3, <2>4
  <1>8. ~ Pending
    <2>1. Head(call.rest) = call.rest[1] BY <1>1, <1>2, <1>3
    <2> QED BY <1>1, <2>1 DEF Pending, NoLiteralAhead
  <1>9. \A a \in NodeIds : Justified(a)' BY <1>1, <1>8, StaysJustified
  <1> QED BY <1>1, <1>7, <1>9 DEF NodeIds, Compact, TextTaken

\* The call was at a node only to go on below it.
LEMMA TwinNotPending ==
  ASSUME Inv, call # NoCall, call.text # <<>>, Twins # {}
  PROVE  ~ Pending
  <1>1. PICK i \in 1..Len(nodes[call.cur].static) : Twin = nodes[call.cur].static[i]
    BY TwinIs
  <1>2. nodes[Twin].prefix[1] = call.text[1] BY TwinIs
  <1> QED BY <1>1, <1>2 DEF Pending

\* Going on below a child leaves the tree as it is.
LEMMA DescendCompact == Inv /\ Compact /\ Descend => Compact'
  <1> SUFFICES ASSUME Inv, Compact, Descend PROVE Compact' OBVIOUS
  <1>1. /\ TypeOK /\ TextTaken /\ \A a \in NodeIds : Justified(a)
        /\ call # NoCall /\ call.text # <<>> /\ Twins # {} /\ nodes' = nodes
    BY DEF Inv, Compact, Descend, tree
  <1>2. call'.rest = call.rest
    <2>1. call \in Calls BY <1>1, CallTypes
    <2> QED BY <2>1 DEF Descend, Calls
  <1>3. NoLiteralAhead' BY <1>1, <1>2, TextStaysTaken
  <1>4. \A a \in NodeIds : Justified(a)'
    BY <1>1, TwinNotPending, StaysJustified
  <1> QED BY <1>1, <1>3, <1>4 DEF NodeIds, Compact, TextTaken

\* What is left of a split node is bare and has one child: the call is at it,
\* with a text that goes another way than the child.
LEMMA SplitCompact == Inv /\ Compact /\ Split => Compact'
  <1> SUFFICES ASSUME Inv, Compact, Split PROVE Compact' OBVIOUS
  <1>1. /\ TypeOK /\ TextTaken /\ \A a \in NodeIds : Justified(a)
        /\ call # NoCall /\ call.text # <<>> /\ Twins # {}
        /\ Shared < Len(nodes[Twin].prefix)
    BY DEF Inv, Compact, Split
  <1>2. PICK n, t, k, x :
          /\ n = call.cur /\ t = Twin /\ k = Shared /\ x = Len(nodes) + 1
    OBVIOUS
  <1>3. Parts(n, t, k, x) /\ Inserted(k, t) BY <1>2, SplitParts
  <1>4. /\ n \in NodeIds /\ t \in NodeIds /\ t # n /\ NodeIds' = NodeIds \cup {x}
        /\ k \in Nat \ {0} /\ k < Len(nodes[t].prefix)
        /\ nodes[t].type = "static"
        /\ \A a \in NodeIds : a # t => nodes'[a] = nodes[a]
        /\ nodes'[t].static = <<x>> /\ nodes'[x].static = nodes[t].static
        /\ nodes'[x].parameter = nodes[t].parameter
        /\ nodes'[x].catch_all = nodes[t].catch_all
        /\ nodes'[x].prefix = Drop(nodes[t].prefix, k)
        /\ nodes'[x].route = nodes[t].route
    BY <1>3 DEF Parts
  <1>5. /\ nodes[t].prefix \in Seq(STRING) /\ call.text \in Seq(STRING)
        /\ nodes[t].prefix # <<>> /\ k \in 1..Len(call.text)
        /\ k < Len(call.text) => nodes[t].prefix[k + 1] # call.text[k + 1]
    BY <1>1, <1>2, TwinIs, CallTypes
  <1>6. /\ Drop(call.text, k) \in Seq(STRING)
        /\ Len(Drop(call.text, k)) = Len(call.text) - k
        /\ \A i \in 1..(Len(call.text) - k) : Drop(call.text, k)[i] = call.text[i + k]
    <2>1. k \in 0..Len(call.text) BY <1>5
    <2> QED BY <1>5, <2>1, DropIs
  <1>7. /\ call' # NoCall /\ call'.cur = t /\ call'.text = Drop(call.text, k)
        /\ call'.rest = call.rest
    <2>1. t \in Nat BY <1>1, <1>4, NodeTypes
    <2>2. call' = [call EXCEPT !.cur = t, !.text = Drop(call.text, k)]
      BY <1>3 DEF Inserted
    <2> QED BY <1>1, <1>6, <2>1, <2>2, CallMoves DEF Texts
  <1>8. NoLiteralAhead' BY <1>1, <1>7, TextStaysTaken
  <1>9. \A a \in NodeIds : a # t => Justified(a)'
    BY <1>1, <1>4, TwinNotPending, StaysJustified
  <1>10. Justified(x)'
    <2> SUFFICES ASSUME Bare(x)' PROVE Len(nodes'[x].static) > 1 BY DEF Justified
    <2>1. Bare(t) BY <1>4, <1>5 DEF Bare
    <2> QED BY <1>1, <1>2, <1>4, <2>1 DEF Justified
  <1>11. Pending'
    <2>1. CASE call'.text = <<>> BY <1>8, <2>1 DEF Pending
    <2>2. CASE call'.text # <<>>
      <3>1. Len(call.text) \in Nat /\ k < Len(call.text) BY <1>5, <1>6, <1>7, <2>2
      <3>2. call'.text[1] = call.text[k + 1]
        <4>1. 1 \in 1..(Len(call.text) - k) /\ 1 + k = k + 1 BY <1>4, <3>1
        <4> QED BY <1>6, <1>7, <4>1
      <3>3. nodes'[x].prefix[1] = nodes[t].prefix[k + 1]
        <4>1. /\ Len(nodes[t].prefix) \in Nat /\ k \in 0..Len(nodes[t].prefix)
              /\ 1 \in 1..(Len(nodes[t].prefix) - k) /\ 1 + k = k + 1
          BY <1>4, <1>5
        <4> QED BY ZenonT(60), <1>4, <1>5, <4>1, DropIs
      <3>4. nodes'[x].prefix[1] # call'.text[1] BY <1>5, <3>1, <3>2, <3>3
      <3>5. /\ nodes'[call'.cur].static # <<>> /\ Len(nodes'[call'.cur].static) = 1
            /\ nodes'[call'.cur].static[1] = x
        <4>1. <<x>> # <<>> /\ Len(<<x>>) = 1 /\ <<x>>[1] = x OBVIOUS
        <4>2. nodes'[call'.cur].static = <<x>> BY <1>4, <1>7
        <4> QED BY <4>1, <4>2
      <3>6. 1..1 = {1} OBVIOUS
      <3> QED BY <2>2, <3>4, <3>5, <3>6 DEF Pending
    <2> QED BY <2>1, <2>2
  <1>12. Justified(t)' BY <1>7, <1>11 DEF Justified
  <1> QED BY <1>4, <1>8, <1>9, <1>10, <1>12 DEF Compact, TextTaken

\* A node that gets one more static child branches, and the new one is where
\* the call is.
LEMMA GrowCompact == Inv /\ Compact /\ Grow => Compact'
  <1> SUFFICES ASSUME Inv, Compact, Grow PROVE Compact' OBVIOUS
  <1>1. /\ TypeOK /\ TextTaken /\ \A a \in NodeIds : Justified(a)
        /\ call # NoCall /\ call.text # <<>>
    BY DEF Inv, Compact, Grow
  <1>2. PICK n, x : Branched(n, x) BY GrowNodes
  <1>3. /\ n \in NodeIds /\ n = call.cur /\ NodeIds' = NodeIds \cup {x}
        /\ nodes'[n].route = nodes[n].route /\ nodes'[n].type = nodes[n].type
        /\ nodes'[n].prefix = nodes[n].prefix
        /\ nodes'[n].parameter = nodes[n].parameter
        /\ nodes'[n].catch_all = nodes[n].catch_all
        /\ Len(nodes'[n].static) = Len(nodes[n].static) + 1
        /\ call'.cur = x
        /\ \A a \in NodeIds : a # n => nodes'[a] = nodes[a]
    BY <1>2 DEF Branched
  <1>4. /\ call' # NoCall /\ call'.text = <<>> /\ call'.rest = call.rest
    <2>1. Len(nodes) + 1 \in Nat BY <1>1, <1>3, NodeTypes
    <2>2. call' = [call EXCEPT !.cur = Len(nodes) + 1, !.text = <<>>] BY DEF Grow
    <2>3. <<>> \in Texts BY DEF Texts
    <2> QED BY <1>1, <2>1, <2>2, <2>3, CallMoves
  <1>5. NoLiteralAhead' BY <1>1, <1>4, TextStaysTaken
  <1>6. \A a \in NodeIds : a # n => Justified(a)'
    BY <1>1, <1>3, StaysJustified
  <1>7. Justified(n)'
    <2> SUFFICES ASSUME Bare(n)' PROVE Len(nodes'[n].static) > 1 BY DEF Justified
    <2>1. Bare(n) BY <1>3 DEF Bare
    <2>2. nodes[n].static # <<>>
      <3>1. nodes[n].static = <<>> => ~ (Len(nodes[n].static) > 1) OBVIOUS
      <3> QED BY <1>1, <1>3, <2>1, <3>1 DEF Justified, Pending
    <2>3. Len(nodes[n].static) \in Nat \ {0} BY <1>1, <1>3, <2>2, NodeTypes
    <2> QED BY <1>3, <2>3
  <1>8. Justified(x)' BY <1>3, <1>4, <1>5 DEF Justified, Pending
  <1> QED BY <1>3, <1>5, <1>6, <1>7, <1>8 DEF Compact, TextTaken

\* A node that has a special child, or is one, is not bare.
LEMMA SpecialCompact == Inv /\ Compact /\ Special => Compact'
  <1> SUFFICES ASSUME Inv, Compact, Special PROVE Compact' OBVIOUS
  <1>1. /\ TypeOK /\ \A a \in NodeIds : Justified(a)
        /\ call # NoCall /\ call.text = <<>>
    BY DEF Inv, Compact, Special, AtSpecial
  <1>2. TextTaken'
    <2>1. call \in Calls BY <1>1, CallTypes
    <2>2. call'.text = <<>> BY <1>1, <2>1 DEF Special, Calls
    <2> QED BY <2>2 DEF TextTaken
  <1>3. CASE UNCHANGED <<nodes, where>> /\ SpecialOf(nodes[call.cur]) # 0
    <2>1. NodeIds' = NodeIds /\ nodes' = nodes BY <1>3 DEF NodeIds
    <2>2. \A a \in NodeIds : a # call.cur => Justified(a)'
      BY <1>1, <2>1, StaysJustified
    <2>3. ~ Bare(call.cur) BY <1>3 DEF SpecialOf, Bare
    <2>4. \A a \in NodeIds : a = call.cur => Justified(a)'
      BY <2>1, <2>3 DEF Justified, Bare
    <2> QED BY <1>2, <2>1, <2>2, <2>4 DEF Compact
  <1>4. ASSUME NEW n, NEW x, Specialised(n, x) PROVE Compact'
    <2>1. /\ n = call.cur /\ NodeIds' = NodeIds \cup {x}
          /\ nodes'[n].parameter # 0 \/ nodes'[n].catch_all # 0
          /\ nodes'[x].type # "static"
          /\ \A a \in NodeIds : a # n => nodes'[a] = nodes[a]
      BY <1>4 DEF Specialised
    <2>2. \A a \in NodeIds : a # n => Justified(a)'
      BY <1>1, <2>1, StaysJustified
    <2>3. Justified(n)' /\ Justified(x)' BY <2>1 DEF Justified, Bare
    <2> QED BY <1>2, <2>1, <2>2, <2>3 DEF Compact
  <1> QED BY <1>3, <1>4, SpecialNodes

\* The node that the call ends at has a route.
LEMMA FinishCompact == Inv /\ Compact /\ Finish => Compact'
  <1> SUFFICES ASSUME Inv, Compact, Finish PROVE Compact' OBVIOUS
  <1>1. /\ TypeOK /\ \A a \in NodeIds : Justified(a)
        /\ call # NoCall /\ call' = NoCall
    BY DEF Inv, Compact, Finish
  <1>2. PICK n \in NodeIds : n = call.cur BY <1>1, CallTypes
  <1>3. /\ NodeIds' = NodeIds /\ nodes'[n].route # {}
        /\ \A a \in NodeIds : a # n => nodes'[a] = nodes[a]
    <2>1. nodes \in Seq(Nodes) /\ nodes[n] \in Nodes BY <1>1, NodeTypes
    <2>2. CASE nodes[n].route # {}
      <3>1. nodes' = nodes BY <1>2, <2>2 DEF Finish
      <3> QED BY <2>2, <3>1 DEF NodeIds
    <2>3. CASE nodes[n].route = {}
      <3>1. PICK r : r = [handler |-> call.handler, names |-> call.names] OBVIOUS
      <3>2. nodes' = [nodes EXCEPT ![n].route = {r}]
        BY <1>2, <2>3, <3>1 DEF Finish
      <3> QED BY <2>1, <3>2 DEF NodeIds, Nodes
    <2> QED BY <2>2, <2>3
  <1>4. \A a \in NodeIds : a # n => Justified(a)'
    BY <1>1, <1>2, <1>3, StaysJustified
  <1>5. Justified(n)' BY <1>3 DEF Justified, Bare
  <1> QED BY <1>1, <1>3, <1>4, <1>5 DEF Compact, TextTaken

\* Every step keeps the text compressed, but for the node it is working on.
LEMMA NextCompact == Inv /\ Compact /\ [Next]_vars => Compact'
  <1> SUFFICES ASSUME Inv, Compact, [Next]_vars PROVE Compact' OBVIOUS
  <1>1. ASSUME UNCHANGED <<nodes, call>> PROVE Compact'
    BY <1>1 DEF Compact, TextTaken, NoLiteralAhead, Justified, Bare, Pending, NodeIds
  <1>2. CASE \E m \in Methods, p \in Patterns, h \in Handlers : Reject(m, p, h)
    BY <1>1, <1>2 DEF Reject, tree
  <1>3. CASE \E m \in Methods, p \in Patterns, h \in Handlers : Start(m, p, h)
    BY <1>3, StartCompact
  <1>4. CASE Literal BY <1>4, LiteralCompact
  <1>5. CASE Descend BY <1>5, DescendCompact
  <1>6. CASE Split BY <1>6, SplitCompact
  <1>7. CASE Grow BY <1>7, GrowCompact
  <1>8. CASE Special BY <1>8, SpecialCompact
  <1>9. CASE Finish BY <1>9, FinishCompact
  <1>10. CASE UNCHANGED vars BY <1>1, <1>10 DEF vars, tree
  <1> QED
    BY <1>2, <1>3, <1>4, <1>5, <1>6, <1>7, <1>8, <1>9, <1>10 DEF Next, Step

\* Between calls no node below a root is there for one child alone, for any
\* patterns: what insert_static splits it splits for a branch or a route.
THEOREM TreesCompressed == Spec => []Compressed
  <1>1. Init => Compact
    <2>1. Init => call = NoCall /\ nodes = <<>> BY DEF Init
    <2>2. nodes = <<>> => NodeIds = {} BY DEF NodeIds
    <2> QED BY <2>1, <2>2 DEF Compact, TextTaken
  <1>2. Inv /\ Compact => Compressed BY CompactImplies DEF Inv
  <1> QED BY <1>1, <1>2, NextCompact, InvHolds, PTL DEF Spec

-----------------------------------------------------------------------------
(* The patterns that pass.                                                 *)

Pieces == INSTANCE RoutePatternsProofs

\* Where a scan ends.
LEMMA SpanIs ==
  ASSUME NEW s \in Seq(STRING), NEW stops, NEW k \in 0..Len(s),
         \A i \in 1..k : s[i] \notin stops, k < Len(s) => s[k + 1] \in stops
  PROVE  Span(s, stops) = k
  <1> DEFINE l == Span(s, stops)
             n == Len(s)
  <1>1. /\ l \in 0..n /\ \A i \in 1..l : s[i] \notin stops
        /\ l < n => s[l + 1] \in stops
    BY SpanEnds
  <1>2. n \in Nat OBVIOUS
  <1> HIDE DEF l, n
  <1>3. k \in 0..n /\ (k < n => s[k + 1] \in stops) BY DEF n
  <1>4. ~(l < k)
    <2> SUFFICES ASSUME l < k PROVE FALSE OBVIOUS
    <2>1. l + 1 \in 1..k /\ l < n BY <1>1, <1>2, <1>3
    <2> QED BY <1>1, <2>1
  <1>5. ~(k < l)
    <2> SUFFICES ASSUME k < l PROVE FALSE OBVIOUS
    <2>1. k + 1 \in 1..l /\ k < n BY <1>1, <1>2, <1>3
    <2> QED BY <1>1, <1>3, <2>1
  <1> QED BY <1>1, <1>2, <1>3, <1>4, <1>5 DEF l

\* The scan from the first symbol of segment i, at position k, ends with the
\* segment, and at the end of the text if that is the last one.
Scanned(p, s, at, i, k) ==
  /\ k \in 1..Len(p) /\ p[k] = s[i][1]
  /\ Span(Drop(p, k), {"/"}) = Len(s[i]) - 1
  /\ k + (Len(s[i]) - 1) = Len(p) <=> i = Len(s)
  /\ \A j \in 2..Len(s[i]) : p[at[i] + j] = s[i][j]

\* Every segment that is not empty is.
LEMMA SegmentScanned ==
  ASSUME NEW p \in Seq(STRING), NEW s, NEW n \in Nat, s \in Seq(Seq(STRING)), n = Len(s),
         NEW at \in [1..n -> Nat], Pieces!Lays(p, s, at),
         NEW i \in 1..n, s[i] # <<>>, NEW k, k = at[i] + 1
  PROVE  Scanned(p, s, at, i, k)
  <1> DEFINE L == Len(s[i])
             N == Len(p)
             d == Drop(p, k)
  <1>1. N \in Nat /\ L \in Nat \ {0} /\ at[i] \in Nat
    <2>1. s[i] \in Seq(STRING) OBVIOUS
    <2> QED BY <2>1, SMTT(30)
  <1>2. /\ at[n] + Len(s[n]) = N
        /\ \A m \in 1..(n - 1) : at[m + 1] = at[m] + Len(s[m]) + 1
        /\ \A m \in 2..n : at[m] \in 1..N /\ p[at[m]] = "/"
        /\ \A j \in 1..L : /\ at[i] + j \in 1..N
                           /\ p[at[i] + j] = s[i][j] /\ s[i][j] # "/"
    BY DEF Pieces!Lays
  <1> HIDE DEF N, L
  <1>3. k \in 1..N /\ p[k] = s[i][1] /\ at[i] + L \in 1..N
    <2>1. 1 \in 1..L /\ L \in 1..L BY <1>1
    <2> QED BY <1>2, <2>1
  <1>4. i # n => at[i] + L + 1 \in 1..N /\ p[at[i] + L + 1] = "/"
    <2> SUFFICES ASSUME i # n PROVE at[i] + L + 1 \in 1..N /\ p[at[i] + L + 1] = "/"
      OBVIOUS
    <2>1. i \in 1..(n - 1) /\ i + 1 \in 2..n OBVIOUS
    <2>2. at[i + 1] = at[i] + L + 1 BY <1>2, <2>1 DEF L
    <2> QED BY <1>2, <2>1, <2>2
  <1>5. at[i] + L = N <=> i = n
    <2>1. i = n => at[i] + L = N BY <1>2 DEF L
    <2>2. i # n => at[i] + L # N BY <1>1, <1>4
    <2> QED BY <2>1, <2>2
  <1>6. /\ d \in Seq(STRING) /\ Len(d) = N - k
        /\ \A m \in 1..(N - k) : d[m] = p[m + k]
    <2>1. k \in 0..Len(p) BY <1>1, <1>3 DEF N
    <2> QED BY <2>1, DropIs DEF N
  <1> HIDE DEF d
  <1>7. L - 1 \in 0..(N - k) BY <1>1, <1>3
  <1>8. ASSUME NEW m \in 1..(L - 1) PROVE d[m] \notin {"/"}
    <2>1. m \in 1..(N - k) /\ m + 1 \in 1..L BY <1>1, <1>3, <1>7
    <2>2. m + k = at[i] + (m + 1) BY <1>1
    <2>3. d[m] = p[at[i] + (m + 1)] BY <1>6, <2>1, <2>2
    <2>4. p[at[i] + (m + 1)] # "/" BY <1>2, <2>1
    <2> QED BY <2>3, <2>4
  <1>9. L - 1 < N - k => d[(L - 1) + 1] \in {"/"}
    <2> SUFFICES ASSUME L - 1 < N - k PROVE d[L] = "/" BY <1>1
    <2>1. i # n BY <1>1, <1>3, <1>5
    <2>2. L \in 1..(N - k) BY <1>1, <1>3
    <2>3. L + k = at[i] + L + 1 BY <1>1
    <2> QED BY <1>4, <1>6, <2>1, <2>2, <2>3
  <1>10. Span(d, {"/"}) = L - 1
    <2>1. L - 1 \in 0..Len(d) BY <1>6, <1>7
    <2> QED BY <1>6, <1>8, <1>9, <2>1, SpanIs
  <1>11. k + (L - 1) = N <=> i = n BY <1>1, <1>5
  <1>12. \A j \in 2..L : p[at[i] + j] = s[i][j] BY <1>1, <1>2
  <1> QED BY <1>3, <1>10, <1>11, <1>12 DEF N, L, d, Scanned

\* validate_pattern passes the patterns that are valid read segment by segment.
LEMMA ValidIs ==
  ASSUME NEW p \in Seq(STRING)
  PROVE  Valid(p) <=> Pieces!IsPattern(p)
  <1>1. PICK s : s = Pieces!Segments(p) OBVIOUS
  <1>2. s \in Seq(Seq(STRING)) /\ s # <<>> BY <1>1, Pieces!SegmentsType
  <1>3. PICK n : n = Len(s) OBVIOUS
  <1>4. n \in Nat \ {0} /\ DOMAIN s = 1..n BY <1>2, <1>3
  <1>5. PICK at \in [1..n -> Nat] : Pieces!Lays(p, s, at)
    BY <1>1, <1>3, Pieces!SegmentsLay
  <1> DEFINE N == Len(p)
             name(k) == Span(Drop(p, k), {"/"})
             Marked(k) == /\ StartsSegment(p, k)
                          /\ name(k) > 0
                          /\ \A j \in (k + 1)..(k + name(k)) : p[j] \notin Markers
                          /\ p[k] = "*" => k + name(k) = N
             Formed(i) == /\ \A j \in 2..Len(s[i]) : s[i][j] \notin Markers
                          /\ s[i] # <<>> /\ s[i][1] \in Markers => Len(s[i]) > 1
                          /\ s[i] # <<>> /\ s[i][1] = "*" => i = n
  <1>6. N \in Nat /\ \A i \in 1..n : Len(s[i]) \in Nat /\ s[i] \in Seq(STRING)
    BY <1>2, <1>3, <1>4
  <1>7. \A i \in 1..n : s[i] # <<>> => Head(s[i]) = s[i][1] /\ Len(s[i]) > 0
    BY <1>6
  <1>8. Valid(p) <=> /\ p # <<>> /\ p[1] = "/"
                     /\ \A k \in 1..N : p[k] \in Markers => Marked(k)
    <2>1. p # <<>> => Head(p) = p[1] OBVIOUS
    <2>2. DOMAIN p = 1..N OBVIOUS
    <2> HIDE DEF name
    <2>3. \A k \in 1..N : Marked(k) <=>
            LET l == name(k) IN
            /\ StartsSegment(p, k) /\ l > 0
            /\ \A j \in (k + 1)..(k + l) : p[j] \notin Markers
            /\ p[k] = "*" => k + l = Len(p)
      OBVIOUS
    <2> HIDE DEF Marked, N
    <2> QED BY <2>1, <2>2, <2>3 DEF Valid, name
  <1>9. Pieces!IsPattern(p) <=> /\ n > 1 /\ s[1] = <<>>
                                /\ \A i \in 1..n : Formed(i)
    <2>1. \A i \in 1..n : Pieces!IsSpecial(s[i]) <=> s[i] # <<>> /\ s[i][1] \in Markers
      BY <1>7 DEF Pieces!IsSpecial, Pieces!Markers, Markers
    <2>2. \A i \in 1..n :
            /\ \A k \in 2..Len(s[i]) : s[i][k] \notin Pieces!Markers
            /\ Pieces!IsSpecial(s[i]) => Len(s[i]) > 1
            /\ Pieces!IsSpecial(s[i]) /\ Head(s[i]) = "*" => i = Len(s)
            <=> Formed(i)
      BY <1>3, <1>7, <2>1 DEF Pieces!Markers, Markers
    <2> HIDE DEF Formed
    <2>3. Pieces!IsPattern(p) <=>
            /\ Len(s) > 1
            /\ s[1] = <<>>
            /\ \A i \in DOMAIN s :
                 /\ \A k \in 2..Len(s[i]) : s[i][k] \notin Pieces!Markers
                 /\ Pieces!IsSpecial(s[i]) => Len(s[i]) > 1
                 /\ Pieces!IsSpecial(s[i]) /\ Head(s[i]) = "*" => i = Len(s)
      BY <1>1, Zenon DEF Pieces!IsPattern
    <2> QED BY <1>3, <1>4, <2>2, <2>3
  <1> HIDE DEF N, Marked, Formed
  <1>10. /\ at[1] = 0 /\ at[n] + Len(s[n]) = N
         /\ \A i \in 1..(n - 1) : at[i + 1] = at[i] + Len(s[i]) + 1
    BY <1>3, <1>5 DEF Pieces!Lays, N
  <1>11. \A i \in 2..n : at[i] \in 1..N /\ p[at[i]] = "/"
    BY <1>3, <1>5 DEF Pieces!Lays, N
  <1>12. \A i \in 1..n : \A j \in 1..Len(s[i]) :
           /\ at[i] + j \in 1..N /\ p[at[i] + j] = s[i][j] /\ s[i][j] # "/"
    BY <1>3, <1>5 DEF Pieces!Lays, N
  <1>13. \A k \in 1..N : \E i \in 1..n : at[i] <= k /\ k <= at[i] + Len(s[i])
    BY <1>3, <1>5 DEF Pieces!Lays, N
  <1>14. \A k \in 1..N, i \in 1..n :
           at[i] <= k /\ k <= at[i] + Len(s[i]) /\ p[k] # "/" =>
             k - at[i] \in 1..Len(s[i])
    <2> TAKE k \in 1..N, i \in 1..n
    <2> SUFFICES ASSUME at[i] <= k, k <= at[i] + Len(s[i]), p[k] # "/"
                 PROVE  k - at[i] \in 1..Len(s[i])
      OBVIOUS
    <2>1. at[i] # k
      <3>1. CASE i = 1 BY <1>10, <3>1
      <3>2. CASE i # 1
        <4>1. i \in 2..n BY <3>2
        <4> QED BY <1>11, <4>1
      <3> QED BY <3>1, <3>2
    <2>2. at[i] \in Nat /\ k \in Nat /\ Len(s[i]) \in Nat BY <1>6
    <2> QED BY <2>1, <2>2
  <1>15. ASSUME NEW i \in 1..n, s[i] # <<>>, NEW k, k = at[i] + 1
         PROVE  /\ k \in 1..N /\ p[k] = s[i][1]
                /\ name(k) = Len(s[i]) - 1
                /\ k + (Len(s[i]) - 1) = N <=> i = n
                /\ \A j \in 2..Len(s[i]) : p[at[i] + j] = s[i][j]
    <2>1. n \in Nat BY <1>4
    <2>2. Scanned(p, s, at, i, k)
      <3> HIDE DEF N, name
      <3> QED BY <1>2, <1>3, <1>5, <1>15, <2>1, SegmentScanned
    <2> QED BY <1>3, <2>2 DEF N, Scanned
  <1> HIDE DEF name
  <1>16. p # <<>> /\ p[1] = "/" <=> n > 1 /\ s[1] = <<>>
    <2>1. ASSUME p # <<>>, p[1] = "/" PROVE n > 1 /\ s[1] = <<>>
      <3>1. 1 \in 1..N BY <2>1 DEF N
      <3>2. s[1] = <<>>
        <4> SUFFICES ASSUME s[1] # <<>> PROVE FALSE OBVIOUS
        <4>1. 1 \in 1..n BY <1>4
        <4>2. 1 \in 1..Len(s[1]) BY <1>6, <1>7, <4>1
        <4>3. p[at[1] + 1] # "/" BY <1>12, <4>1, <4>2
        <4>4. at[1] + 1 = 1 BY <1>10
        <4> QED BY <2>1, <4>3, <4>4
      <3>3. n # 1
        <4> SUFFICES ASSUME n = 1 PROVE FALSE OBVIOUS
        <4>1. Len(<<>>) = 0 OBVIOUS
        <4>2. N = 0 BY <1>10, <3>2, <4>1
        <4> QED BY <3>1, <4>2
      <3> QED BY <1>4, <3>2, <3>3
    <2>2. ASSUME n > 1, s[1] = <<>> PROVE p # <<>> /\ p[1] = "/"
      <3>1. 1 \in 1..(n - 1) /\ 2 \in 2..n /\ 1 + 1 = 2 BY <1>4, <2>2
      <3>2. Len(<<>>) = 0 OBVIOUS
      <3>3. at[2] = 1 BY <1>10, <2>2, <3>1, <3>2
      <3>4. 1 \in 1..N /\ p[1] = "/" BY <1>11, <3>1, <3>3
      <3> QED BY <3>4 DEF N
    <2> QED BY <2>1, <2>2
  <1>17. ASSUME s[1] = <<>>, \A i \in 1..n : Formed(i),
                NEW k \in 1..N, p[k] \in Markers
         PROVE  Marked(k)
    <2>1. PICK i \in 1..n : at[i] <= k /\ k <= at[i] + Len(s[i]) BY <1>13
    <2>2. p[k] # "/" BY <1>17 DEF Markers
    <2>3. PICK j \in 1..Len(s[i]) : j = k - at[i] BY <1>14, <2>1, <2>2
    <2>4. at[i] \in Nat /\ k \in Nat /\ Len(s[i]) \in Nat /\ k = at[i] + j
      BY <1>6, <2>3
    <2>5. p[k] = s[i][j] BY <1>12, <2>4
    <2>6. s[i] # <<>>
      <3>1. Len(<<>>) = 0 OBVIOUS
      <3> QED BY <2>3, <3>1
    <2>7. j = 1
      <3> SUFFICES ASSUME j # 1 PROVE FALSE OBVIOUS
      <3>1. j \in 2..Len(s[i]) BY <2>4
      <3> QED BY <1>17, <2>5, <3>1 DEF Formed
    <2>8. k = at[i] + 1 BY <2>4, <2>7
    <2>9. i \in 2..n BY <1>17, <2>6
    <2>10. StartsSegment(p, k)
      <3>1. k - 1 = at[i] /\ at[i] \in 1..N /\ p[at[i]] = "/" BY <1>11, <2>4, <2>8, <2>9
      <3> QED BY <2>8, <3>1 DEF StartsSegment
    <2>11. Len(s[i]) > 1 /\ (s[i][1] = "*" => i = n)
      BY <1>17, <2>5, <2>6, <2>7 DEF Formed
    <2>12. name(k) = Len(s[i]) - 1 /\ (k + (Len(s[i]) - 1) = N <=> i = n)
      BY <1>15, <2>6, <2>8
    <2>13. name(k) > 0 BY <2>4, <2>11, <2>12
    <2>14. p[k] = "*" => k + name(k) = N BY <2>5, <2>7, <2>11, <2>12
    <2>15. ASSUME NEW m \in (k + 1)..(k + name(k)) PROVE p[m] \notin Markers
      <3>1. m - at[i] \in 2..Len(s[i]) /\ at[i] + (m - at[i]) = m
        <4>1. m \in (k + 1)..(k + (Len(s[i]) - 1)) BY <2>12
        <4> QED BY <2>4, <2>8, <4>1
      <3>2. p[m] = s[i][m - at[i]] BY <1>15, <2>6, <2>8, <3>1
      <3> QED BY <1>17, <3>1, <3>2 DEF Formed
    <2> QED BY <2>10, <2>13, <2>14, <2>15 DEF Marked
  <1>18. ASSUME s[1] = <<>>, \A k \in 1..N : p[k] \in Markers => Marked(k),
                NEW i \in 1..n
         PROVE  Formed(i)
    <2>1. at[i] \in Nat /\ Len(s[i]) \in Nat BY <1>6
    <2>2. ASSUME NEW j \in 2..Len(s[i]) PROVE s[i][j] \notin Markers
      <3> SUFFICES ASSUME s[i][j] \in Markers PROVE FALSE OBVIOUS
      <3>1. j \in 1..Len(s[i]) /\ j - 1 \in 1..Len(s[i])
            /\ (at[i] + j) - 1 = at[i] + (j - 1)
        BY <2>1
      <3>2. at[i] + j \in 1..N /\ p[at[i] + j] \in Markers BY <1>12, <3>1
      <3>3. p[(at[i] + j) - 1] = "/" BY <1>18, <3>2 DEF Marked, StartsSegment
      <3>4. p[at[i] + (j - 1)] # "/" BY <1>12, <3>1
      <3> QED BY <3>1, <3>3, <3>4
    <2>3. ASSUME s[i] # <<>>, s[i][1] \in Markers
          PROVE  Len(s[i]) > 1 /\ (s[i][1] = "*" => i = n)
      <3>1. PICK k : k = at[i] + 1 OBVIOUS
      <3>2. /\ k \in 1..N /\ p[k] = s[i][1] /\ name(k) = Len(s[i]) - 1
            /\ k + (Len(s[i]) - 1) = N <=> i = n
        BY <1>15, <2>3, <3>1
      <3>3. name(k) > 0 /\ (p[k] = "*" => k + name(k) = N)
        BY <1>18, <2>3, <3>2 DEF Marked
      <3> QED BY <2>1, <3>2, <3>3
    <2>4. s[i][1] = "*" => s[i][1] \in Markers BY DEF Markers
    <2> QED BY <2>2, <2>3, <2>4 DEF Formed
  <1>19. CASE s[1] = <<>> BY <1>8, <1>9, <1>16, <1>17, <1>18, <1>19
  <1>20. CASE s[1] # <<>> BY <1>8, <1>9, <1>16, <1>20
  <1> QED BY <1>19, <1>20

-----------------------------------------------------------------------------
(* What is read of a pattern.                                              *)

\* Two modules read patterns in the same way.
LEMMA RegistrySame ==
  /\ \A t : Reference!Segments(t) = Pieces!Segments(t)
  /\ \A p : /\ Registry!IsPattern(p) <=> Pieces!IsPattern(p)
            /\ Registry!Shape(p) = Pieces!Shape(p)
            /\ Registry!Names(p) = Pieces!Names(p)
  <1>1. \A t : Reference!Segments(t) = Pieces!Segments(t)
    BY DEF Reference!Segments, Reference!Scan, Pieces!Segments, Pieces!Scan
  <1>2. \A t : Registry!Segments(t) = Pieces!Segments(t)
    BY DEF Registry!Segments, Registry!Scan, Pieces!Segments, Pieces!Scan
  <1>3. \A s : Registry!IsSpecial(s) <=> Pieces!IsSpecial(s)
    BY DEF Registry!IsSpecial, Pieces!IsSpecial, Registry!Markers, Pieces!Markers
  <1>4. \A s : Registry!Unnamed(s) = Pieces!Unnamed(s)
    BY <1>3 DEF Registry!Unnamed, Pieces!Unnamed
  <1>5. \A s : Registry!NamesIn(s) = Pieces!NamesIn(s)
    BY DEF Registry!NamesIn, Pieces!NamesIn, Registry!IsSpecial, Pieces!IsSpecial,
           Registry!Markers, Pieces!Markers
  <1>6. ASSUME NEW p PROVE Registry!IsPattern(p) <=> Pieces!IsPattern(p)
    BY <1>2, <1>3 DEF Registry!IsPattern, Pieces!IsPattern, Registry!Markers,
                      Pieces!Markers
  <1>7. ASSUME NEW p PROVE Registry!Shape(p) = Pieces!Shape(p)
    BY <1>2, <1>4 DEF Registry!Shape, Pieces!Shape
  <1>8. ASSUME NEW p PROVE Registry!Names(p) = Pieces!Names(p)
    BY <1>2, <1>5 DEF Registry!Names, Pieces!Names
  <1> QED BY <1>1, <1>6, <1>7, <1>8

\* u is what was read, without the names, of a pattern that passed; these names
\* were read, and rest is left.
ReadOf(p, q, u, names, rest) ==
  /\ p \in Patterns /\ q \in Seq(STRING) /\ Valid(p) /\ p = q \o rest
  /\ Pieces!Reads(STRING, q, u, names, rest)

\* The running call has read the text to its node and the text it still has to
\* insert below, and its names.
ReadUpTo ==
  call # NoCall =>
    /\ where[call.cur].method = call.method
    /\ \E p, q : ReadOf(p, q, where[call.cur].shape \o call.text,
                        call.names, call.rest)

\* A text is its first k symbols and what is left.
LEMMA Halves ==
  ASSUME NEW s \in Seq(STRING), NEW k \in 1..Len(s)
  PROVE  /\ SubSeq(s, 1, k) \in Seq(STRING) /\ Len(SubSeq(s, 1, k)) = k
         /\ SubSeq(s, 1, k) # <<>>
         /\ \A i \in 1..k : SubSeq(s, 1, k)[i] = s[i]
         /\ Drop(s, k) \in Seq(STRING)
         /\ SubSeq(s, 1, k) \o Drop(s, k) = s
         /\ Tail(SubSeq(s, 1, k)) = SubSeq(s, 2, k)
  <1> DEFINE v == SubSeq(s, 1, k)
             z == Drop(s, k)
             n == Len(s)
  <1>1. n \in Nat /\ k \in 1..n OBVIOUS
  <1>2. v \in Seq(STRING) /\ Len(v) = k /\ \A i \in 1..k : v[i] = s[i] BY <1>1
  <1>3. /\ z \in Seq(STRING) /\ Len(z) = n - k
        /\ \A i \in 1..(n - k) : z[i] = s[i + k]
    <2>1. k \in 0..Len(s) BY <1>1
    <2> QED BY <2>1, DropIs
  <1>4. v # <<>>
    <2>1. Len(<<>>) = 0 OBVIOUS
    <2> HIDE DEF v
    <2> QED BY <1>1, <1>2, <2>1
  <1>5. SubSeq(s, 2, k) \in Seq(STRING) /\ Len(SubSeq(s, 2, k)) = k - 1
        /\ \A i \in 1..(k - 1) : SubSeq(s, 2, k)[i] = s[i + 1]
    BY <1>1
  <1> HIDE DEF v, z
  <1>6. Tail(v) \in Seq(STRING) /\ Len(Tail(v)) = k - 1
        /\ \A i \in 1..(k - 1) : Tail(v)[i] = v[i + 1]
    BY <1>2, <1>4
  <1>7. Tail(v) = SubSeq(s, 2, k)
    <2>1. \A i \in 1..(k - 1) : i + 1 \in 1..k BY <1>1
    <2>2. \A i \in 1..(k - 1) : Tail(v)[i] = SubSeq(s, 2, k)[i]
      BY <1>2, <1>5, <1>6, <2>1
    <2> QED BY <1>5, <1>6, <2>2, SeqEqual
  <1>8. v \o z = s
    <2>1. /\ v \o z \in Seq(STRING) /\ Len(v \o z) = k + (n - k)
          /\ \A i \in 1..(k + (n - k)) :
               (v \o z)[i] = IF i <= k THEN v[i] ELSE z[i - k]
      <3>1. v \o z \in Seq(STRING) /\ Len(v \o z) = Len(v) + Len(z)
        BY <1>2, <1>3, ConcatProperties
      <3>2. \A i \in 1..(Len(v) + Len(z)) :
              (v \o z)[i] = IF i <= Len(v) THEN v[i] ELSE z[i - Len(v)]
        BY <1>2, <1>3, ConcatProperties
      <3> QED BY <1>2, <1>3, <3>1, <3>2
    <2> HIDE DEF n
    <2>2. k + (n - k) = n BY <1>1
    <2>3. ASSUME NEW i \in 1..n PROVE (v \o z)[i] = s[i]
      <3>1. CASE i <= k
        <4>1. i \in 1..k BY <1>1, <3>1
        <4> QED BY <1>2, <2>1, <2>2, <3>1, <4>1
      <3>2. CASE ~(i <= k)
        <4>1. i - k \in 1..(n - k) /\ (i - k) + k = i BY <1>1, <3>2
        <4>2. z[i - k] = s[i] BY <1>3, <4>1
        <4> QED BY <2>1, <2>2, <3>2, <4>2
      <3> QED BY <3>1, <3>2
    <2> QED BY <2>1, <2>2, <2>3, SeqEqual DEF n
  <1> QED BY <1>2, <1>3, <1>4, <1>7, <1>8 DEF v, z

\* A node is a number.
LEMMA NodeNumber == ASSUME TypeOK, NEW n \in NodeIds PROVE n \in Nat
  <1>1. NodeIds = 1..Len(nodes) /\ Len(nodes) \in Nat BY NodeTypes
  <1> QED BY <1>1

\* Three texts are one text in one way.
LEMMA Regrouped ==
  \A a, b, c \in Seq(STRING) : (a \o b) \o c = a \o (b \o c)
  BY ConcatAssociative

\* What a running call is made of afterwards, if it goes on.
LEMMA CallGoesOn ==
  ASSUME TypeOK, call # NoCall, NEW x \in Nat, NEW w \in Texts, NEW r \in Texts,
         NEW names \in Seq(Texts),
         call' = [call EXCEPT !.cur = x, !.text = w, !.rest = r, !.names = names]
  PROVE  /\ call' # NoCall /\ call'.cur = x /\ call'.text = w
         /\ call'.rest = r /\ call'.names = names /\ call'.method = call.method
  <1>1. call \in Calls BY CallTypes
  <1>2. call' \in [method : Methods, handler : Handlers, cur : Nat, text : Texts,
                   rest : Texts, names : Seq(Texts)]
    BY <1>1 DEF Calls
  <1>3. call' # NoCall BY <1>2, RouterAssumption DEF Texts
  <1> QED BY <1>1, <1>3 DEF Calls

\* Text moves from what is to be inserted to the place of the call.
LEMMA TextMoves ==
  ASSUME TypeOK, ReadUpTo, call # NoCall,
         NEW v \in Seq(STRING), NEW z \in Seq(STRING), v \o z = call.text,
         NEW x \in Nat, call' = [call EXCEPT !.cur = x, !.text = z],
         where'[x] = [where[call.cur] EXCEPT !.shape = @ \o v]
  PROVE  ReadUpTo'
  <1>1. call \in Calls /\ call.cur \in NodeIds BY CallTypes
  <1>2. PICK e \in Places : e = where[call.cur] BY <1>1, NodeTypes
  <1>3. PICK s \in Seq(STRING) : s = e.shape BY DEF Places, Texts
  <1>4. where'[x].method = e.method /\ where'[x].shape = s \o v
    <2>1. where'[x] = [method |-> e.method, shape |-> e.shape \o v]
      BY <1>2, LongerPlace, Zenon
    <2>2. PICK w : w = e.shape \o v OBVIOUS
    <2>3. where'[x] = [method |-> e.method, shape |-> w] BY <2>1, <2>2, Zenon
    <2>4. where'[x].method = e.method /\ where'[x].shape = w
      <3>1. \A f, a : f = [method |-> a, shape |-> w] => f.method = a /\ f.shape = w
        OBVIOUS
      <3> QED BY <2>3, <3>1
    <2>5. w = s \o v BY <1>3, <2>2
    <2> QED BY <2>4, <2>5
  <1>5. /\ call' # NoCall /\ call'.cur = x /\ call'.text = z
        /\ call'.rest = call.rest
    BY CallMoves DEF Texts
  <1>6. call'.names = call.names /\ call'.method = call.method
    BY <1>1 DEF Calls
  <1>7. (s \o v) \o z = s \o call.text
    <2>1. \A a, b, c \in Seq(STRING) : (a \o b) \o c = a \o (b \o c)
      BY Regrouped
    <2>2. (s \o v) \o z = s \o (v \o z) BY <2>1, Zenon
    <2> QED BY <2>2, Zenon
  <1>8. PICK p, q : ReadOf(p, q, s \o call.text, call.names, call.rest)
    BY <1>2, <1>3 DEF ReadUpTo
  <1>9. ReadOf(p, q, where'[call'.cur].shape \o call'.text, call'.names, call'.rest)
    BY <1>4, <1>5, <1>6, <1>7, <1>8
  <1>10. where'[call'.cur].method = call'.method
    BY <1>2, <1>4, <1>5, <1>6 DEF ReadUpTo
  <1> QED BY <1>9, <1>10 DEF ReadUpTo

\* At the root nothing was read.
LEMMA StartReads ==
  ASSUME Inv, NEW m \in Methods, NEW p \in Patterns, NEW h \in Handlers,
         Start(m, p, h)
  PROVE  ReadUpTo'
  <1>1. Inv' BY StartInv
  <1>2. PICK x : x = RootOf(m) OBVIOUS
  <1>3. /\ Valid(p) /\ roots'[m] = x
        /\ call' = [method |-> m, handler |-> h, cur |-> x,
                    text |-> <<>>, rest |-> p, names |-> <<>>]
    BY <1>2 DEF Start, Inv, TypeOK
  <1>4. x # 0
    <2>1. TypeOK BY DEF Inv
    <2>2. Len(nodes) \in Nat BY <2>1 DEF TypeOK
    <2> QED BY <1>2, <2>2 DEF RootOf
  <1>5. where'[x] = [method |-> m, shape |-> <<>>]
    BY <1>1, <1>3, <1>4 DEF Inv, RootInv
  <1>6. p \in Seq(STRING) /\ <<>> \in Seq(STRING) BY RouterAssumption
  <1>7. <<>> \o p = p /\ <<>> \o <<>> = <<>> BY <1>6, ConcatEmptySeq
  <1>8. Pieces!Reads(STRING, <<>>, <<>>, <<>>, p) BY <1>6, Pieces!ReadsNothing
  <1>9. ReadOf(p, <<>>, <<>>, <<>>, p) BY <1>3, <1>6, <1>7, <1>8 DEF ReadOf
  <1>10. /\ call'.cur = x /\ call'.text = <<>> /\ call'.rest = p
         /\ call'.names = <<>> /\ call'.method = m
    BY <1>3
  <1>11. where'[x].method = m /\ where'[x].shape = <<>> BY <1>5
  <1> QED BY <1>7, <1>9, <1>10, <1>11 DEF ReadUpTo

\* Literal text is read.
LEMMA LiteralReads == Inv /\ ReadUpTo /\ Literal => ReadUpTo'
  <1> SUFFICES ASSUME Inv, ReadUpTo, Literal PROVE ReadUpTo' OBVIOUS
  <1>1. /\ TypeOK /\ call # NoCall /\ call.text = <<>> /\ call.rest # <<>>
        /\ Head(call.rest) \notin Markers /\ where' = where
    BY DEF Inv, Literal, tree
  <1>2. PICK r, k : r = call.rest /\ k = Span(r, Markers) OBVIOUS
  <1>3. call \in Calls /\ call.cur \in NodeIds /\ r \in Seq(STRING)
    BY <1>1, <1>2, CallTypes
  <1>4. k \in 1..Len(r) /\ \A i \in 1..k : r[i] \notin Markers
    <2>1. /\ k \in 0..Len(r) /\ \A i \in 1..k : r[i] \notin Markers
          /\ k < Len(r) => r[k + 1] \in Markers
      BY <1>2, <1>3, SpanEnds
    <2>2. Len(r) \in Nat \ {0} /\ r[1] \notin Markers BY <1>1, <1>2, <1>3
    <2>3. k # 0 BY <2>1, <2>2
    <2> QED BY <2>1, <2>3
  <1>5. PICK v \in Seq(STRING), z \in Seq(STRING) : v = SubSeq(r, 1, k) /\ z = Drop(r, k)
    BY <1>3, <1>4, Halves
  <1>6. /\ Len(v) = k /\ v # <<>> /\ v \o z = r
        /\ \A i \in 1..k : v[i] = r[i]
    BY <1>3, <1>4, <1>5, Halves
  <1>7. call' = [call EXCEPT !.text = v, !.rest = z]
    BY <1>2, <1>5 DEF Literal
  <1>8. /\ call' # NoCall /\ call'.cur = call.cur /\ call'.text = v
        /\ call'.rest = z /\ call'.names = call.names /\ call'.method = call.method
    <2>1. call' \in [method : Methods, handler : Handlers, cur : Nat, text : Texts,
                     rest : Texts, names : Seq(Texts)]
      <3>1. call.cur \in Nat BY <1>1, <1>3, NodeNumber
      <3> QED BY <1>3, <1>7, <3>1 DEF Calls, Texts
    <2>2. call' # NoCall BY <2>1, RouterAssumption DEF Texts
    <2> QED BY <1>3, <1>7, <2>2 DEF Calls
  <1>9. PICK u \in Seq(STRING) : u = where[call.cur].shape
    <2>1. where[call.cur] \in Places BY <1>1, <1>3, NodeTypes
    <2> QED BY <2>1 DEF Places, Texts
  <1>10. PICK p, q : ReadOf(p, q, u \o call.text, call.names, r)
    BY <1>1, <1>2, <1>9 DEF ReadUpTo
  <1>11. /\ p \in Patterns /\ q \in Seq(STRING) /\ Valid(p) /\ p = q \o r
         /\ Pieces!Reads(STRING, q, u, call.names, r)
    BY <1>1, <1>9, <1>10, ConcatEmptySeq DEF ReadOf
  <1>12. Pieces!Reads(STRING, q, u, call.names, v)
    <2>1. 1 \in 1..k BY <1>4
    <2>2. v[1] = r[1] BY <1>6, <2>1
    <2>3. r # <<>> BY <1>1, <1>2
    <2> QED BY <1>6, <1>11, <2>2, <2>3 DEF Pieces!Reads
  <1>13. Pieces!Reads(STRING, q \o v, u \o v, call.names, z)
    <2>1. \A i \in 1..Len(v) : v[i] \notin Pieces!Markers
      BY <1>4, <1>6 DEF Markers, Pieces!Markers
    <2> QED BY <1>6, <1>11, <1>12, <2>1, Pieces!ReadsText
  <1>14. q \o v \in Seq(STRING) /\ p = (q \o v) \o z
    <2>1. q \o v \in Seq(STRING) BY <1>11, ConcatProperties
    <2>2. (q \o v) \o z = q \o (v \o z) BY <1>11, ConcatAssociative
    <2> QED BY <1>6, <1>11, <2>1, <2>2, Zenon
  <1>15. ReadOf(p, q \o v, u \o v, call.names, z)
    BY <1>11, <1>13, <1>14 DEF ReadOf
  <1>16. where'[call'.cur].shape \o call'.text = u \o v BY <1>1, <1>8, <1>9
  <1>17. where'[call'.cur].method = call'.method BY <1>1, <1>8 DEF ReadUpTo
  <1> QED BY <1>8, <1>15, <1>16, <1>17 DEF ReadUpTo

\* A child that has the first k symbols of the text takes them over.
LEMMA DescendReads == Inv /\ ReadUpTo /\ Descend => ReadUpTo'
  <1> SUFFICES ASSUME Inv, ReadUpTo, Descend PROVE ReadUpTo' OBVIOUS
  <1>1. /\ TypeOK /\ call # NoCall /\ call.text # <<>> /\ Twins # {}
        /\ Shared = Len(nodes[Twin].prefix) /\ where' = where
    BY DEF Inv, Descend, tree
  <1>2. PICK t, k, w, e : t = Twin /\ k = Shared /\ w = call.text /\ e = nodes[t].prefix
    OBVIOUS
  <1>3. /\ t \in NodeIds /\ e \in Seq(STRING) /\ k = Len(e) /\ k \in 1..Len(w)
        /\ \A i \in 1..k : e[i] = w[i]
        /\ Extends(t, call.cur, e)
    BY <1>1, <1>2, TwinIs
  <1>4. w \in Seq(STRING) BY <1>1, <1>2, CallTypes
  <1>5. PICK v \in Seq(STRING), z \in Seq(STRING) : v = SubSeq(w, 1, k) /\ z = Drop(w, k)
    BY <1>3, <1>4, Halves
  <1>6. v = e /\ v \o z = w
    <2>1. Len(v) = k /\ (\A i \in 1..k : v[i] = w[i]) /\ v \o z = w
      BY <1>3, <1>4, <1>5, Halves
    <2> QED BY <1>3, <2>1, SeqEqual
  <1>7. call' = [call EXCEPT !.cur = t, !.text = z] BY <1>2, <1>5 DEF Descend
  <1>8. where'[t] = [where[call.cur] EXCEPT !.shape = @ \o v]
    BY <1>1, <1>3, <1>6, Zenon DEF Extends
  <1>9. t \in Nat BY <1>1, <1>3, NodeNumber
  <1> QED BY <1>1, <1>2, <1>6, <1>7, <1>8, <1>9, TextMoves

\* What is left of a split child has the symbols that it shares with the text.
LEMMA SplitReads == Inv /\ ReadUpTo /\ Split => ReadUpTo'
  <1> SUFFICES ASSUME Inv, ReadUpTo, Split PROVE ReadUpTo' OBVIOUS
  <1>1. /\ TypeOK /\ call # NoCall /\ call.text # <<>> /\ Twins # {}
    BY DEF Inv, Split
  <1>2. PICK n, t, k, x, w :
          /\ n = call.cur /\ t = Twin /\ k = Shared /\ x = Len(nodes) + 1
          /\ w = call.text
    OBVIOUS
  <1>3. Parts(n, t, k, x) /\ Inserted(k, t) BY <1>2, SplitParts
  <1>4. w \in Seq(STRING) BY <1>1, <1>2, CallTypes
  <1>5. k \in 1..Len(w) BY <1>2, <1>3 DEF Inserted
  <1>6. PICK v \in Seq(STRING), z \in Seq(STRING) : v = SubSeq(w, 1, k) /\ z = Drop(w, k)
    BY <1>4, <1>5, Halves
  <1>7. PICK e : e = nodes'[t].prefix OBVIOUS
  <1>8. v = e /\ v \o z = w
    <2>1. Len(v) = k /\ (\A i \in 1..k : v[i] = w[i]) /\ v \o z = w
      BY <1>4, <1>5, <1>6, Halves
    <2>2. e \in Seq(STRING) /\ Len(e) = k /\ \A i \in 1..k : e[i] = w[i]
      BY <1>2, <1>3, <1>7 DEF Inserted
    <2> QED BY <2>1, <2>2, SeqEqual
  <1>9. call' = [call EXCEPT !.cur = t, !.text = z]
    BY <1>2, <1>3, <1>6 DEF Inserted
  <1>10. where'[t] = [where[call.cur] EXCEPT !.shape = @ \o v]
    <2>1. /\ nodes'[t].prefix = SubSeq(nodes[t].prefix, 1, k)
          /\ where'[t] = [where[n] EXCEPT !.shape = @ \o SubSeq(nodes[t].prefix, 1, k)]
      BY <1>3 DEF Parts
    <2>2. SubSeq(nodes[t].prefix, 1, k) = v BY <1>7, <1>8, <2>1
    <2> QED BY <1>2, <2>1, <2>2, Zenon
  <1>11. t \in Nat
    <2>1. t \in NodeIds BY <1>3 DEF Parts
    <2> QED BY <1>1, <2>1, NodeNumber
  <1> QED BY <1>1, <1>2, <1>8, <1>9, <1>10, <1>11, TextMoves

\* The place that was added last.
LEMMA LastPlace ==
  ASSUME TypeOK, NEW q, q \in Places, where' = Append(where, q)
  PROVE  where'[Len(nodes) + 1] = q
  <1>1. where \in Seq(Places) /\ Len(where) = Len(nodes) BY DEF TypeOK, Places
  <1> QED BY <1>1, AppendProperties

\* A place further on is one.
LEMMA FurtherPlace ==
  ASSUME NEW u \in Places, NEW w \in Seq(STRING)
  PROVE  [u EXCEPT !.shape = @ \o w] \in Places
  <1>1. u.shape \in Seq(STRING) /\ u.method \in Methods BY DEF Places, Texts
  <1>2. PICK s : s = u.shape \o w OBVIOUS
  <1>3. s \in Seq(STRING) BY <1>1, <1>2, ConcatProperties
  <1>4. [u EXCEPT !.shape = @ \o w] = [method |-> u.method, shape |-> s]
    BY <1>2, LongerPlace, Zenon
  <1> QED BY <1>1, <1>3, <1>4 DEF Places, Texts

\* A new child has all of the text.
LEMMA GrowReads == Inv /\ ReadUpTo /\ Grow => ReadUpTo'
  <1> SUFFICES ASSUME Inv, ReadUpTo, Grow PROVE ReadUpTo' OBVIOUS
  <1>1. TypeOK /\ call # NoCall BY DEF Inv, Grow
  <1>2. PICK x, w : x = Len(nodes) + 1 /\ w = call.text OBVIOUS
  <1>3. /\ w \in Seq(STRING) /\ call.cur \in NodeIds /\ x \in Nat
    BY <1>1, <1>2, CallTypes, NodeTypes
  <1>4. call' = [call EXCEPT !.cur = x, !.text = <<>>] BY <1>2 DEF Grow
  <1>5. where'[x] = [where[call.cur] EXCEPT !.shape = @ \o w]
    <2>1. where' = Append(where, [where[call.cur] EXCEPT !.shape = @ \o w])
      BY <1>2, Zenon DEF Grow
    <2>2. where[call.cur] \in Places BY <1>1, <1>3, NodeTypes
    <2>3. [where[call.cur] EXCEPT !.shape = @ \o w] \in Places
      BY <1>3, <2>2, FurtherPlace
    <2> QED BY <1>1, <1>2, <2>1, <2>3, LastPlace
  <1>6. <<>> \in Seq(STRING) /\ w \o <<>> = call.text BY <1>2, <1>3, ConcatEmptySeq
  <1> QED BY <1>1, <1>3, <1>4, <1>5, <1>6, TextMoves

\* A marker in a pattern that passed comes behind a slash, and what comes
\* behind a catch-all is its name.
LEMMA MarkerPlace ==
  ASSUME NEW p \in Seq(STRING), Valid(p), NEW q \in Seq(STRING),
         NEW r \in Seq(STRING), p = q \o r, r # <<>>, r[1] \in Markers
  PROVE  /\ q # <<>> /\ q[Len(q)] = "/"
         /\ r[1] = "*" => \A i \in 1..Len(r) : r[i] # "/"
  <1> DEFINE a == Len(q)
             b == Len(r)
             i == a + 1
             d == Drop(p, i)
             name == Span(d, {"/"})
  <1>1. a \in Nat /\ b \in Nat \ {0} OBVIOUS
  <1>2. /\ Len(p) = a + b
        /\ \A j \in 1..a : p[j] = q[j]
        /\ \A j \in 1..b : p[a + j] = r[j]
    <2>1. /\ Len(q \o r) = a + b
          /\ \A j \in 1..(a + b) : (q \o r)[j] = IF j <= a THEN q[j] ELSE r[j - a]
      BY ConcatProperties
    <2> HIDE DEF a, b
    <2>2. \A j \in 1..a : j \in 1..(a + b) /\ j <= a BY <1>1
    <2>3. \A j \in 1..b : a + j \in 1..(a + b) /\ ~(a + j <= a) /\ (a + j) - a = j
      BY <1>1
    <2> QED BY <2>1, <2>2, <2>3
  <1>3. i \in DOMAIN p /\ p[i] = r[1] BY <1>1, <1>2
  <1>4. StartsSegment(p, i) /\ (p[i] = "*" => i + name = Len(p))
    BY <1>3 DEF Valid
  <1>5. a # 0 /\ p[a] = "/"
    <2> HIDE DEF a
    <2>1. i > 1 /\ p[i - 1] = "/" BY <1>4 DEF StartsSegment
    <2> QED BY <1>1, <2>1 DEF a
  <1>6. q # <<>> /\ q[a] = "/"
    <2>1. a \in 1..a BY <1>1, <1>5
    <2>2. q = <<>> => Len(q) = 0 OBVIOUS
    <2> QED BY <1>2, <1>5, <2>1, <2>2
  <1>7. ASSUME r[1] = "*", NEW j \in 1..b PROVE r[j] # "/"
    <2>1. /\ d \in Seq(STRING) /\ Len(d) = Len(p) - i
          /\ \A m \in 1..(Len(p) - i) : d[m] = p[m + i]
      <3>1. i \in 0..Len(p) BY <1>1, <1>2
      <3> QED BY <3>1, DropIs
    <2>2. \A m \in 1..name : d[m] \notin {"/"} BY <2>1, SpanEnds
    <2>3. i + name = a + b BY <1>2, <1>3, <1>4, <1>7
    <2>4. name \in Nat BY <2>1, SpanEnds
    <2> HIDE DEF name, d, a, b
    <2>5. CASE j = 1 BY <1>7, <2>5
    <2>6. CASE j # 1
      <3>1. j - 1 \in 1..name /\ j - 1 \in 1..((a + b) - i) /\ (j - 1) + i = a + j
        BY <1>1, <2>3, <2>4, <2>6
      <3>2. d[j - 1] = p[a + j] BY <1>2, <2>1, <3>1
      <3> QED BY <1>2, <2>2, <3>1, <3>2
    <2> QED BY <2>5, <2>6
  <1> QED BY <1>6, <1>7

\* The special at the head of the rest goes on to the next slash or the end.
LEMMA SpecialEnds ==
  ASSUME TypeOK, AtSpecial, NEW r, r = call.rest, NEW k, k = SpecialEnd,
         r[1] = "*" => \A i \in 1..Len(r) : r[i] # "/"
  PROVE  /\ r \in Seq(STRING) /\ r # <<>> /\ r[1] \in Markers /\ r[1] = Head(r)
         /\ k \in 1..Len(r) /\ \A i \in 1..k : r[i] # "/"
         /\ k < Len(r) => r[k + 1] = "/"
  <1>1. /\ r \in Seq(STRING) /\ r # <<>> BY CallTypes DEF AtSpecial
  <1>2. r[1] = Head(r) /\ Len(r) \in Nat \ {0} BY <1>1
  <1>3. r[1] \in Markers BY <1>2 DEF AtSpecial
  <1>4. CASE r[1] = "*"
    <2>1. k = Len(r) BY <1>2, <1>4 DEF SpecialEnd, Kind
    <2> QED BY <1>1, <1>2, <1>3, <1>4, <2>1
  <1>5. CASE r[1] # "*"
    <2>1. k = Span(r, {"/"}) BY <1>2, <1>5 DEF SpecialEnd, Kind
    <2>2. /\ k \in 0..Len(r) /\ \A i \in 1..k : r[i] \notin {"/"}
          /\ k < Len(r) => r[k + 1] \in {"/"}
      BY <1>1, <2>1, SpanEnds
    <2>3. r[1] # "/" BY <1>3 DEF Markers
    <2>4. k # 0 BY <1>2, <2>2, <2>3
    <2> QED BY <1>1, <1>2, <1>3, <2>2, <2>4
  <1> QED BY <1>4, <1>5

\* The special node stands a marker behind the node.
LEMMA SpecialPlace ==
  ASSUME Inv, Special, NEW s, s = Head(call.rest), s \in STRING, NEW x, x = call'.cur,
         NEW y, y = SpecialOf(nodes[call.cur]), x = IF y = 0 THEN Len(nodes) + 1 ELSE y
  PROVE  where'[x] = [where[call.cur] EXCEPT !.shape = @ \o <<s>>] /\ x \in Nat
  <1>1. TypeOK /\ TreeInv /\ AtSpecial /\ call # NoCall BY DEF Inv, Special, AtSpecial
  <1>2. PICK n \in NodeIds : n = call.cur BY <1>1, CallTypes
  <1>3. CASE y = 0
    <2>1. where' = Append(where, [where[n] EXCEPT !.shape = @ \o <<s>>])
      BY <1>2, <1>3, Zenon DEF Special
    <2>2. where[n] \in Places /\ <<s>> \in Seq(STRING) BY <1>1, NodeTypes
    <2>3. [where[n] EXCEPT !.shape = @ \o <<s>>] \in Places BY <2>2, FurtherPlace
    <2>4. where'[x] = [where[n] EXCEPT !.shape = @ \o <<s>>]
      BY <1>1, <1>3, <2>1, <2>3, LastPlace
    <2>5. x \in Nat BY <1>1, <1>3, NodeTypes
    <2> QED BY <1>2, <2>4, <2>5
  <1>4. CASE y # 0
    <2>1. where' = where /\ x = y BY <1>4 DEF Special
    <2>2. Edges(n) BY <1>1 DEF TreeInv
    <2>3. s \in Markers BY <1>1 DEF AtSpecial
    <2>4. Extends(y, n, <<s>>) /\ y \in NodeIds
      <3>1. CASE s = "*"
        <4>1. y = nodes[n].catch_all BY <1>2, <3>1 DEF SpecialOf, Kind
        <4> QED BY <1>1, <1>4, <2>2, <3>1, <4>1, NodeTypes DEF Edges
      <3>2. CASE s # "*"
        <4>1. y = nodes[n].parameter /\ s = ":"
          BY <1>2, <2>3, <3>2 DEF SpecialOf, Kind, Markers
        <4> QED BY <1>1, <1>4, <2>2, <3>2, <4>1, NodeTypes DEF Edges
      <3> QED BY <3>1, <3>2
    <2>5. y \in Nat BY <1>1, <2>4, NodeNumber
    <2> QED BY <1>2, <2>1, <2>4, <2>5 DEF Extends
  <1> QED BY <1>3, <1>4

\* A special is read with its name.
LEMMA SpecialReads == Inv /\ ReadUpTo /\ Special => ReadUpTo'
  <1> SUFFICES ASSUME Inv, ReadUpTo, Special PROVE ReadUpTo' OBVIOUS
  <1>1. /\ TypeOK /\ call # NoCall /\ AtSpecial /\ call.text = <<>>
    BY DEF Inv, Special, AtSpecial
  <1>2. PICK r, k, y, x : /\ r = call.rest /\ k = SpecialEnd
                          /\ y = SpecialOf(nodes[call.cur])
                          /\ x = IF y = 0 THEN Len(nodes) + 1 ELSE y
    OBVIOUS
  <1>3. /\ r \in Seq(STRING) /\ r # <<>> /\ r[1] \in Markers
        /\ call.cur \in NodeIds /\ call \in Calls
    <2>1. r \in Seq(STRING) /\ call.cur \in NodeIds /\ call \in Calls
      BY <1>1, <1>2, CallTypes
    <2>2. r # <<>> /\ Head(r) \in Markers BY <1>1, <1>2 DEF AtSpecial
    <2> QED BY <2>1, <2>2
  <1>4. PICK u \in Seq(STRING), e \in Places : e = where[call.cur] /\ u = e.shape
    <2>1. where[call.cur] \in Places BY <1>1, <1>3, NodeTypes
    <2> QED BY <2>1 DEF Places, Texts
  <1>5. PICK p, q : ReadOf(p, q, u \o call.text, call.names, r)
    BY <1>1, <1>2, <1>4 DEF ReadUpTo
  <1>6. /\ p \in Patterns /\ q \in Seq(STRING) /\ Valid(p) /\ p = q \o r
        /\ Pieces!Reads(STRING, q, u, call.names, r)
    BY <1>1, <1>4, <1>5, ConcatEmptySeq DEF ReadOf
  <1>7. /\ q # <<>> /\ q[Len(q)] = "/"
        /\ r[1] = "*" => \A i \in 1..Len(r) : r[i] # "/"
    <2>1. p \in Seq(STRING) BY <1>6, RouterAssumption
    <2> QED BY <1>3, <1>6, <2>1, MarkerPlace
  <1>8. /\ r[1] = Head(r) /\ k \in 1..Len(r) /\ \A i \in 1..k : r[i] # "/"
        /\ k < Len(r) => r[k + 1] = "/"
    BY <1>1, <1>2, <1>7, SpecialEnds
  <1>9. PICK w \in Seq(STRING), z \in Seq(STRING) : w = SubSeq(r, 1, k) /\ z = Drop(r, k)
    BY <1>3, <1>8, Halves
  <1>10. /\ Len(w) = k /\ w # <<>> /\ w \o z = r /\ Tail(w) = SubSeq(r, 2, k)
         /\ \A i \in 1..k : w[i] = r[i]
    BY <1>3, <1>8, <1>9, Halves
  <1>11. w[1] = r[1] /\ w[1] \in Pieces!Markers /\ \A i \in 1..Len(w) : w[i] # "/"
    <2>1. 1 \in 1..k BY <1>8
    <2> QED BY <1>3, <1>8, <1>10, <2>1 DEF Markers, Pieces!Markers
  <1>12. z = <<>> \/ z[1] = "/"
    <2>1. /\ Len(z) = Len(r) - k /\ \A i \in 1..(Len(r) - k) : z[i] = r[i + k]
      <3>1. k \in 0..Len(r) BY <1>3, <1>8
      <3> QED BY <1>3, <1>9, <3>1, DropIs
    <2>2. Len(r) \in Nat /\ k \in Nat BY <1>3, <1>8
    <2>3. CASE k < Len(r)
      <3>1. 1 \in 1..(Len(r) - k) /\ 1 + k = k + 1 BY <2>2, <2>3
      <3>2. z[1] = r[k + 1] BY <2>1, <3>1
      <3> QED BY <1>8, <2>3, <3>2
    <2>4. CASE ~(k < Len(r))
      <3>1. Len(z) = 0 BY <1>8, <2>1, <2>2, <2>4
      <3> QED BY <1>9, <3>1
    <2> QED BY <2>3, <2>4
  <1>13. PICK s, c : s = w[1] /\ c = <<s>> OBVIOUS
  <1>14. s \in STRING /\ c \in Seq(STRING) /\ s = Head(call.rest)
    <2>1. s = Head(call.rest) BY <1>2, <1>8, <1>11, <1>13
    <2>2. s \in STRING BY <1>3, <1>8, <1>11, <1>13
    <2> QED BY <1>13, <2>1, <2>2
  <1>15. Pieces!Reads(STRING, q \o w, u \o c, Append(call.names, Tail(w)), z)
    BY <1>6, <1>7, <1>10, <1>11, <1>12, <1>13, Pieces!ReadsSpecial
  <1>16. PICK names : names = Append(call.names, Tail(w)) OBVIOUS
  <1>17. ReadOf(p, q \o w, u \o c, names, z)
    <2>1. q \o w \in Seq(STRING) BY <1>6, ConcatProperties
    <2>2. (q \o w) \o z = q \o (w \o z) BY <1>6, Regrouped
    <2>3. p = (q \o w) \o z BY <1>6, <1>10, <2>2, Zenon
    <2> QED BY <1>6, <1>15, <1>16, <2>1, <2>3 DEF ReadOf
  <1>18. call' = [call EXCEPT !.cur = x, !.rest = z, !.names = names]
    BY <1>2, <1>9, <1>10, <1>16 DEF Special
  <1>19. call'.cur = x BY <1>3, <1>18 DEF Calls
  <1>20. where'[x] = [where[call.cur] EXCEPT !.shape = @ \o c] /\ x \in Nat
    BY <1>2, <1>13, <1>14, <1>19, SpecialPlace
  <1>21. where'[x].method = e.method /\ where'[x].shape = u \o c
    <2>1. where'[x] = [method |-> e.method, shape |-> e.shape \o c]
      BY <1>4, <1>20, LongerPlace, Zenon
    <2>2. PICK v : v = e.shape \o c OBVIOUS
    <2>3. where'[x] = [method |-> e.method, shape |-> v] BY <2>1, <2>2, Zenon
    <2>4. where'[x].method = e.method /\ where'[x].shape = v
      <3>1. \A f, a : f = [method |-> a, shape |-> v] => f.method = a /\ f.shape = v
        OBVIOUS
      <3> QED BY <2>3, <3>1
    <2> QED BY <1>4, <2>2, <2>4
  <1>22. names \in Seq(Texts)
    <2>1. Tail(w) \in Texts BY <1>10 DEF Texts
    <2>2. call.names \in Seq(Texts) BY <1>1, CallTypes
    <2> QED BY <1>16, <2>1, <2>2, AppendProperties
  <1>23. /\ call' # NoCall /\ call'.text = <<>> /\ call'.rest = z
         /\ call'.names = names /\ call'.method = call.method
    <2>1. call' = [call EXCEPT !.cur = x, !.text = <<>>, !.rest = z, !.names = names]
      BY <1>1, <1>3, <1>18 DEF Calls
    <2>2. <<>> \in Texts /\ z \in Texts BY DEF Texts
    <2> QED BY <1>1, <1>20, <1>22, <2>1, <2>2, CallGoesOn
  <1>24. (u \o c) \o <<>> = u \o c
    <2>1. u \o c \in Seq(STRING) BY <1>14, ConcatProperties
    <2> QED BY <2>1, ConcatEmptySeq
  <1>25. ReadOf(p, q \o w, where'[call'.cur].shape \o call'.text, call'.names, call'.rest)
    BY <1>17, <1>19, <1>21, <1>23, <1>24
  <1>26. where'[call'.cur].method = call'.method
    BY <1>1, <1>4, <1>19, <1>21, <1>23 DEF ReadUpTo
  <1> QED BY <1>25, <1>26 DEF ReadUpTo

\* Every step reads on.
LEMMA NextReads == Inv /\ ReadUpTo /\ [Next]_vars => ReadUpTo'
  <1> SUFFICES ASSUME Inv, ReadUpTo, [Next]_vars PROVE ReadUpTo' OBVIOUS
  <1>1. CASE \E m \in Methods, p \in Patterns, h \in Handlers : Reject(m, p, h)
    BY <1>1 DEF Reject, ReadUpTo
  <1>2. CASE \E m \in Methods, p \in Patterns, h \in Handlers : Start(m, p, h)
    BY <1>2, StartReads
  <1>3. CASE Literal BY <1>3, LiteralReads
  <1>4. CASE Descend BY <1>4, DescendReads
  <1>5. CASE Split BY <1>5, SplitReads
  <1>6. CASE Grow BY <1>6, GrowReads
  <1>7. CASE Special BY <1>7, SpecialReads
  <1>8. CASE Finish BY <1>8 DEF Finish, ReadUpTo
  <1>9. CASE UNCHANGED vars BY <1>9 DEF vars, tree, ReadUpTo
  <1> QED
    BY <1>1, <1>2, <1>3, <1>4, <1>5, <1>6, <1>7, <1>8, <1>9 DEF Next, Step

-----------------------------------------------------------------------------
(* The router implements the set of routes.                                *)

\* A pattern that validate_pattern throws on is refused.
LEMMA RejectRefuses ==
  ASSUME NEW m \in Methods, NEW p \in Patterns, NEW h \in Handlers, Reject(m, p, h)
  PROVE  Registry!Next
  <1>1. p \in Seq(STRING) BY RouterAssumption
  <1>2. ~Registry!IsPattern(p) BY <1>1, ValidIs, RegistrySame DEF Reject
  <1>3. UNCHANGED Routes BY SameRoutes DEF Reject, tree, NodeIds
  <1>4. outcome' = "invalid" BY DEF Reject
  <1>5. Registry!Refuse(p) BY <1>2, <1>3, <1>4 DEF Registry!Refuse
  <1> QED BY <1>5 DEF Registry!Next

\* Two nodes of a method whose texts have the same segments are one.
LEMMA OnePlace ==
  ASSUME Inv, NEW n \in NodeIds, NEW d \in NodeIds,
         where[n].method = where[d].method,
         Pieces!Segments(where[n].shape) = Pieces!Segments(where[d].shape)
  PROVE  n = d
  <1>1. TypeOK /\ RadixTree BY InvImplies DEF Inv
  <1>2. where[n] \in Places /\ where[d] \in Places BY <1>1, NodeTypes
  <1>3. where[n].shape \in Seq(STRING) /\ where[d].shape \in Seq(STRING)
    BY <1>2 DEF Places, Texts
  <1>4. PICK f \in Seq(Seq(STRING)), l \in Seq(STRING) :
          Pieces!Cut(where[n].shape, f, l)
    BY <1>3, Pieces!CutExists
  <1>5. Pieces!Cut(where[d].shape, f, l) BY <1>4 DEF Pieces!Cut
  <1>6. where[n].shape = where[d].shape BY <1>3, <1>4, <1>5, Pieces!CutInjective
  <1>7. where[n] = where[d]
    <2>1. \A a, b \in Places : a.method = b.method /\ a.shape = b.shape => a = b
      BY DEF Places
    <2> QED BY <1>2, <1>6, <2>1
  <1> QED BY <1>1, <1>7 DEF RadixTree

\* The end of a call is the route's registration, or that of a duplicate.
LEMMA FinishRegisters == Inv /\ ReadUpTo /\ Finish => Registry!Next
  <1> SUFFICES ASSUME Inv, ReadUpTo, Finish PROVE Registry!Next OBVIOUS
  <1>1. /\ TypeOK /\ call # NoCall /\ call.text = <<>> /\ call.rest = <<>>
    BY DEF Inv, Finish
  <1>2. PICK n \in NodeIds : n = call.cur BY <1>1, CallTypes
  <1>3. PICK m \in Methods, h \in Handlers, names \in Seq(Texts) :
          m = call.method /\ h = call.handler /\ names = call.names
    <2>1. call \in Calls BY <1>1, CallTypes
    <2> QED BY <2>1 DEF Calls
  <1>4. PICK u \in Seq(STRING) : u = where[n].shape /\ where[n].method = m
    <2>1. where[n] \in Places BY <1>1, NodeTypes
    <2>2. where[n].method = m BY <1>1, <1>2, <1>3 DEF ReadUpTo
    <2> QED BY <2>1, <2>2 DEF Places, Texts
  <1>5. PICK p, q : ReadOf(p, q, u \o <<>>, names, <<>>)
    BY <1>1, <1>2, <1>3, <1>4 DEF ReadUpTo
  <1>6. /\ p \in Patterns /\ p \in Seq(STRING) /\ Valid(p)
        /\ Pieces!Reads(STRING, p, u, names, <<>>)
    <2>1. p \in Patterns /\ q \in Seq(STRING) /\ Valid(p) /\ p = q \o <<>>
      BY <1>5 DEF ReadOf
    <2>2. p = q /\ u \o <<>> = u BY <1>4, <2>1, ConcatEmptySeq
    <2> QED BY <1>5, <2>1, <2>2 DEF ReadOf
  <1>7. Pieces!Segments(u) = Pieces!Shape(p) /\ names = Pieces!Names(p)
    BY <1>4, <1>6, Pieces!ReadsAll
  <1>8. PICK route : route = [method |-> m, shape |-> Registry!Shape(p),
                              handler |-> h, names |-> Registry!Names(p)]
    OBVIOUS
  <1>9. /\ Reference!Segments(u) = Registry!Shape(p) /\ names = Registry!Names(p)
        /\ Registry!IsPattern(p)
    BY <1>6, <1>7, ValidIs, RegistrySame
  <1>10. \A d \in NodeIds : \A o \in RouteAt(d) :
           o.method = m /\ o.shape = Registry!Shape(p) => d = n
    <2> TAKE d \in NodeIds
    <2> TAKE o \in RouteAt(d)
    <2> SUFFICES ASSUME o.method = m, o.shape = Registry!Shape(p) PROVE d = n
      OBVIOUS
    <2>1. o.method = where[d].method /\ o.shape = Reference!Segments(where[d].shape)
      BY DEF RouteAt
    <2>2. Pieces!Segments(where[n].shape) = Pieces!Segments(where[d].shape)
      BY <1>4, <1>9, <2>1, RegistrySame
    <2> QED BY <1>4, <2>1, <2>2, OnePlace
  <1>11. CASE nodes[n].route # {}
    <2>1. outcome' = "duplicate" /\ nodes' = nodes /\ where' = where
      BY <1>2, <1>11 DEF Finish
    <2>2. UNCHANGED Routes BY <2>1, SameRoutes DEF NodeIds
    <2>3. PICK r \in nodes[n].route : TRUE BY <1>11
    <2>4. PICK o : o = [method |-> where[n].method,
                        shape |-> Reference!Segments(where[n].shape),
                        handler |-> r.handler, names |-> r.names]
      OBVIOUS
    <2>5. o \in Routes /\ o.method = m /\ o.shape = Registry!Shape(p)
      BY <1>4, <1>9, <2>3, <2>4 DEF Routes, RouteAt
    <2>6. Registry!Clash(m, p) BY <1>9, <2>1, <2>2, <2>5 DEF Registry!Clash
    <2> QED BY <1>6, <2>6 DEF Registry!Next
  <1>12. CASE nodes[n].route = {}
    <2>1. PICK r : r = [handler |-> h, names |-> names] OBVIOUS
    <2>2. /\ nodes' = [nodes EXCEPT ![n].route = {r}]
          /\ UNCHANGED where /\ outcome' = "added"
      BY <1>2, <1>3, <1>12, <2>1 DEF Finish
    <2>3. nodes \in Seq(Nodes) /\ nodes[n] \in Nodes BY <1>1, NodeTypes
    <2>4. /\ NodeIds' = NodeIds /\ nodes'[n].route = {r}
          /\ \A a \in NodeIds : a # n => nodes'[a] = nodes[a]
      BY <2>2, <2>3 DEF NodeIds, Nodes
    <2>5. RouteAt(n) = {} BY <1>12 DEF RouteAt
    <2>6. RouteAt(n)' = {route}
      <3>1. r.handler = h /\ r.names = names BY <2>1
      <3> QED BY <1>4, <1>8, <1>9, <2>2, <2>4, <3>1 DEF RouteAt
    <2>7. \A a \in NodeIds : a # n => RouteAt(a)' = RouteAt(a)
      BY <2>2, <2>4 DEF RouteAt
    <2>8. Routes' = Routes \cup {route} BY <2>4, <2>5, <2>6, <2>7 DEF Routes
    <2>9. ~ \E o \in Routes : o.method = m /\ o.shape = Registry!Shape(p)
      BY <1>10, <2>5 DEF Routes
    <2>10. Registry!Add(m, p, h) BY <1>8, <1>9, <2>2, <2>8, <2>9 DEF Registry!Add
    <2> QED BY <1>6, <2>10 DEF Registry!Next
  <1> QED BY <1>11, <1>12

\* Every step of the router is a step of the set of routes or leaves it alone.
LEMMA NextRegisters ==
  Inv /\ ReadUpTo /\ [Next]_vars => [Registry!Next]_Registry!vars
  <1> SUFFICES ASSUME Inv, ReadUpTo, [Next]_vars
               PROVE  Registry!Next \/ UNCHANGED <<Routes, outcome>>
    BY DEF Registry!vars
  <1>1. CASE \E m \in Methods, p \in Patterns, h \in Handlers : Reject(m, p, h)
    BY <1>1, RejectRefuses
  <1>2. CASE \E m \in Methods, p \in Patterns, h \in Handlers : Start(m, p, h)
    BY <1>2, StartRoutes DEF Start
  <1>3. CASE Literal BY <1>3, SameRoutes DEF Literal, tree, NodeIds
  <1>4. CASE Descend BY <1>4, SameRoutes DEF Descend, tree, NodeIds
  <1>5. CASE Split BY <1>5, SplitRoutes DEF Split
  <1>6. CASE Grow BY <1>6, GrowRoutes DEF Grow
  <1>7. CASE Special BY <1>7, SpecialRoutes DEF Special
  <1>8. CASE Finish BY <1>8, FinishRegisters
  <1>9. CASE UNCHANGED vars
    BY <1>9, SameRoutes DEF vars, tree, NodeIds
  <1> QED
    BY <1>1, <1>2, <1>3, <1>4, <1>5, <1>6, <1>7, <1>8, <1>9 DEF Next, Step

\* A Router is a set of routes, whatever it splits: add_route of a pattern that
\* is valid read segment by segment adds its shape, handler and names, or
\* throws if a route of that method and shape is there, and of another throws.
THEOREM Implements == Spec => ImplementsRouteSet
  <1>1. Init => ReadUpTo BY DEF Init, ReadUpTo
  <1>2. Init => Registry!Init
    <2>1. Init => nodes = <<>> /\ outcome = "none" BY DEF Init
    <2>2. nodes = <<>> => Routes = {}
      <3>1. nodes = <<>> => NodeIds = {} BY DEF NodeIds
      <3> QED BY <3>1 DEF Routes
    <2> QED BY <2>1, <2>2 DEF Registry!Init
  <1> QED
    BY <1>1, <1>2, NextReads, NextRegisters, InvHolds, PTL
       DEF Spec, ImplementsRouteSet, Registry!Spec

-----------------------------------------------------------------------------
(* What the search of match finds.                                         *)

\* What is left of the path in a call of the search.
Left(t, from) == Drop(t, from.position)

\* In a round of the search, which calls itself as search, a static child c
\* is tried.
Try(search, t, from, found, c) ==
  IF found.node # 0 \/ ~IsPrefix(nodes[c].prefix, Left(t, from))
  THEN found
  ELSE Backtrack(Len(found.values),
         search[[node |-> c, values |-> found.values,
                 position |-> from.position + Len(nodes[c].prefix)]])

\* The search once the static children were tried, then the parameter, then
\* the catch-all.
StaticTried(search, t, from) ==
  FoldLeft(LAMBDA found, c : Try(search, t, from, found, c),
           [node |-> 0, values |-> from.values], nodes[from.node].static)

ParameterTried(search, t, from, static) ==
  LET end == Span(Left(t, from), {"/"}) IN
  IF static.node # 0 \/ nodes[from.node].parameter = 0 \/ end = 0
  THEN static
  ELSE Backtrack(Len(static.values),
         search[[node |-> nodes[from.node].parameter, position |-> from.position + end,
                 values |-> Append(static.values, SubSeq(Left(t, from), 1, end))]])

CatchAllTried(t, from, parameter) ==
  IF \/ parameter.node # 0
     \/ nodes[from.node].catch_all = 0
     \/ nodes[nodes[from.node].catch_all].route = {}
     \/ Left(t, from) \in {<<>>, <<"/">>}
  THEN parameter
  ELSE [node |-> nodes[from.node].catch_all,
        values |-> Append(parameter.values, Left(t, from))]

\* All of the round.
Round(search, t, from) ==
  IF Left(t, from) = <<>> /\ nodes[from.node].route # {}
  THEN [node |-> from.node, values |-> from.values]
  ELSE CatchAllTried(t, from,
         ParameterTried(search, t, from, StaticTried(search, t, from)))

\* The search solves the recursion.
Searches(search, t) == search = [from \in Froms |-> Round(search, t, from)]

\* The search is a solution of its recursion, if that has one.
LEMMA SearchIs ==
  ASSUME NEW root, NEW t, \E search : Searches(search, t)
  PROVE  \E search : /\ Searches(search, t)
                     /\ Search(root, t) =
                          search[[node |-> root, position |-> 0, values |-> <<>>]]
  <1> DEFINE search == CHOOSE f : f = [from \in Froms |-> Round(f, t, from)]
  <1>1. search = [from \in Froms |-> Round(search, t, from)] BY DEF Searches
  <1>2. Search(root, t) = search[[node |-> root, position |-> 0, values |-> <<>>]]
    BY Zenon DEF Search, Round, CatchAllTried, ParameterTried, StaticTried, Try, Left
  <1> QED BY <1>1, <1>2 DEF Searches

\* What a search returns.
Results == [node : Nat, values : Seq(Texts)]

\* The results of the tries of the static children, one after another.
Tries(search, t, from, g) ==
  LET s == nodes[from.node].static IN
  /\ g \in [0..Len(s) -> Results]
  /\ g[0] = [node |-> 0, values |-> from.values]
  /\ \A i \in 1..Len(s) : g[i] = Try(search, t, from, g[i - 1], s[i])
  /\ StaticTried(search, t, from) = g[Len(s)]

\* The tries have results.
TriesGive(search, t, from) ==
  /\ nodes[from.node].static \in Seq(Nat)
  /\ [node |-> 0, values |-> from.values] \in Results
  /\ \A found \in Results : \A i \in 1..Len(nodes[from.node].static) :
       Try(search, t, from, found, nodes[from.node].static[i]) \in Results

\* The fold over the static children steps from each to the next.
LEMMA StaticIs ==
  ASSUME NEW search, NEW t, NEW from, TriesGive(search, t, from)
  PROVE  \E g : Tries(search, t, from, g)
  <1>01. PICK n \in Nat : n = Len(nodes[from.node].static) BY DEF TriesGive
  <1>02. PICK V : V = Results OBVIOUS
  <1>03. /\ nodes[from.node].static \in Seq(Nat) /\ Len(nodes[from.node].static) = n
         /\ [node |-> 0, values |-> from.values] \in V
         /\ \A found \in V, i \in 1..n :
              Try(search, t, from, found, nodes[from.node].static[i]) \in V
    BY <1>01, <1>02 DEF TriesGive
  <1> DEFINE s == nodes[from.node].static
             base == [node |-> 0, values |-> from.values]
             step == [p \in V \X (1..n) |-> Try(search, t, from, p[1], s[p[2]])]
             it == CHOOSE it : it = [u \in SUBSET (DOMAIN s) |->
                     IF u = {} THEN base
                     ELSE LET x == Max(u)
                          IN  Try(search, t, from, it[u \ {x}], s[x])]
  <1>1. step \in [V \X (1..n) -> V] BY <1>03
  <1>2. DOMAIN s = 1..n BY <1>03
  <1>3. StaticTried(search, t, from) = it[DOMAIN s]
    BY Zenon DEF StaticTried, FoldLeft, MapThenFoldSet
  <1>4. \A v \in V, i \in 1..n : step[<<v, i>>] = Try(search, t, from, v, s[i])
    OBVIOUS
  <1>5. base \in V BY <1>03
  <1> HIDE DEF step, base, s
  <1>6. PICK f \in [SUBSET (1..n) -> V] : Folds(f, base, step, n)
    BY <1>1, <1>5, FoldExists
  <1>7. \A u \in SUBSET (1..n) : u # {} => Max(u) \in 1..n /\ u \ {Max(u)} \in SUBSET (1..n)
    BY MaxIs
  <1>8. f = [u \in SUBSET (1..n) |->
               IF u = {} THEN base ELSE Try(search, t, from, f[u \ {Max(u)}], s[Max(u)])]
    <2>1. \A u \in SUBSET (1..n) : u # {} => f[u \ {Max(u)}] \in V BY <1>6, <1>7
    <2>2. \A u \in SUBSET (1..n) : u # {} =>
            step[<<f[u \ {Max(u)}], Max(u)>>] = Try(search, t, from, f[u \ {Max(u)}], s[Max(u)])
      BY <1>4, <1>7, <2>1
    <2> QED BY <1>6, <2>2 DEF Folds
  <1>9. it = [u \in SUBSET (1..n) |->
                IF u = {} THEN base ELSE Try(search, t, from, it[u \ {Max(u)}], s[Max(u)])]
    BY <1>2, <1>8, Zenon
  <1> HIDE DEF it
  <1>10. PICK g \in [0..n -> V] : Steps(g, base, step, n) BY <1>1, <1>5, Recursion
  <1>11. \A i \in 1..n : g[i] = Try(search, t, from, g[i - 1], s[i])
    <2>1. \A i \in 1..n : i - 1 \in 0..n OBVIOUS
    <2> QED BY <1>4, <1>10, <2>1 DEF Steps
  <1> DEFINE T == {m \in 0..n : it[1..m] = g[m]}
  <1>12. 0 \in T
    <2>1. 1..0 = {} /\ {} \in SUBSET (1..n) /\ 0 \in 0..n OBVIOUS
    <2>2. it[{}] = base BY <1>9, <2>1
    <2> QED BY <1>10, <2>1, <2>2 DEF Steps
  <1>13. ASSUME NEW m \in 1..n, m - 1 \in T PROVE m \in T
    <2>1. m \in Nat /\ m # 0 /\ m \in 0..n OBVIOUS
    <2>2. 1..m # {} /\ Max(1..m) = m /\ (1..m) \ {m} = 1..(m - 1) BY <2>1, MaxUpTo
    <2>3. 1..m \in SUBSET (1..n)
      <3>1. 1..m \subseteq 1..n OBVIOUS
      <3> QED BY <3>1
    <2>4. it[1..m] = Try(search, t, from, it[1..(m - 1)], s[m]) BY <1>9, <2>2, <2>3
    <2>5. it[1..(m - 1)] = g[m - 1] BY <1>13
    <2>6. it[1..m] = g[m] BY <1>11, <2>4, <2>5
    <2> QED BY <2>1, <2>6
  <1> HIDE DEF T
  <1>14. \A m \in 0..n : m \in T BY <1>12, <1>13, UpTo
  <1>15. n \in 0..n OBVIOUS
  <1>16. it[1..n] = g[n] BY <1>14, <1>15 DEF T
  <1>17. g[0] = base BY <1>10 DEF Steps
  <1>18. StaticTried(search, t, from) = g[n] BY <1>2, <1>3, <1>16
  <1>19. s = nodes[from.node].static BY DEF s
  <1>20. base = [node |-> 0, values |-> from.values] BY DEF base
  <1>21. Tries(search, t, from, g)
    BY <1>01, <1>02, <1>10, <1>11, <1>17, <1>18, <1>19, <1>20 DEF Tries
  <1> QED BY <1>21

-----------------------------------------------------------------------------
(* What there is to be found below a node.                                 *)

\* The order of symbols and texts of the lemmas on patterns.
SymbolRank(x) == CASE x = ":" -> 1 [] x = "*" -> 2 [] OTHER -> 0

\* At the first symbol that tells them apart, u goes before v.
Before(u, v) ==
  \E k \in 1..Len(u) :
    /\ k <= Len(v) /\ SymbolRank(u[k]) < SymbolRank(v[k])
    /\ \A j \in 1..(k - 1) : u[j] = v[j]

\* Where a search stands: what is left of the path, and the values so far.
States == Pieces!States(STRING)

\* The text u from its symbol k on leads from a to b.
Leads(u, k, a, b) == Pieces!Leads(STRING, u, k, a, b)

\* The text from n to d takes all of what is left in a, and collects v.
Reaches(n, a, d, v) ==
  /\ nodes[d].route # {}
  /\ Leads(where[d].shape, Len(where[n].shape), a, [rest |-> <<>>, values |-> v])

\* r is what a search below n should find among the nodes of D.
Found(n, a, D, r) ==
  /\ r \in Results
  /\ r.node = 0 =>
       /\ r.values = a.values
       /\ \A d \in D, v \in Seq(Texts) : ~Reaches(n, a, d, v)
  /\ r.node # 0 =>
       /\ r.node \in D /\ Reaches(n, a, r.node, r.values)
       /\ \A d \in D, v \in Seq(Texts) :
            Reaches(n, a, d, v) /\ d # r.node =>
              Before(where[r.node].shape, where[d].shape)

\* The nodes of the tree below n, and n.
Sub(n) == {d \in NodeIds : d = n \/ Below(where, n, d)}

\* Of two texts one goes first.
LEMMA NotBoth ==
  ASSUME NEW u \in Seq(STRING), NEW v \in Seq(STRING), Before(u, v), Before(v, u)
  PROVE  FALSE
  <1>1. PICK k \in 1..Len(u) :
          /\ k <= Len(v) /\ SymbolRank(u[k]) < SymbolRank(v[k])
          /\ \A j \in 1..(k - 1) : u[j] = v[j]
    BY DEF Before
  <1>2. PICK l \in 1..Len(v) :
          /\ l <= Len(u) /\ SymbolRank(v[l]) < SymbolRank(u[l])
          /\ \A j \in 1..(l - 1) : v[j] = u[j]
    BY DEF Before
  <1>3. \A x : SymbolRank(x) \in Nat BY DEF SymbolRank
  <1>4. k \in Nat /\ l \in Nat /\ k # 0 /\ l # 0 OBVIOUS
  <1>5. CASE k < l
    <2>1. k \in 1..(l - 1) BY <1>4, <1>5
    <2>2. u[k] = v[k] BY <1>2, <2>1
    <2> QED BY <1>1, <1>3, <2>2
  <1>6. CASE l < k
    <2>1. l \in 1..(k - 1) BY <1>4, <1>6
    <2>2. u[l] = v[l] BY <1>1, <2>1
    <2> QED BY <1>2, <1>3, <2>2
  <1>7. CASE k = l
    <2>1. SymbolRank(u[k]) \in Nat /\ SymbolRank(v[k]) \in Nat BY <1>3
    <2> QED BY <1>1, <1>2, <1>7, <2>1
  <1> QED BY <1>4, <1>5, <1>6, <1>7

\* A state is what is left and what was collected.
LEMMA SameState ==
  ASSUME NEW a \in States, NEW b \in States, a.rest = b.rest, a.values = b.values
  PROVE  a = b
  BY Pieces!StateIs DEF States

\* A result is a node, or 0, and what was collected.
LEMMA ResultIs ==
  /\ \A r \in Results : r.node \in Nat /\ r.values \in Seq(Texts)
  /\ \A r, s \in Results : r.node = s.node /\ r.values = s.values => r = s
  /\ \A i \in Nat, v \in Seq(Texts) :
       /\ [node |-> i, values |-> v] \in Results
       /\ [node |-> i, values |-> v].node = i
       /\ [node |-> i, values |-> v].values = v
  BY DEF Results

\* The text to a node goes on to all the nodes below.
LEMMA SubIs ==
  ASSUME Inv, NEW n \in NodeIds, NEW d \in Sub(n)
  PROVE  /\ d \in NodeIds /\ where[d].shape \in Seq(STRING)
         /\ where[n].shape \in Seq(STRING)
         /\ Len(where[n].shape) \in 0..Len(where[d].shape)
         /\ d # n => Len(where[n].shape) < Len(where[d].shape)
         /\ \A i \in 1..Len(where[n].shape) : where[d].shape[i] = where[n].shape[i]
  <1>1. TypeOK BY DEF Inv
  <1>2. n \in DOMAIN where /\ d \in DOMAIN where /\ where \in Seq(Places) /\ d \in NodeIds
    BY <1>1, NodeTypes DEF Sub
  <1>3. where[d].shape \in Seq(STRING) /\ where[n].shape \in Seq(STRING)
    BY <1>2, PlaceTypes
  <1>4. d # n => Below(where, n, d) BY DEF Sub
  <1> QED BY <1>2, <1>3, <1>4 DEF Below, Begins

\* There is one thing to be found.
LEMMA FoundOne ==
  ASSUME Inv, NEW n \in NodeIds, NEW a \in States, NEW D, D \subseteq Sub(n),
         NEW r, NEW s, Found(n, a, D, r), Found(n, a, D, s)
  PROVE  r = s
  <1>1. /\ r \in Results /\ s \in Results
        /\ r.node \in Nat /\ r.values \in Seq(Texts)
        /\ s.node \in Nat /\ s.values \in Seq(Texts)
    BY ResultIs DEF Found
  <1> SUFFICES r.node = s.node /\ r.values = s.values BY <1>1, ResultIs
  <1>2. r.node = 0 <=> s.node = 0 BY <1>1 DEF Found
  <1>3. CASE r.node = 0 BY <1>2, <1>3 DEF Found
  <1>4. CASE r.node # 0
    <2>1. /\ r.node \in D /\ Reaches(n, a, r.node, r.values)
          /\ s.node \in D /\ Reaches(n, a, s.node, s.values)
      BY <1>2, <1>4 DEF Found
    <2>2. r.node = s.node
      <3> SUFFICES ASSUME r.node # s.node PROVE FALSE OBVIOUS
      <3>1. /\ Before(where[r.node].shape, where[s.node].shape)
            /\ Before(where[s.node].shape, where[r.node].shape)
        BY <1>1, <1>2, <1>4, <2>1 DEF Found
      <3>2. where[r.node].shape \in Seq(STRING) /\ where[s.node].shape \in Seq(STRING)
        BY <2>1, SubIs
      <3> QED BY <3>1, <3>2, NotBoth
    <2>3. r.values = s.values
      <3>1. PICK u \in Seq(STRING), k \in Nat :
              u = where[r.node].shape /\ k = Len(where[n].shape) /\ k \in 0..Len(u)
        BY <2>1, SubIs
      <3>2. PICK b, c : b = [rest |-> <<>>, values |-> r.values]
                        /\ c = [rest |-> <<>>, values |-> s.values]
        OBVIOUS
      <3>3. Leads(u, k, a, b) /\ Leads(u, k, a, c)
        BY <2>1, <2>2, <3>1, <3>2 DEF Reaches
      <3>4. b = c
        BY <3>1, <3>3, Pieces!LeadsOne DEF Leads, States
      <3> QED BY <3>2, <3>4
    <2> QED BY <2>2, <2>3
  <1> QED BY <1>3, <1>4

\* What is found among D goes before all of E; if nothing is, look in E.
LEMMA OrElse ==
  ASSUME NEW n, NEW a, NEW D, NEW E, NEW r, NEW s,
         Found(n, a, D, r), r.node = 0 => Found(n, a, E, s),
         \A d \in D, e \in E, v \in Seq(Texts), w \in Seq(Texts) :
           Reaches(n, a, d, v) /\ Reaches(n, a, e, w) =>
             d = e \/ Before(where[d].shape, where[e].shape)
  PROVE  Found(n, a, D \cup E, IF r.node # 0 THEN r ELSE s)
  <1>1. CASE r.node = 0 BY <1>1 DEF Found
  <1>2. CASE r.node # 0
    <2>1. r.values \in Seq(Texts) BY ResultIs DEF Found
    <2> QED BY <1>2, <2>1 DEF Found
  <1> QED BY <1>1, <1>2

\* The nodes below n are those below its children.
LEMMA SubParts ==
  ASSUME Inv, NEW n \in NodeIds
  PROVE  /\ n \in Sub(n)
         /\ \A c \in Children(nodes[n]) : c \in NodeIds /\ Sub(c) \subseteq Sub(n) /\ n \notin Sub(c)
         /\ \A d \in Sub(n) : d # n => \E c \in Children(nodes[n]) : d \in Sub(c)
  <1>1. TypeOK /\ Tree(where, Kids) BY DEF Inv, TreeInv
  <1>2. /\ where \in Seq(Places) /\ DOMAIN where = NodeIds
        /\ Kids[n] = Children(nodes[n])
        /\ \A c \in Children(nodes[n]) : c \in NodeIds
    BY <1>1, NodeTypes DEF Kids
  <1>3. \A c \in Children(nodes[n]) : Below(where, n, c) BY <1>1, <1>2 DEF Tree
  <1>4. ASSUME NEW c \in Children(nodes[n]), NEW d \in Sub(c) PROVE d \in Sub(n) /\ d # n
    <2>1. d \in NodeIds /\ (d = c \/ Below(where, c, d)) BY DEF Sub
    <2>2. Below(where, n, d) BY <1>2, <1>3, <2>1, BelowBelow
    <2>3. where[n] # where[d] BY <1>2, <2>1, <2>2, NotBelow
    <2> QED BY <2>1, <2>2, <2>3 DEF Sub
  <1>5. ASSUME NEW d \in Sub(n), d # n
        PROVE  \E c \in Children(nodes[n]) : d \in Sub(c)
    <2>1. d \in NodeIds /\ Below(where, n, d) BY <1>5 DEF Sub
    <2>2. PICK c \in Kids[n] : c = d \/ Below(where, c, d)
      BY <1>1, <1>2, <2>1 DEF Tree
    <2> QED BY <1>2, <2>1, <2>2 DEF Sub
  <1>6. n \in Sub(n) BY DEF Sub
  <1> QED BY <1>2, <1>4, <1>5, <1>6

\* A route at n itself takes what is left when nothing is.
LEMMA SelfReached ==
  ASSUME Inv, NEW n \in NodeIds, NEW a \in States, NEW v \in Seq(Texts)
  PROVE  Reaches(n, a, n, v) <=>
           nodes[n].route # {} /\ a.rest = <<>> /\ v = a.values
  <1>1. n \in Sub(n) BY SubParts
  <1>2. PICK u \in Seq(STRING) : u = where[n].shape BY <1>1, SubIs
  <1>3. PICK b : b = [rest |-> <<>>, values |-> v] OBVIOUS
  <1>4. Leads(u, Len(u), a, b) <=> a = b
    BY Pieces!LeadsEnds DEF Leads, States
  <1>5. <<>> \in Seq(STRING) /\ v \in Seq(Seq(STRING)) BY DEF Texts
  <1>6. b \in States /\ b.rest = <<>> /\ b.values = v
    BY <1>3, <1>5, Pieces!StateIs DEF States
  <1>7. a = b <=> a.rest = <<>> /\ v = a.values
    BY <1>6, Pieces!StateIs DEF States
  <1> QED BY <1>2, <1>3, <1>4, <1>7 DEF Reaches

\* Nothing takes what is not there.
LEMMA TakesSome ==
  ASSUME NEW x \in STRING, NEW a \in States, NEW b \in States,
         Pieces!Takes(STRING, x, a, b)
  PROVE  a.rest # <<>>
  <1>1. a.rest \in Seq(STRING) /\ b.rest \in Seq(STRING) BY Pieces!StateIs DEF States
  <1>2. CASE x = ":"
    <2>1. PICK q \in Seq(STRING) : q # <<>> /\ a.rest = q \o b.rest
      BY <1>2 DEF Pieces!Takes
    <2> QED BY <1>1, <2>1
  <1>3. CASE x = "*" BY <1>3 DEF Pieces!Takes
  <1>4. CASE x # ":" /\ x # "*"
    <2>1. a.rest = <<x>> \o b.rest BY <1>4 DEF Pieces!Takes
    <2> QED BY <1>1, <2>1
  <1> QED BY <1>2, <1>3, <1>4

\* A node further down is reached by a symbol first.
LEMMA FirstSymbol ==
  ASSUME Inv, NEW n \in NodeIds, NEW a \in States, NEW d \in Sub(n), d # n,
         NEW v \in Seq(Texts)
  PROVE  /\ Towards(where, n, d) \in STRING
         /\ Reaches(n, a, d, v) <=>
              \E c \in States :
                /\ Pieces!Takes(STRING, Towards(where, n, d), a, c)
                /\ nodes[d].route # {}
                /\ Leads(where[d].shape, Len(where[n].shape) + 1, c,
                         [rest |-> <<>>, values |-> v])
         /\ Reaches(n, a, d, v) => a.rest # <<>>
  <1>1. PICK u \in Seq(STRING), k \in Nat :
          u = where[d].shape /\ k = Len(where[n].shape) /\ k < Len(u)
    BY SubIs
  <1>2. PICK b : b = [rest |-> <<>>, values |-> v] OBVIOUS
  <1>3. Leads(u, k, a, b) <=>
          \E c \in States : Pieces!Takes(STRING, u[k + 1], a, c) /\ Leads(u, k + 1, c, b)
    BY <1>1, Pieces!LeadsFirst DEF Leads, States
  <1>4. u[k + 1] \in STRING
    <2>1. k + 1 \in 1..Len(u) BY <1>1
    <2> QED BY <2>1
  <1>5. Reaches(n, a, d, v) <=>
              \E c \in States :
                /\ Pieces!Takes(STRING, Towards(where, n, d), a, c)
                /\ nodes[d].route # {}
                /\ Leads(where[d].shape, Len(where[n].shape) + 1, c,
                         [rest |-> <<>>, values |-> v])
    BY <1>1, <1>2, <1>3 DEF Reaches, Towards
  <1>6. Towards(where, n, d) \in STRING BY <1>1, <1>4 DEF Towards
  <1> QED BY <1>5, <1>6, TakesSome

\* The first symbol to a node below a child is the one to the child.
LEMMA TowardsChild ==
  ASSUME Inv, NEW n \in NodeIds, NEW c \in Children(nodes[n]), NEW d \in Sub(c)
  PROVE  Towards(where, n, d) = Towards(where, n, c)
  <1>1. TypeOK /\ Tree(where, Kids) BY DEF Inv, TreeInv
  <1>2. /\ where \in Seq(Places) /\ DOMAIN where = NodeIds
        /\ Kids[n] = Children(nodes[n])
        /\ \A k \in Children(nodes[n]) : k \in NodeIds
    BY <1>1, NodeTypes DEF Kids
  <1>3. Below(where, n, c) BY <1>1, <1>2 DEF Tree
  <1>4. d \in NodeIds /\ (d = c \/ Below(where, c, d)) BY DEF Sub
  <1> QED BY <1>2, <1>3, <1>4, BelowBelow

\* Literal text goes before a parameter, and a parameter before a catch-all.
LEMMA ChildBefore ==
  ASSUME Inv, NEW n \in NodeIds, NEW c \in Children(nodes[n]), NEW e \in Children(nodes[n]),
         SymbolRank(Towards(where, n, c)) < SymbolRank(Towards(where, n, e)),
         NEW d \in Sub(c), NEW f \in Sub(e)
  PROVE  Before(where[d].shape, where[f].shape)
  <1>1. /\ Towards(where, n, d) = Towards(where, n, c)
        /\ Towards(where, n, f) = Towards(where, n, e)
    BY TowardsChild
  <1>2. d \in Sub(n) /\ d # n /\ f \in Sub(n) /\ f # n BY SubParts
  <1>3. PICK u \in Seq(STRING), w \in Seq(STRING), k \in Nat :
          /\ u = where[d].shape /\ w = where[f].shape /\ k = Len(where[n].shape)
          /\ k < Len(u) /\ k < Len(w) /\ \A i \in 1..k : u[i] = w[i]
    <2>1. /\ where[d].shape \in Seq(STRING) /\ where[n].shape \in Seq(STRING)
          /\ Len(where[n].shape) < Len(where[d].shape)
          /\ \A i \in 1..Len(where[n].shape) : where[d].shape[i] = where[n].shape[i]
      BY <1>2, SubIs
    <2>2. /\ where[f].shape \in Seq(STRING)
          /\ Len(where[n].shape) < Len(where[f].shape)
          /\ \A i \in 1..Len(where[n].shape) : where[f].shape[i] = where[n].shape[i]
      BY <1>2, SubIs
    <2>3. PICK x \in Seq(STRING) : x = where[n].shape BY <2>1
    <2>4. PICK u \in Seq(STRING), w \in Seq(STRING) : u = where[d].shape /\ w = where[f].shape
      BY <2>1, <2>2
    <2>5. Len(x) \in Nat /\ Len(x) < Len(u) /\ Len(x) < Len(w) BY <2>1, <2>2, <2>3, <2>4
    <2>6. \A i \in 1..Len(x) : u[i] = w[i] BY <2>1, <2>2, <2>3, <2>4
    <2> QED BY <2>3, <2>4, <2>5, <2>6
  <1>4. k + 1 \in 1..Len(u) /\ k + 1 <= Len(w) /\ (k + 1) - 1 = k BY <1>3
  <1>5. SymbolRank(u[k + 1]) < SymbolRank(w[k + 1]) BY <1>1, <1>3 DEF Towards
  <1> QED BY <1>3, <1>4, <1>5 DEF Before

\* Where a child stands: its parent's text, and the text of the edge.
LEMMA ChildPlace ==
  ASSUME Inv, NEW n \in NodeIds, NEW c \in NodeIds, NEW w \in Seq(STRING),
         Extends(c, n, w)
  PROVE  /\ where[n].shape \in Seq(STRING) /\ where[c].shape = where[n].shape \o w
         /\ where[c].method = where[n].method
         /\ Len(where[c].shape) = Len(where[n].shape) + Len(w)
  <1>1. where \in Seq(Places) /\ n \in DOMAIN where BY NodeTypes DEF Inv
  <1>2. where[n] \in Places /\ where[n].shape \in Seq(STRING) BY <1>1, PlaceTypes
  <1>3. where[c] = [method |-> where[n].method, shape |-> where[n].shape \o w]
    BY <1>2, LongerPlace DEF Extends
  <1>4. where[c].shape = where[n].shape \o w /\ where[c].method = where[n].method
    BY <1>3
  <1> QED BY <1>2, <1>4, ConcatProperties

\* Literal text takes a to b.
TakesText(w, a, b) == a.rest = w \o b.rest /\ b.values = a.values

\* A static child takes its text off what is left.
LEMMA StaticReached ==
  ASSUME Inv, NEW n \in NodeIds, NEW i \in 1..Len(nodes[n].static),
         NEW c, c = nodes[n].static[i], NEW d \in Sub(c), NEW a \in States,
         NEW v \in Seq(Texts)
  PROVE  Reaches(n, a, d, v) <=>
           \E b \in States : TakesText(nodes[c].prefix, a, b) /\ Reaches(c, b, d, v)
  <1>1. TypeOK /\ Edges(n) BY DEF Inv, TreeInv
  <1>2. c \in NodeIds BY <1>1, NodeTypes
  <1>3. PICK w \in Seq(STRING) : w = nodes[c].prefix BY <1>1, <1>2, NodeTypes
  <1>4. Plain(w) /\ Extends(c, n, w) BY <1>1, <1>3 DEF Edges
  <1>5. PICK t \in Seq(STRING), k \in Nat : t = where[n].shape /\ k = Len(t)
    <2>1. where[n].shape \in Seq(STRING) BY <1>2, <1>4, ChildPlace
    <2> QED BY <2>1
  <1>6. where[c].shape = t \o w /\ Len(where[c].shape) = k + Len(w)
    BY <1>2, <1>4, <1>5, ChildPlace
  <1>7. PICK u \in Seq(STRING) : u = where[d].shape BY <1>2, SubIs
  <1>8. /\ k + Len(w) <= Len(u) /\ \A j \in 1..(k + Len(w)) : u[j] = (t \o w)[j]
    <2>1. /\ Len(where[c].shape) \in 0..Len(where[d].shape)
          /\ \A j \in 1..Len(where[c].shape) : where[d].shape[j] = where[c].shape[j]
      BY <1>2, SubIs
    <2> QED BY <1>6, <1>7, <2>1
  <1>9. Pieces!Stands(w, u, k)
    <2>1. \A j \in 1..Len(w) : (t \o w)[k + j] = w[j] BY <1>5, Pieces!JoinedAt
    <2>2. \A j \in 1..Len(w) : k + j \in 1..(k + Len(w)) BY <1>5
    <2> QED BY <1>8, <2>1, <2>2 DEF Pieces!Stands
  <1>10. \A j \in 1..Len(w) : w[j] \notin Pieces!Markers
    BY <1>4 DEF Plain, Markers, Pieces!Markers
  <1>11. PICK b : b = [rest |-> <<>>, values |-> v] OBVIOUS
  <1>12. Leads(u, k, a, b) <=>
           \E r \in Seq(STRING) :
             /\ a.rest = w \o r
             /\ Leads(u, k + Len(w), [rest |-> r, values |-> a.values], b)
    BY <1>5, <1>9, <1>10, Pieces!LeadsText DEF Leads, States
  <1>13. a.values \in Seq(Seq(STRING)) BY Pieces!StateIs DEF States
  <1>14. ASSUME Leads(u, k, a, b)
         PROVE  \E o \in States :
                  TakesText(w, a, o) /\ Leads(u, k + Len(w), o, b)
    <2>1. PICK r \in Seq(STRING) :
            a.rest = w \o r /\ Leads(u, k + Len(w), [rest |-> r, values |-> a.values], b)
      BY <1>12, <1>14
    <2>2. PICK o : o = [rest |-> r, values |-> a.values] OBVIOUS
    <2>3. o \in States /\ o.rest = r /\ o.values = a.values
      BY <1>13, <2>2, Pieces!StateIs DEF States
    <2>4. TakesText(w, a, o) BY <2>1, <2>3 DEF TakesText
    <2> QED BY <2>1, <2>2, <2>3, <2>4
  <1>15. ASSUME NEW o \in States, TakesText(w, a, o), Leads(u, k + Len(w), o, b)
         PROVE  Leads(u, k, a, b)
    <2>1. o.rest \in Seq(STRING) /\ [rest |-> o.rest, values |-> o.values] = o
      BY Pieces!StateIs DEF States
    <2>2. a.rest = w \o o.rest /\ o.values = a.values BY <1>15 DEF TakesText
    <2> QED BY <1>12, <1>15, <2>1, <2>2
  <1> QED BY <1>3, <1>5, <1>6, <1>7, <1>11, <1>14, <1>15 DEF Reaches

\* A parameter takes a segment.
LEMMA ParameterReached ==
  ASSUME Inv, NEW n \in NodeIds, NEW c, c = nodes[n].parameter, c # 0,
         NEW d \in Sub(c), NEW a \in States, NEW v \in Seq(Texts)
  PROVE  Reaches(n, a, d, v) <=>
           \E b \in States : Pieces!Takes(STRING, ":", a, b) /\ Reaches(c, b, d, v)
  <1>1. TypeOK /\ Edges(n) BY DEF Inv, TreeInv
  <1>2. c \in NodeIds /\ c \in Children(nodes[n]) BY <1>1, NodeTypes DEF Children
  <1>3. Towards(where, n, c) = ":" BY ChildSymbols
  <1>4. d \in Sub(n) /\ d # n BY <1>2, SubParts
  <1>5. Towards(where, n, d) = ":" BY <1>2, <1>3, TowardsChild
  <1>6. Extends(c, n, <<":">>) BY <1>1 DEF Edges
  <1>7. Len(where[c].shape) = Len(where[n].shape) + 1
    <2>1. \A x \in STRING : <<x>> \in Seq(STRING) /\ Len(<<x>>) = 1 OBVIOUS
    <2>2. ":" \in STRING BY <1>4, <1>5, FirstSymbol
    <2> QED BY <1>2, <1>6, <2>1, <2>2, ChildPlace
  <1> QED BY <1>4, <1>5, <1>7, FirstSymbol DEF Reaches

\* A catch-all is a leaf, and takes what is left.
LEMMA CatchAllReached ==
  ASSUME Inv, NEW n \in NodeIds, NEW c, c = nodes[n].catch_all, c # 0,
         NEW a \in States, NEW v \in Seq(Texts)
  PROVE  /\ Sub(c) = {c}
         /\ Reaches(n, a, c, v) <=>
              /\ nodes[c].route # {} /\ a.rest \notin {<<>>, <<"/">>}
              /\ v = Append(a.values, a.rest)
  <1>1. TypeOK /\ Edges(n) BY DEF Inv, TreeInv
  <1>2. c \in NodeIds /\ c \in Children(nodes[n]) BY <1>1, NodeTypes DEF Children
  <1>3. nodes[c].type = "catch_all" /\ Extends(c, n, <<"*">>) BY <1>1 DEF Edges
  <1>4. Children(nodes[c]) = {}
    <2>1. Segmented(c) BY <1>2 DEF Inv, SegmentInv
    <2>2. nodes[c].static = <<>> /\ nodes[c].parameter = 0 /\ nodes[c].catch_all = 0
      BY <1>3, <2>1 DEF Segmented
    <2>3. ToSet(<<>>) = {} BY DEF ToSet
    <2> QED BY <2>2, <2>3 DEF Children
  <1>5. Sub(c) = {c}
    <2>1. c \in Sub(c) /\ \A d \in Sub(c) : d = c BY <1>2, <1>4, SubParts
    <2> QED BY <2>1
  <1>6. c \in Sub(n) /\ c # n BY <1>2, <1>5, SubParts
  <1>7. Towards(where, n, c) = "*" BY ChildSymbols
  <1>8. Len(where[c].shape) = Len(where[n].shape) + 1
    <2>1. \A x \in STRING : <<x>> \in Seq(STRING) /\ Len(<<x>>) = 1 OBVIOUS
    <2>2. "*" \in STRING BY <1>6, <1>7, FirstSymbol
    <2> QED BY <1>2, <1>3, <2>1, <2>2, ChildPlace
  <1>9. Reaches(n, a, c, v) <=>
          \E b \in States : Pieces!Takes(STRING, "*", a, b) /\ Reaches(c, b, c, v)
    BY <1>6, <1>7, <1>8, FirstSymbol DEF Reaches
  <1>10. \A b \in States : Reaches(c, b, c, v) <=>
           nodes[c].route # {} /\ b.rest = <<>> /\ v = b.values
    BY <1>2, SelfReached
  <1>11. \A b \in States : Pieces!Takes(STRING, "*", a, b) <=>
           /\ a.rest \notin {<<>>, <<"/">>}
           /\ b.rest = <<>> /\ b.values = Append(a.values, a.rest)
    BY DEF Pieces!Takes
  <1>12. PICK b : b = [rest |-> <<>>, values |-> Append(a.values, a.rest)] OBVIOUS
  <1>13. b \in States /\ b.rest = <<>> /\ b.values = Append(a.values, a.rest)
    <2>1. a.rest \in Seq(STRING) /\ a.values \in Seq(Seq(STRING)) /\ <<>> \in Seq(STRING)
      BY Pieces!StateIs DEF States
    <2>2. Append(a.values, a.rest) \in Seq(Seq(STRING)) BY <2>1, AppendProperties
    <2> QED BY <1>12, <2>1, <2>2, Pieces!StateIs DEF States
  <1>14. ASSUME Reaches(n, a, c, v)
         PROVE  /\ nodes[c].route # {} /\ a.rest \notin {<<>>, <<"/">>}
                /\ v = Append(a.values, a.rest)
    BY <1>9, <1>10, <1>11, <1>14
  <1>15. ASSUME nodes[c].route # {}, a.rest \notin {<<>>, <<"/">>},
                v = Append(a.values, a.rest)
         PROVE  Reaches(n, a, c, v)
    BY <1>9, <1>10, <1>11, <1>13, <1>15
  <1> QED BY <1>5, <1>14, <1>15

\* What goes off the front of a text, and what is left.
LEMMA PrefixIs ==
  ASSUME NEW w \in Seq(STRING), NEW s \in Seq(STRING)
  PROVE  /\ IsPrefix(w, s) => Len(w) \in 0..Len(s) /\ s = w \o Drop(s, Len(w))
         /\ \A r \in Seq(STRING) : s = w \o r => IsPrefix(w, s) /\ Drop(s, Len(w)) = r
  <1>1. Len(w) \in Nat /\ Len(s) \in Nat OBVIOUS
  <1>2. ASSUME IsPrefix(w, s)
        PROVE  Len(w) \in 0..Len(s) /\ s = w \o Drop(s, Len(w))
    <2>1. Len(w) <= Len(s) /\ SubSeq(w, 1, Len(w)) = SubSeq(s, 1, Len(w))
      BY <1>2 DEF IsPrefix
    <2>2. SubSeq(w, 1, Len(w)) = w OBVIOUS
    <2>3. SubSeq(s, 1, Len(w)) \o Drop(s, Len(w)) = s
      <3>1. CASE w = <<>>
        <4>1. Len(w) = 0 /\ SubSeq(s, 1, 0) = <<>> /\ SubSeq(s, 1, Len(s)) = s
          BY <3>1
        <4>2. Drop(s, 0) = s BY <4>1 DEF Drop
        <4> QED BY <4>1, <4>2
      <3>2. CASE w # <<>>
        <4>1. Len(w) \in 1..Len(s) BY <1>1, <2>1, <3>2
        <4> QED BY <4>1, Halves
      <3> QED BY <3>1, <3>2
    <2> QED BY <1>1, <2>1, <2>2, <2>3
  <1>3. ASSUME NEW r \in Seq(STRING), s = w \o r
        PROVE  IsPrefix(w, s) /\ Drop(s, Len(w)) = r
    <2>1. /\ Len(s) = Len(w) + Len(r)
          /\ \A i \in 1..Len(w) : s[i] = w[i]
          /\ \A i \in 1..Len(r) : s[Len(w) + i] = r[i]
      BY <1>3, Pieces!JoinedAt
    <2>2. Len(r) \in Nat /\ Len(w) <= Len(s) /\ Len(w) \in 0..Len(s) BY <1>1, <2>1
    <2>3. SubSeq(w, 1, Len(w)) = SubSeq(s, 1, Len(w))
      <3>1. /\ SubSeq(s, 1, Len(w)) \in Seq(STRING) /\ Len(SubSeq(s, 1, Len(w))) = Len(w)
            /\ \A i \in 1..Len(w) : SubSeq(s, 1, Len(w))[i] = s[i]
        BY <1>1, <2>2
      <3>2. SubSeq(w, 1, Len(w)) = w OBVIOUS
      <3>3. w = SubSeq(s, 1, Len(w)) BY <2>1, <3>1, SeqEqual
      <3> QED BY <3>2, <3>3
    <2>4. Drop(s, Len(w)) = r
      <3>1. /\ Drop(s, Len(w)) \in Seq(STRING) /\ Len(Drop(s, Len(w))) = Len(r)
            /\ \A i \in 1..Len(r) : Drop(s, Len(w))[i] = s[i + Len(w)]
        <4>1. Len(s) - Len(w) = Len(r) BY <1>1, <2>1, <2>2
        <4> QED BY <2>2, <4>1, DropIs
      <3>2. \A i \in 1..Len(r) : i + Len(w) = Len(w) + i BY <1>1
      <3>3. \A i \in 1..Len(r) : Drop(s, Len(w))[i] = r[i] BY <2>1, <3>1, <3>2
      <3> QED BY <3>1, <3>3, SeqEqual
    <2> QED BY <2>2, <2>3, <2>4 DEF IsPrefix
  <1> QED BY <1>2, <1>3

\* The state of a search that was called with from.
At(t, from) == [rest |-> Left(t, from), values |-> from.values]

\* What is left behind a position, and further on.
LEMMA LeftIs ==
  ASSUME NEW t \in Seq(STRING), NEW from \in Froms
  PROVE  /\ from.node \in NodeIds /\ from.position \in Nat /\ from.values \in Seq(Texts)
         /\ Left(t, from) \in Seq(STRING)
         /\ At(t, from) \in States
         /\ At(t, from).rest = Left(t, from) /\ At(t, from).values = from.values
         /\ Len(Left(t, from)) = IF from.position + 1 <= Len(t) THEN Len(t) - from.position ELSE 0
         /\ \A i \in 1..Len(Left(t, from)) : Left(t, from)[i] = t[from.position + i]
  <1>1. from.node \in NodeIds /\ from.position \in Nat /\ from.values \in Seq(Texts)
    BY DEF Froms, NodeIds
  <1>7. PICK p \in Nat : p = from.position BY <1>1
  <1>2. PICK s : s = Left(t, from) OBVIOUS
  <1>3. s = SubSeq(t, p + 1, Len(t)) BY <1>2, <1>7 DEF Left, Drop
  <1>4. /\ s \in Seq(STRING) /\ Len(s) = IF p + 1 <= Len(t) THEN Len(t) - p ELSE 0
        /\ \A i \in 1..Len(s) : s[i] = t[p + i]
    <2>1. Len(t) \in Nat OBVIOUS
    <2>2. CASE p + 1 <= Len(t)
      <3>1. p \in 0..Len(t) BY <2>1, <2>2
      <3>2. s = Drop(t, p) BY <1>3 DEF Drop
      <3>3. /\ s \in Seq(STRING) /\ Len(s) = Len(t) - p
            /\ \A i \in 1..(Len(t) - p) : s[i] = t[i + p]
        BY <3>1, <3>2, DropIs
      <3>4. \A i \in 1..(Len(t) - p) : i + p = p + i OBVIOUS
      <3> QED BY <2>2, <3>3, <3>4
    <2>3. CASE ~(p + 1 <= Len(t))
      <3>1. s = <<>> BY <1>3, <2>1, <2>3
      <3> QED BY <2>3, <3>1
    <2> QED BY <2>2, <2>3
  <1>5. /\ At(t, from) \in States
        /\ At(t, from).rest = s /\ At(t, from).values = from.values
    BY <1>1, <1>2, <1>7, <1>4, Pieces!StateIs DEF States, At, Texts
  <1> QED BY <1>1, <1>2, <1>7, <1>4, <1>5

\* What is left further on.
LEMMA LeftFurther ==
  ASSUME NEW t \in Seq(STRING), NEW from \in Froms, NEW s, s = Left(t, from),
         NEW c \in NodeIds, NEW l \in 0..Len(s), NEW v \in Seq(Texts),
         NEW f, f = [node |-> c, position |-> from.position + l, values |-> v]
  PROVE  /\ f \in Froms /\ f.node = c
         /\ Left(t, f) = Drop(s, l)
         /\ At(t, f) = [rest |-> Drop(s, l), values |-> v]
  <1>17. PICK p \in Nat : p = from.position BY LeftIs
  <1>14. /\ s \in Seq(STRING) /\ Len(s) \in Nat
         /\ Len(s) = IF p + 1 <= Len(t) THEN Len(t) - p ELSE 0
         /\ \A i \in 1..Len(s) : s[i] = t[p + i]
    BY <1>17, LeftIs
  <1>16. f = [node |-> c, position |-> p + l, values |-> v] BY <1>17
  <1>1. l \in Nat /\ p + l \in Nat BY <1>14
  <1>2. f \in Froms /\ f.node = c /\ f.position = p + l /\ f.values = v
    BY <1>16, <1>1 DEF Froms, NodeIds
  <1>3. PICK q : q = SubSeq(t, (p + l) + 1, Len(t)) OBVIOUS
  <1>4. Left(t, f) = q BY <1>2, <1>3 DEF Left, Drop
  <1>5. q = Drop(s, l)
    <2>1. Len(t) \in Nat OBVIOUS
    <2>2. /\ Drop(s, l) \in Seq(STRING) /\ Len(Drop(s, l)) = Len(s) - l
          /\ \A i \in 1..(Len(s) - l) : Drop(s, l)[i] = s[i + l]
      BY <1>14, DropIs
    <2>3. CASE p + l <= Len(t) /\ p + 1 <= Len(t)
      <3>1. p + l \in 0..Len(t) /\ Len(s) - l = Len(t) - (p + l) /\ Len(s) = Len(t) - p
        BY <1>14, <1>1, <2>1, <2>3
      <3>2. /\ q \in Seq(STRING) /\ Len(q) = Len(t) - (p + l)
            /\ \A i \in 1..(Len(t) - (p + l)) : q[i] = t[i + (p + l)]
        BY <1>3, <3>1, DropIs DEF Drop
      <3>3. \A i \in 1..(Len(s) - l) : i + l \in 1..Len(s) /\ p + (i + l) = i + (p + l)
        BY <1>14, <1>1, <2>1, <3>1
      <3>5. \A i \in 1..(Len(s) - l) : s[i + l] = t[i + (p + l)]
        BY <1>14, <3>3
      <3>4. \A i \in 1..Len(q) : q[i] = Drop(s, l)[i]
        BY <2>2, <3>1, <3>2, <3>5
      <3> QED BY <2>2, <3>1, <3>2, <3>4, SeqEqual
    <2>4. CASE ~(p + 1 <= Len(t))
      <3>1. Len(s) = 0 /\ l = 0 BY <1>14, <2>4
      <3>2. s = <<>> BY <1>14, <3>1
      <3>3. q = <<>> BY <1>1, <1>3, <2>1, <2>4
      <3>4. Drop(s, l) = <<>> BY <2>2, <3>1
      <3> QED BY <3>3, <3>4
    <2>5. ~(p + l <= Len(t)) => ~(p + 1 <= Len(t)) BY <1>14, <1>1, <2>1
    <2> QED BY <2>3, <2>4, <2>5
  <1>6. At(t, f) = [rest |-> Drop(s, l), values |-> v] BY <1>2, <1>4, <1>5 DEF At
  <1> QED BY <1>2, <1>4, <1>5, <1>6

\* What a parameter takes is what match gives it.
LEMMA ParameterTakes ==
  ASSUME NEW a \in States, NEW e, e = Span(a.rest, {"/"})
  PROVE  /\ e \in 0..Len(a.rest)
         /\ e # 0 => /\ SubSeq(a.rest, 1, e) \in Seq(STRING)
                     /\ [rest |-> Drop(a.rest, e),
                         values |-> Append(a.values, SubSeq(a.rest, 1, e))] \in States
         /\ \A b \in States :
              Pieces!Takes(STRING, ":", a, b) <=>
                /\ e # 0
                /\ b = [rest |-> Drop(a.rest, e),
                        values |-> Append(a.values, SubSeq(a.rest, 1, e))]
  <1>1. PICK s \in Seq(STRING), w \in Seq(Seq(STRING)) : s = a.rest /\ w = a.values
    BY Pieces!StateIs DEF States
  <1>2. /\ e \in 0..Len(s)
        /\ \A i \in 1..e : s[i] # "/"
        /\ e < Len(s) => s[e + 1] = "/"
    BY <1>1, SpanEnds
  <1>3. ASSUME e # 0
        PROVE  /\ SubSeq(s, 1, e) \in Seq(STRING) /\ SubSeq(s, 1, e) # <<>>
               /\ Len(SubSeq(s, 1, e)) = e /\ \A i \in 1..e : SubSeq(s, 1, e)[i] = s[i]
               /\ Drop(s, e) \in Seq(STRING) /\ s = SubSeq(s, 1, e) \o Drop(s, e)
               /\ Drop(s, e) = <<>> \/ Drop(s, e)[1] = "/"
               /\ Append(w, SubSeq(s, 1, e)) \in Seq(Seq(STRING))
    <2>1. e \in 1..Len(s) /\ e \in Nat /\ Len(s) \in Nat BY <1>2, <1>3
    <2>2. /\ SubSeq(s, 1, e) \in Seq(STRING) /\ SubSeq(s, 1, e) # <<>>
          /\ Len(SubSeq(s, 1, e)) = e /\ \A i \in 1..e : SubSeq(s, 1, e)[i] = s[i]
          /\ Drop(s, e) \in Seq(STRING) /\ s = SubSeq(s, 1, e) \o Drop(s, e)
      BY <2>1, Halves
    <2>3. /\ Len(Drop(s, e)) = Len(s) - e
          /\ \A i \in 1..(Len(s) - e) : Drop(s, e)[i] = s[i + e]
      BY <1>2, DropIs
    <2>4. Drop(s, e) = <<>> \/ Drop(s, e)[1] = "/"
      <3>1. CASE e = Len(s) BY <2>1, <2>2, <2>3, <3>1
      <3>2. CASE e # Len(s)
        <4>1. e < Len(s) /\ 1 \in 1..(Len(s) - e) /\ 1 + e = e + 1 BY <2>1, <3>2
        <4> QED BY <1>2, <2>3, <4>1
      <3> QED BY <3>1, <3>2
    <2>5. Append(w, SubSeq(s, 1, e)) \in Seq(Seq(STRING)) BY <2>2, AppendProperties
    <2> QED BY <2>2, <2>4, <2>5
  <1> DEFINE q == SubSeq(s, 1, e)
             r == Drop(s, e)
  <1>4. PICK c : c = [rest |-> r, values |-> Append(w, q)] OBVIOUS
  <1>5. e # 0 => c \in States /\ c.rest = r /\ c.values = Append(w, q)
    BY <1>3, <1>4, Pieces!StateIs DEF States
  <1>6. ASSUME e # 0 PROVE Pieces!Takes(STRING, ":", a, c)
    <2>1. /\ q \in Seq(STRING) /\ q # <<>> /\ \A i \in 1..Len(q) : q[i] # "/"
          /\ s = q \o r /\ (r = <<>> \/ r[1] = "/")
      BY <1>2, <1>3, <1>6
    <2>2. c.rest = r /\ c.values = Append(w, q) BY <1>5, <1>6
    <2> HIDE DEF q, r
    <2> QED BY <1>1, <2>1, <2>2 DEF Pieces!Takes
  <1>7. ASSUME NEW b \in States, Pieces!Takes(STRING, ":", a, b)
        PROVE  e # 0 /\ b = c
    <2>1. PICK p \in Seq(STRING) :
            /\ p # <<>> /\ \A i \in 1..Len(p) : p[i] # "/"
            /\ s = p \o b.rest
            /\ b.rest = <<>> \/ b.rest[1] = "/"
            /\ b.values = Append(w, p)
      BY <1>1, <1>7 DEF Pieces!Takes
    <2>2. b.rest \in Seq(STRING) BY Pieces!StateIs DEF States
    <2>3. e # 0
      <3> SUFFICES ASSUME e = 0 PROVE FALSE OBVIOUS
      <3>1. Len(p) \in Nat /\ Len(p) # 0 BY <2>1
      <3>2. /\ Len(s) = Len(p) + Len(b.rest) /\ Len(b.rest) \in Nat
            /\ \A i \in 1..Len(p) : s[i] = p[i]
        BY <2>1, <2>2, Pieces!JoinedAt
      <3>3. 1 \in 1..Len(p) /\ e < Len(s) /\ e + 1 = 1 BY <3>1, <3>2
      <3> QED BY <1>2, <2>1, <3>2, <3>3
    <2>4. c \in States /\ c.rest = r BY <1>5, <2>3
    <2>5. Pieces!Takes(STRING, ":", a, c) BY <1>6, <2>3
    <2>7. p = q /\ b.rest = r
      <3>1. /\ q \in Seq(STRING) /\ r \in Seq(STRING) /\ \A i \in 1..Len(q) : q[i] # "/"
            /\ s = q \o r /\ (r = <<>> \/ r[1] = "/")
        BY <1>2, <1>3, <2>3
      <3>2. PICK o \in Seq(STRING) : o = b.rest BY <2>2
      <3> HIDE DEF q, r
      <3>6. Pieces!Joins(s, p, o) /\ Pieces!Joins(s, q, r)
        BY <2>1, <3>1, <3>2 DEF Pieces!Joins
      <3>3. o = <<>> \/ o[1] = "/" BY <2>1, <3>2
      <3>4. \A i \in 1..Len(p) : p[i] # "/" BY <2>1
      <3>5. p = q /\ o = r BY <3>1, <3>3, <3>4, <3>6, Pieces!FrontOne
      <3> QED BY <3>2, <3>5
    <2>8. b.values = c.values BY <1>5, <2>1, <2>3, <2>7
    <2>6. b = c BY <2>4, <2>7, <2>8, Pieces!StateIs DEF States
    <2> QED BY <2>3, <2>6
  <1> QED BY <1>1, <1>2, <1>3, <1>4, <1>5, <1>6, <1>7

\* What a try below a child finds is what is to be found there.
LEMMA TriedFound ==
  ASSUME NEW n, NEW c, NEW a \in States, NEW b, NEW r,
         \A d \in Sub(c), v \in Seq(Texts) : Reaches(n, a, d, v) <=> Reaches(c, b, d, v),
         b.values = a.values \/ \E q \in Texts : b.values = Append(a.values, q),
         Found(c, b, Sub(c), r)
  PROVE  Found(n, a, Sub(c), Backtrack(Len(a.values), r))
  <1>1. a.values \in Seq(Texts) BY Pieces!StateIs DEF States, Texts
  <1>2. SubSeq(b.values, 1, Len(a.values)) = a.values
    <2>1. PICK w \in Seq(Texts) : w = a.values BY <1>1
    <2>2. SubSeq(w, 1, Len(w)) = w OBVIOUS
    <2>3. \A q \in Texts : SubSeq(Append(w, q), 1, Len(w)) = w
      <3> TAKE q \in Texts
      <3>1. /\ Append(w, q) \in Seq(Texts) /\ Len(Append(w, q)) = Len(w) + 1
            /\ \A i \in 1..Len(w) : Append(w, q)[i] = w[i]
        BY AppendProperties
      <3>2. PICK z \in Seq(Texts) : z = Append(w, q) BY <3>1
      <3>3. Len(w) \in Nat /\ Len(w) \in 0..Len(z) BY <3>1, <3>2
      <3>4. /\ SubSeq(z, 1, Len(w)) \in Seq(Texts) /\ Len(SubSeq(z, 1, Len(w))) = Len(w)
            /\ \A i \in 1..Len(w) : SubSeq(z, 1, Len(w))[i] = z[i]
        BY <3>3
      <3> QED BY <3>1, <3>2, <3>4, SeqEqual
    <2> QED BY <2>1, <2>2, <2>3
  <1>3. r \in Results /\ r.node \in Nat /\ r.values \in Seq(Texts) BY ResultIs DEF Found
  <1>4. CASE r.node # 0
    <2>1. Backtrack(Len(a.values), r) = r BY <1>4 DEF Backtrack
    <2>2. r.node \in Sub(c) BY <1>4 DEF Found
    <2> QED BY <1>3, <1>4, <2>1, <2>2 DEF Found
  <1>5. CASE r.node = 0
    <2>1. r.values = b.values /\ \A d \in Sub(c), v \in Seq(Texts) : ~Reaches(c, b, d, v)
      BY <1>5 DEF Found
    <2>2. PICK z : z = Backtrack(Len(a.values), r) OBVIOUS
    <2>3. z = [r EXCEPT !.values = a.values] BY <1>2, <1>5, <2>1, <2>2 DEF Backtrack
    <2>4. z \in Results /\ z.node = 0 /\ z.values = a.values
      BY <1>1, <1>3, <1>5, <2>3 DEF Results
    <2> QED BY <2>1, <2>2, <2>4 DEF Found
  <1> QED BY <1>4, <1>5

\* The search finds what it should wherever less is left.
FindsFurther(search, t, from) ==
  \A f \in Froms :
    Len(Left(t, f)) < Len(Left(t, from)) =>
      Found(f.node, At(t, f), Sub(f.node), search[f])

\* The text of a static child below which there is something.
LEMMA StaticTaken ==
  ASSUME Inv, NEW n \in NodeIds, NEW i \in 1..Len(nodes[n].static),
         NEW c, c = nodes[n].static[i], NEW d \in Sub(c), NEW a \in States,
         NEW v \in Seq(Texts), Reaches(n, a, d, v)
  PROVE  \E b \in States : TakesText(nodes[c].prefix, a, b)
  BY StaticReached

\* The text of c is taken, and from there d is reached.
ReachesPast(c, a, d, v) ==
  \E b \in States : TakesText(nodes[c].prefix, a, b) /\ Reaches(c, b, d, v)

\* What lies below a static child is reached past the child's text.
LEMMA PastStatic ==
  ASSUME Inv, NEW n \in NodeIds, NEW i \in 1..Len(nodes[n].static),
         NEW c, c = nodes[n].static[i], NEW d \in Sub(c), NEW a \in States,
         NEW v \in Seq(Texts)
  PROVE  Reaches(n, a, d, v) <=> ReachesPast(c, a, d, v)
  BY StaticReached DEF ReachesPast

\* A try of a static child.
LEMMA StaticTry ==
  ASSUME Inv, NEW t \in Seq(STRING), NEW from \in Froms, NEW search,
         FindsFurther(search, t, from), NEW n, n = from.node,
         NEW i \in 1..Len(nodes[n].static), NEW c, c = nodes[n].static[i],
         NEW found \in Results
  PROVE  /\ Try(search, t, from, found, c) \in Results
         /\ found.node # 0 => Try(search, t, from, found, c) = found
         /\ found.node = 0 /\ found.values = from.values =>
              Found(n, At(t, from), Sub(c), Try(search, t, from, found, c))
  <1>1. /\ TypeOK /\ n \in NodeIds /\ Left(t, from) \in Seq(STRING)
        /\ At(t, from) \in States /\ At(t, from).rest = Left(t, from)
        /\ At(t, from).values = from.values /\ from.values \in Seq(Texts)
    BY LeftIs DEF Inv
  <1>2. c \in NodeIds BY <1>1, NodeTypes
  <1>3. PICK w \in Seq(STRING) : w = nodes[c].prefix BY <1>1, <1>2, NodeTypes
  <1>4. w # <<>>
    <2>1. Edges(n) BY <1>1 DEF Inv, TreeInv
    <2> QED BY <1>3, <2>1 DEF Edges
  <1>5. PICK s \in Seq(STRING), a \in States : s = Left(t, from) /\ a = At(t, from)
    BY <1>1
  <1>6. found.node \in Nat /\ found.values \in Seq(Texts) BY ResultIs
  <1>7. ASSUME found.node # 0 PROVE Try(search, t, from, found, c) = found
    BY <1>7 DEF Try
  <1>8. ASSUME ~IsPrefix(w, s)
        PROVE  /\ Try(search, t, from, found, c) = found
               /\ \A d \in Sub(c), v \in Seq(Texts) : ~Reaches(n, a, d, v)
    <2>1. Try(search, t, from, found, c) = found BY <1>3, <1>5, <1>8 DEF Try
    <2>2. ASSUME NEW d \in Sub(c), NEW v \in Seq(Texts), Reaches(n, a, d, v) PROVE FALSE
      <3>1. PICK r \in Seq(STRING) : a.rest = w \o r
        <4>1. PICK b \in States : TakesText(nodes[c].prefix, a, b)
          <5>1. n \in NodeIds /\ a \in States BY <1>1, <1>5
          <5>2. Reaches(n, a, d, v) <=> ReachesPast(c, a, d, v) BY <5>1, PastStatic
          <5> QED BY <2>2, <5>2 DEF ReachesPast
        <4> QED BY <1>3, <4>1, Pieces!StateIs DEF States, TakesText
      <3> QED BY <1>1, <1>5, <1>8, <3>1, PrefixIs
    <2> QED BY <2>1, <2>2
  <1>9. ASSUME IsPrefix(w, s), found.node = 0
        PROVE  /\ Try(search, t, from, found, c) \in Results
               /\ found.values = from.values =>
                    Found(n, a, Sub(c), Try(search, t, from, found, c))
    <2>1. Len(w) \in 0..Len(s) BY <1>9, PrefixIs
    <2>2. PICK f : f = [node |-> c, values |-> found.values,
                        position |-> from.position + Len(w)]
      OBVIOUS
    <2>3. f = [node |-> c, position |-> from.position + Len(w), values |-> found.values]
      BY <2>2
    <2>4. PICK b : b = At(t, f) OBVIOUS
    <2>5. /\ f \in Froms /\ f.node = c /\ Left(t, f) = Drop(s, Len(w))
          /\ b = [rest |-> Drop(s, Len(w)), values |-> found.values]
      BY <1>2, <1>5, <1>6, <2>1, <2>3, <2>4, LeftFurther
    <2>6. b.values = found.values BY <2>5
    <2>7. Len(Left(t, f)) < Len(Left(t, from))
      <3>1. Len(Drop(s, Len(w))) = Len(s) - Len(w) BY <2>1, DropIs
      <3>2. Len(w) \in Nat /\ Len(s) \in Nat /\ Len(w) # 0 BY <1>4
      <3> QED BY <1>5, <2>5, <3>1, <3>2
    <2>8. PICK r : r = search[f] OBVIOUS
    <2>9. Found(c, b, Sub(c), r) BY <2>4, <2>5, <2>7, <2>8 DEF FindsFurther
    <2>10. Try(search, t, from, found, c) = Backtrack(Len(found.values), r)
      BY <1>3, <1>5, <1>9, <2>2, <2>8 DEF Try
    <2>11. Backtrack(Len(found.values), r) \in Results
      <3>1. r \in Results BY <2>9 DEF Found
      <3>2. CASE r.node # 0 BY <3>1, <3>2 DEF Backtrack
      <3>3. CASE r.node = 0
        <4>1. r.values = found.values BY <2>6, <2>9, <3>3 DEF Found
        <4>2. SubSeq(found.values, 1, Len(found.values)) = found.values
          BY <1>6
        <4>3. Backtrack(Len(found.values), r) = [r EXCEPT !.values = found.values]
          BY <3>3, <4>1, <4>2 DEF Backtrack
        <4> QED BY <1>6, <3>1, <4>3 DEF Results
      <3> QED BY <3>2, <3>3
    <2>12. ASSUME found.values = from.values
           PROVE  Found(n, a, Sub(c), Backtrack(Len(found.values), r))
      <3>1. a.values = found.values /\ a.rest = s BY <1>1, <1>5, <2>12
      <3>2. ASSUME NEW d \in Sub(c), NEW v \in Seq(Texts)
            PROVE  Reaches(n, a, d, v) <=> Reaches(c, b, d, v)
        <4>1. Reaches(n, a, d, v) <=>
                \E o \in States : TakesText(w, a, o) /\ Reaches(c, o, d, v)
          <5>1. n \in NodeIds /\ a \in States BY <1>1, <1>5
          <5>2. Reaches(n, a, d, v) <=> ReachesPast(c, a, d, v) BY <5>1, PastStatic
          <5> QED BY <1>3, <5>2 DEF ReachesPast
        <4>2. /\ Drop(s, Len(w)) \in Seq(STRING) /\ s = w \o Drop(s, Len(w))
              /\ \A o \in Seq(STRING) : s = w \o o => o = Drop(s, Len(w))
          BY <1>9, <2>1, PrefixIs, DropIs
        <4>3. b \in States /\ b.rest = Drop(s, Len(w)) /\ b.values = a.values
          BY <1>6, <2>5, <3>1, <4>2, Pieces!StateIs DEF States, Texts
        <4>4. ASSUME NEW o \in States, TakesText(w, a, o) PROVE o = b
          <5>1. s = w \o o.rest /\ o.values = a.values BY <3>1, <4>4 DEF TakesText
          <5>2. o.rest \in Seq(STRING) BY Pieces!StateIs DEF States
          <5>3. o.rest = b.rest BY <4>2, <4>3, <5>1, <5>2
          <5> QED BY <4>3, <5>1, <5>3, SameState
        <4>5. TakesText(w, a, b) BY <3>1, <4>2, <4>3 DEF TakesText
        <4> QED BY <4>1, <4>3, <4>4, <4>5
      <3> QED BY <2>6, <2>9, <3>1, <3>2, TriedFound
    <2> QED BY <2>10, <2>11, <2>12
  <1>10. CASE found.node # 0 BY <1>7, <1>10
  <1>11. CASE found.node = 0 /\ IsPrefix(w, s) BY <1>5, <1>9, <1>11
  <1>12. CASE found.node = 0 /\ ~IsPrefix(w, s)
    <2>1. ASSUME found.values = from.values PROVE Found(n, a, Sub(c), found)
      BY <1>1, <1>5, <1>8, <1>12, <2>1 DEF Found
    <2> QED BY <1>5, <1>8, <1>12, <2>1
  <1> QED BY <1>10, <1>11, <1>12

\* What is below the first i static children of n.
StaticSub(n, i) == UNION {Sub(nodes[n].static[j]) : j \in 1..i}

\* What is not empty has a first element.
LEMMA NotEmpty ==
  ASSUME NEW s \in Seq(STRING), s # <<>>
  PROVE  1 \in 1..Len(s)
  OBVIOUS

\* No two static children of a node are both on the way.
LEMMA OneStatic ==
  ASSUME Inv, NEW n \in NodeIds, NEW a \in States,
         NEW i \in 1..Len(nodes[n].static), NEW j \in 1..Len(nodes[n].static),
         NEW d \in Sub(nodes[n].static[i]), NEW e \in Sub(nodes[n].static[j]),
         NEW v \in Seq(Texts), NEW w \in Seq(Texts),
         Reaches(n, a, d, v), Reaches(n, a, e, w)
  PROVE  i = j
  <1>1. TypeOK /\ Edges(n) BY DEF Inv, TreeInv
  <1>2. \A k \in 1..Len(nodes[n].static) :
          /\ nodes[nodes[n].static[k]].prefix \in Seq(STRING)
          /\ nodes[nodes[n].static[k]].prefix # <<>>
    <2> TAKE k \in 1..Len(nodes[n].static)
    <2>1. nodes[n].static[k] \in NodeIds BY <1>1, NodeTypes
    <2> QED BY <1>1, <2>1, NodeTypes DEF Edges
  <1>3. PICK p \in Seq(STRING), q \in Seq(STRING) :
          /\ p = nodes[nodes[n].static[i]].prefix /\ q = nodes[nodes[n].static[j]].prefix
          /\ p # <<>> /\ q # <<>>
    BY <1>2
  <1>8. PICK c, h : c = nodes[n].static[i] /\ h = nodes[n].static[j] OBVIOUS
  <1>9. PICK b \in States : TakesText(nodes[nodes[n].static[i]].prefix, a, b)
    BY StaticTaken
  <1>10. PICK o \in States : TakesText(nodes[nodes[n].static[j]].prefix, a, o)
    BY StaticTaken
  <1>4. PICK r \in Seq(STRING) : a.rest = p \o r
    BY <1>3, <1>8, <1>9, Pieces!StateIs DEF States, TakesText
  <1>5. PICK s \in Seq(STRING) : a.rest = q \o s
    BY <1>3, <1>8, <1>10, Pieces!StateIs DEF States, TakesText
  <1>6. (p \o r)[1] = p[1] /\ (q \o s)[1] = q[1]
    <2>1. 1 \in 1..Len(p) BY <1>3, NotEmpty
    <2>2. 1 \in 1..Len(q) BY <1>3, NotEmpty
    <2> QED BY <2>1, <2>2, Pieces!JoinedAt
  <1>7. p[1] = q[1] BY <1>4, <1>5, <1>6
  <1> QED BY <1>1, <1>3, <1>7 DEF Edges

\* What the static children give.
LEMMA StaticFound ==
  ASSUME Inv, NEW t \in Seq(STRING), NEW from \in Froms, NEW search,
         FindsFurther(search, t, from), NEW n, n = from.node
  PROVE  Found(n, At(t, from), StaticSub(n, Len(nodes[n].static)),
               StaticTried(search, t, from))
  <1>1. TypeOK /\ n \in NodeIds /\ At(t, from) \in States BY LeftIs DEF Inv
  <1>2. PICK l \in Nat, a \in States : l = Len(nodes[n].static) /\ a = At(t, from)
    BY <1>1, NodeTypes
  <1>3. /\ from.values \in Seq(Texts) /\ a.values = from.values
        /\ [node |-> 0, values |-> from.values] \in Results
        /\ [node |-> 0, values |-> from.values].node = 0
        /\ [node |-> 0, values |-> from.values].values = from.values
    BY <1>2, LeftIs, ResultIs
  <1>4. nodes[n].static \in Seq(Nat) BY <1>1, NodeTypes
  <1>5. \A found \in Results, i \in 1..l :
          /\ Try(search, t, from, found, nodes[n].static[i]) \in Results
          /\ found.node # 0 => Try(search, t, from, found, nodes[n].static[i]) = found
          /\ found.node = 0 /\ found.values = from.values =>
               Found(n, a, Sub(nodes[n].static[i]),
                     Try(search, t, from, found, nodes[n].static[i]))
    BY <1>2, StaticTry
  <1>6. PICK g \in [0..l -> Results] :
          /\ g[0] = [node |-> 0, values |-> from.values]
          /\ \A i \in 1..l : g[i] = Try(search, t, from, g[i - 1], nodes[n].static[i])
          /\ StaticTried(search, t, from) = g[l]
    <2>1. \A found \in Results : \A i \in 1..l :
            Try(search, t, from, found, nodes[n].static[i]) \in Results
      BY <1>5
    <2>2. TriesGive(search, t, from) BY <1>2, <1>3, <1>4, <2>1 DEF TriesGive
    <2>3. PICK g : Tries(search, t, from, g) BY <2>2, StaticIs
    <2> QED BY <1>2, <2>3 DEF Tries
  <1> DEFINE T == {i \in 0..l : Found(n, a, StaticSub(n, i), g[i])}
  <1>7. 0 \in T
    <2>1. StaticSub(n, 0) = {} /\ 0 \in 0..l BY DEF StaticSub
    <2>2. Found(n, a, {}, g[0]) BY <1>3, <1>6 DEF Found
    <2> QED BY <2>1, <2>2
  <1>8. ASSUME NEW i \in 1..l, i - 1 \in T PROVE i \in T
    <2>1. i \in 0..l /\ i - 1 \in 0..l OBVIOUS
    <2>2. PICK r \in Results, s \in Results : r = g[i - 1] /\ s = g[i] BY <1>6, <2>1
    <2>3. PICK c : c = nodes[n].static[i] OBVIOUS
    <2>4. s = Try(search, t, from, r, c) BY <1>6, <2>2, <2>3
    <2>5. Found(n, a, StaticSub(n, i - 1), r) BY <1>8, <2>2
    <2>6. r.node = 0 => r.values = from.values BY <1>3, <2>5 DEF Found
    <2>7. r.node = 0 => Found(n, a, Sub(c), s) BY <1>5, <2>3, <2>4, <2>6
    <2>8. r.node # 0 => s = r BY <1>5, <2>3, <2>4
    <2>9. \A d \in StaticSub(n, i - 1), e \in Sub(c), v \in Seq(Texts), w \in Seq(Texts) :
            Reaches(n, a, d, v) /\ Reaches(n, a, e, w) =>
              d = e \/ Before(where[d].shape, where[e].shape)
      <3> SUFFICES ASSUME NEW d \in StaticSub(n, i - 1), NEW e \in Sub(c),
                          NEW v \in Seq(Texts), NEW w \in Seq(Texts),
                          Reaches(n, a, d, v), Reaches(n, a, e, w)
                   PROVE  FALSE
        OBVIOUS
      <3>1. PICK j \in 1..(i - 1) : d \in Sub(nodes[n].static[j]) BY DEF StaticSub
      <3>2. j \in 1..l /\ j # i BY <3>1
      <3> QED BY <1>1, <1>2, <2>3, <3>1, <3>2, OneStatic
    <2>10. Found(n, a, StaticSub(n, i - 1) \cup Sub(c), IF r.node # 0 THEN r ELSE s)
      BY <2>5, <2>7, <2>9, OrElse
    <2>11. StaticSub(n, i - 1) \cup Sub(c) = StaticSub(n, i)
      <3>1. \A j : j \in 1..i <=> j \in 1..(i - 1) \/ j = i OBVIOUS
      <3> QED BY <2>3, <3>1 DEF StaticSub
    <2>12. s = IF r.node # 0 THEN r ELSE s BY <2>8
    <2> QED BY <2>1, <2>2, <2>10, <2>11, <2>12
  <1> HIDE DEF T
  <1>9. \A i \in 0..l : i \in T BY <1>7, <1>8, UpTo
  <1>10. l \in 0..l OBVIOUS
  <1> QED BY <1>2, <1>6, <1>9, <1>10 DEF T

\* The nodes below n that its parameter leads to, and its catch-all.
ParameterSub(n) == IF nodes[n].parameter = 0 THEN {} ELSE Sub(nodes[n].parameter)

CatchAllSub(n) == IF nodes[n].catch_all = 0 THEN {} ELSE {nodes[n].catch_all}

\* What the parameter gives, if the static children give nothing.
LEMMA ParameterFound ==
  ASSUME Inv, NEW t \in Seq(STRING), NEW from \in Froms, NEW search,
         FindsFurther(search, t, from), NEW n, n = from.node,
         NEW static \in Results, static.node = 0, static.values = from.values
  PROVE  Found(n, At(t, from), ParameterSub(n), ParameterTried(search, t, from, static))
  <1>1. /\ TypeOK /\ n \in NodeIds
        /\ At(t, from) \in States /\ At(t, from).rest = Left(t, from)
        /\ At(t, from).values = from.values /\ from.values \in Seq(Texts)
    BY LeftIs DEF Inv
  <1>2. PICK s \in Seq(STRING), a \in States, w \in Seq(Texts) :
          s = Left(t, from) /\ a = At(t, from) /\ w = from.values
    BY <1>1, LeftIs
  <1>3. a.rest = s /\ a.values = w /\ static.values = w BY <1>1, <1>2
  <1>4. PICK e : e = Span(s, {"/"}) OBVIOUS
  <1>5. PICK q, r, b : /\ q = SubSeq(s, 1, e) /\ r = Drop(s, e)
                       /\ b = [rest |-> r, values |-> Append(w, q)]
    OBVIOUS
  <1>6. /\ e \in 0..Len(s)
        /\ e # 0 => q \in Seq(STRING) /\ b \in States
        /\ \A o \in States : Pieces!Takes(STRING, ":", a, o) <=> e # 0 /\ o = b
    <2>1. e = Span(a.rest, {"/"}) BY <1>3, <1>4
    <2>2. /\ e \in 0..Len(a.rest)
          /\ e # 0 => /\ SubSeq(a.rest, 1, e) \in Seq(STRING)
                      /\ [rest |-> Drop(a.rest, e),
                          values |-> Append(a.values, SubSeq(a.rest, 1, e))] \in States
      BY <2>1, ParameterTakes
    <2>3. \A o \in States :
            Pieces!Takes(STRING, ":", a, o) <=>
                /\ e # 0
                /\ o = [rest |-> Drop(a.rest, e),
                        values |-> Append(a.values, SubSeq(a.rest, 1, e))]
      BY <2>1, ParameterTakes
    <2>4. /\ q = SubSeq(a.rest, 1, e)
          /\ b = [rest |-> Drop(a.rest, e), values |-> Append(a.values, SubSeq(a.rest, 1, e))]
      BY <1>3, <1>5
    <2>5. \A o \in States : Pieces!Takes(STRING, ":", a, o) <=> e # 0 /\ o = b
      BY <2>3, <2>4
    <2> QED BY <1>3, <2>2, <2>4, <2>5
  <1>7. CASE nodes[n].parameter = 0
    <2>1. ParameterTried(search, t, from, static) = static BY <1>7 DEF ParameterTried
    <2> QED BY <1>2, <1>3, <1>7, <2>1 DEF Found, ParameterSub
  <1>8. CASE nodes[n].parameter # 0
    <2>1. PICK c : c = nodes[n].parameter /\ c # 0 BY <1>8
    <2>2. c \in NodeIds /\ ParameterSub(n) = Sub(c) BY <1>1, <2>1, NodeTypes DEF ParameterSub
    <2>3. ASSUME NEW d \in Sub(c), NEW v \in Seq(Texts)
          PROVE  Reaches(n, a, d, v) <=> e # 0 /\ Reaches(c, b, d, v)
      <3>1. Reaches(n, a, d, v) <=>
              \E o \in States : Pieces!Takes(STRING, ":", a, o) /\ Reaches(c, o, d, v)
        BY <1>1, <2>1, ParameterReached
      <3> QED BY <1>6, <3>1
    <2>4. CASE e = 0
      <3>1. ParameterTried(search, t, from, static) = static
        BY <1>2, <1>4, <2>4 DEF ParameterTried
      <3>2. \A d \in Sub(c), v \in Seq(Texts) : ~Reaches(n, a, d, v) BY <2>3, <2>4
      <3> QED BY <1>2, <1>3, <2>2, <3>1, <3>2 DEF Found
    <2>5. CASE e # 0
      <3>1. q \in Texts /\ Append(w, q) \in Seq(Texts)
        BY <1>6, <2>5, AppendProperties DEF Texts
      <3>2. PICK f : f = [node |-> c, position |-> from.position + e,
                          values |-> Append(static.values, q)]
        OBVIOUS
      <3>3. f = [node |-> c, position |-> from.position + e, values |-> Append(w, q)]
        BY <1>3, <3>2
      <3>4. /\ f \in Froms /\ f.node = c /\ Left(t, f) = Drop(s, e)
            /\ At(t, f) = [rest |-> Drop(s, e), values |-> Append(w, q)]
        <4>1. s = Left(t, from) /\ e \in 0..Len(s) BY <1>2, <1>6
        <4>2. PICK v \in Seq(Texts) : v = Append(w, q) BY <3>1
        <4>3. f = [node |-> c, position |-> from.position + e, values |-> v]
          BY <3>3, <4>2
        <4>4. /\ f \in Froms /\ f.node = c /\ Left(t, f) = Drop(s, e)
              /\ At(t, f) = [rest |-> Drop(s, e), values |-> v]
          BY <2>2, <4>1, <4>3, LeftFurther
        <4> QED BY <4>2, <4>4
      <3>5. At(t, f) = b BY <1>5, <3>4
      <3>6. Len(Left(t, f)) < Len(Left(t, from))
        <4>1. Len(Drop(s, e)) = Len(s) - e BY <1>6, DropIs
        <4>2. Len(s) \in Nat BY <1>2
        <4> QED BY <1>2, <1>6, <2>5, <3>4, <4>1, <4>2
      <3>7. PICK z : z = search[f] OBVIOUS
      <3>8. Found(c, b, Sub(c), z) BY <3>4, <3>5, <3>6, <3>7 DEF FindsFurther
      <3>9. ParameterTried(search, t, from, static) = Backtrack(Len(static.values), z)
        <4>1. ParameterTried(search, t, from, static) =
                Backtrack(Len(static.values),
                  search[[node |-> nodes[from.node].parameter, position |-> from.position + e,
                          values |-> Append(static.values, SubSeq(Left(t, from), 1, e))]])
          BY <1>2, <1>4, <2>1, <2>5 DEF ParameterTried
        <4> QED BY <1>2, <1>5, <2>1, <3>2, <3>7, <4>1
      <3>10. b.values = Append(a.values, q) BY <1>3, <1>5
      <3>11. Len(static.values) = Len(a.values) BY <1>3
      <3>12. \A d \in Sub(c), v \in Seq(Texts) : Reaches(n, a, d, v) <=> Reaches(c, b, d, v)
        BY <2>3, <2>5
      <3>13. b.values = a.values \/ \E p \in Texts : b.values = Append(a.values, p)
        BY <3>1, <3>10
      <3>14. Found(n, a, Sub(c), Backtrack(Len(a.values), z))
        BY <3>8, <3>12, <3>13, TriedFound
      <3> QED BY <1>2, <2>2, <3>9, <3>11, <3>14
    <2> QED BY <2>4, <2>5
  <1> QED BY <1>7, <1>8

\* What the catch-all gives, if the parameter gives nothing.
LEMMA CatchAllFound ==
  ASSUME Inv, NEW t \in Seq(STRING), NEW from \in Froms, NEW n, n = from.node,
         NEW parameter \in Results, parameter.node = 0, parameter.values = from.values
  PROVE  Found(n, At(t, from), CatchAllSub(n), CatchAllTried(t, from, parameter))
  <1>1. /\ TypeOK /\ n \in NodeIds
        /\ At(t, from) \in States /\ At(t, from).rest = Left(t, from)
        /\ At(t, from).values = from.values /\ from.values \in Seq(Texts)
    BY LeftIs DEF Inv
  <1>2. PICK s \in Seq(STRING), a \in States, w \in Seq(Texts) :
          s = Left(t, from) /\ a = At(t, from) /\ w = from.values
    BY <1>1, LeftIs
  <1>3. a.rest = s /\ a.values = w /\ parameter.values = w BY <1>1, <1>2
  <1>4. CASE nodes[n].catch_all = 0
    <2>1. CatchAllTried(t, from, parameter) = parameter BY <1>4 DEF CatchAllTried
    <2> QED BY <1>2, <1>3, <1>4, <2>1 DEF Found, CatchAllSub
  <1>5. CASE nodes[n].catch_all # 0
    <2>1. PICK c : c = nodes[n].catch_all /\ c # 0 BY <1>5
    <2>2. c \in NodeIds /\ c \in Nat /\ CatchAllSub(n) = {c}
      BY <1>1, <2>1, NodeTypes DEF CatchAllSub
    <2>3. ASSUME NEW v \in Seq(Texts)
          PROVE  Reaches(n, a, c, v) <=>
                   nodes[c].route # {} /\ s \notin {<<>>, <<"/">>} /\ v = Append(w, s)
      <3>1. n \in NodeIds /\ a \in States BY <1>1, <1>2
      <3>2. Reaches(n, a, c, v) <=>
              /\ nodes[c].route # {} /\ a.rest \notin {<<>>, <<"/">>}
              /\ v = Append(a.values, a.rest)
        BY <2>1, <3>1, CatchAllReached
      <3> QED BY <1>3, <3>2
    <2>4. CASE nodes[c].route = {} \/ s \in {<<>>, <<"/">>}
      <3>1. CatchAllTried(t, from, parameter) = parameter
        BY <1>2, <2>1, <2>4 DEF CatchAllTried
      <3>2. \A d \in {c}, v \in Seq(Texts) : ~Reaches(n, a, d, v) BY <2>3, <2>4
      <3> QED BY <1>2, <1>3, <2>2, <3>1, <3>2 DEF Found
    <2>5. CASE nodes[c].route # {} /\ s \notin {<<>>, <<"/">>}
      <3>1. PICK z : z = [node |-> c, values |-> Append(w, s)] OBVIOUS
      <3>2. CatchAllTried(t, from, parameter) = z
        BY <1>2, <1>3, <2>1, <2>5, <3>1 DEF CatchAllTried
      <3>3. Append(w, s) \in Seq(Texts) BY <1>2, AppendProperties DEF Texts
      <3>4. z \in Results /\ z.node = c /\ z.values = Append(w, s)
        BY <2>2, <3>1, <3>3, ResultIs
      <3>5. Reaches(n, a, c, z.values) BY <2>3, <2>5, <3>3, <3>4
      <3> QED BY <1>2, <2>1, <2>2, <3>2, <3>4, <3>5 DEF Found
    <2> QED BY <2>4, <2>5
  <1> QED BY <1>4, <1>5

\* The three kinds of children, and the order they go in.
LEMMA ChildrenOrder ==
  ASSUME Inv, NEW n \in NodeIds
  PROVE  /\ Sub(n) = {n} \cup ((StaticSub(n, Len(nodes[n].static)) \cup ParameterSub(n))
                                 \cup CatchAllSub(n))
         /\ \A d \in StaticSub(n, Len(nodes[n].static)) :
              \A e \in ParameterSub(n) \cup CatchAllSub(n) :
                Before(where[d].shape, where[e].shape)
         /\ \A d \in ParameterSub(n), e \in CatchAllSub(n) :
              Before(where[d].shape, where[e].shape)
  <1>1. TypeOK BY DEF Inv
  <1>2. PICK l \in Nat : l = Len(nodes[n].static) BY <1>1, NodeTypes
  <1>3. \A c : c \in Children(nodes[n]) <=>
          \/ \E i \in 1..l : c = nodes[n].static[i]
          \/ c = nodes[n].parameter /\ c # 0
          \/ c = nodes[n].catch_all /\ c # 0
    <2>1. nodes[n].static \in Seq(Nat) BY <1>1, NodeTypes
    <2>2. DOMAIN nodes[n].static = 1..l BY <1>2, <2>1
    <2> QED BY <2>2 DEF Children, ToSet
  <1>4. CatchAllSub(n) = IF nodes[n].catch_all = 0 THEN {} ELSE Sub(nodes[n].catch_all)
    <2>1. CASE nodes[n].catch_all = 0 BY <2>1 DEF CatchAllSub
    <2>2. CASE nodes[n].catch_all # 0
      <3>1. \A a \in States, v \in Seq(Texts) : Sub(nodes[n].catch_all) = {nodes[n].catch_all}
        BY <2>2, CatchAllReached
      <3>2. \E a \in States, v \in Seq(Texts) : TRUE
        <4>1. <<>> \in Seq(STRING) /\ <<>> \in Seq(Seq(STRING)) /\ <<>> \in Seq(Texts) OBVIOUS
        <4>2. [rest |-> <<>>, values |-> <<>>] \in States
          BY <4>1, Pieces!StateIs DEF States
        <4> QED BY <4>1, <4>2
      <3> QED BY <2>2, <3>1, <3>2 DEF CatchAllSub
    <2> QED BY <2>1, <2>2
  <1>5. Sub(n) = {n} \cup ((StaticSub(n, l) \cup ParameterSub(n)) \cup CatchAllSub(n))
    <2>1. /\ n \in Sub(n)
          /\ \A c \in Children(nodes[n]) : Sub(c) \subseteq Sub(n)
          /\ \A d \in Sub(n) : d # n => \E c \in Children(nodes[n]) : d \in Sub(c)
      BY SubParts
    <2>2. \A d : d \in StaticSub(n, l) <=> \E i \in 1..l : d \in Sub(nodes[n].static[i])
      BY DEF StaticSub
    <2>3. \A d : d \in ParameterSub(n) \cup CatchAllSub(n) <=>
            \/ nodes[n].parameter # 0 /\ d \in Sub(nodes[n].parameter)
            \/ nodes[n].catch_all # 0 /\ d \in Sub(nodes[n].catch_all)
      BY <1>4 DEF ParameterSub
    <2>4. \A d : (\E c \in Children(nodes[n]) : d \in Sub(c)) <=>
                 d \in StaticSub(n, l) \/ d \in ParameterSub(n) \cup CatchAllSub(n)
      BY <1>3, <2>2, <2>3
    <2> QED BY <2>1, <2>4
  <1>6. /\ \A i \in 1..l : SymbolRank(Towards(where, n, nodes[n].static[i])) = 0
        /\ nodes[n].parameter # 0 => SymbolRank(Towards(where, n, nodes[n].parameter)) = 1
        /\ nodes[n].catch_all # 0 => SymbolRank(Towards(where, n, nodes[n].catch_all)) = 2
    BY <1>2, ChildSymbols DEF SymbolRank, Markers
  <1>7. ASSUME NEW d \in StaticSub(n, l), NEW e \in ParameterSub(n) \cup CatchAllSub(n)
        PROVE  Before(where[d].shape, where[e].shape)
    <2>1. PICK i \in 1..l : d \in Sub(nodes[n].static[i]) BY DEF StaticSub
    <2>2. PICK c : /\ c \in Children(nodes[n]) /\ e \in Sub(c)
                   /\ SymbolRank(Towards(where, n, c)) \in 1..2
      BY <1>3, <1>4, <1>6 DEF ParameterSub
    <2>3. PICK b : b = nodes[n].static[i] OBVIOUS
    <2>4. b \in Children(nodes[n]) BY <1>3, <2>3
    <2>5. SymbolRank(Towards(where, n, b)) < SymbolRank(Towards(where, n, c))
      BY <1>6, <2>2, <2>3
    <2> QED BY <2>1, <2>2, <2>3, <2>4, <2>5, ChildBefore
  <1>8. ASSUME NEW d \in ParameterSub(n), NEW e \in CatchAllSub(n)
        PROVE  Before(where[d].shape, where[e].shape)
    <2>1. PICK b : b = nodes[n].parameter /\ b # 0 /\ d \in Sub(b) BY DEF ParameterSub
    <2>2. PICK c : c = nodes[n].catch_all /\ c # 0 /\ e \in Sub(c) BY <1>4
    <2>3. SymbolRank(Towards(where, n, b)) < SymbolRank(Towards(where, n, c))
      BY <1>6, <2>1, <2>2
    <2> QED BY <1>3, <2>1, <2>2, <2>3, ChildBefore
  <1> QED BY <1>2, <1>5, <1>7, <1>8

\* One round finds what it should if what it calls does.
LEMMA RoundFound ==
  ASSUME Inv, NEW t \in Seq(STRING), NEW from \in Froms, NEW search,
         FindsFurther(search, t, from), NEW n, n = from.node
  PROVE  Found(n, At(t, from), Sub(n), Round(search, t, from))
  <1>1. /\ TypeOK /\ n \in NodeIds /\ n \in Nat /\ n # 0
        /\ At(t, from) \in States /\ At(t, from).rest = Left(t, from)
        /\ At(t, from).values = from.values /\ from.values \in Seq(Texts)
    <2>1. TypeOK /\ n \in NodeIds BY LeftIs DEF Inv
    <2>2. NodeIds = 1..Len(nodes) /\ Len(nodes) \in Nat BY <2>1, NodeTypes
    <2>3. n \in Nat /\ n # 0 BY <2>1, <2>2
    <2> QED BY <2>1, <2>3, LeftIs
  <1>2. PICK a \in States, w \in Seq(Texts) : a = At(t, from) /\ w = from.values
    BY <1>1
  <1>3. a.rest = Left(t, from) /\ a.values = w BY <1>1, <1>2
  <1>4. \A v \in Seq(Texts) :
          Reaches(n, a, n, v) <=> nodes[n].route # {} /\ a.rest = <<>> /\ v = a.values
    BY <1>1, SelfReached
  <1>5. CASE Left(t, from) = <<>> /\ nodes[n].route # {}
    <2>1. PICK z : z = [node |-> n, values |-> w] OBVIOUS
    <2>2. Round(search, t, from) = z BY <1>2, <1>5, <2>1 DEF Round
    <2>3. z \in Results /\ z.node = n /\ z.values = w BY <1>1, <2>1, ResultIs
    <2>4. Reaches(n, a, n, w) BY <1>3, <1>4, <1>5
    <2>5. \A d \in Sub(n), v \in Seq(Texts) : d # n => ~Reaches(n, a, d, v)
      <3> SUFFICES ASSUME NEW d \in Sub(n), NEW v \in Seq(Texts), d # n, Reaches(n, a, d, v)
                   PROVE  FALSE
        OBVIOUS
      <3>1. a.rest # <<>> BY <1>1, FirstSymbol
      <3> QED BY <1>3, <1>5, <3>1
    <2>6. n \in Sub(n) BY <1>1, SubParts
    <2> QED BY <1>1, <1>2, <2>2, <2>3, <2>4, <2>5, <2>6 DEF Found
  <1>6. CASE ~(Left(t, from) = <<>> /\ nodes[n].route # {})
    <2>1. PICK S, P, C : /\ S = StaticSub(n, Len(nodes[n].static))
                         /\ P = ParameterSub(n) /\ C = CatchAllSub(n)
      OBVIOUS
    <2>2. PICK static : static = StaticTried(search, t, from) OBVIOUS
    <2>3. PICK parameter : parameter = ParameterTried(search, t, from, static) OBVIOUS
    <2>4. PICK all : all = CatchAllTried(t, from, parameter) OBVIOUS
    <2>5. Round(search, t, from) = all BY <1>6, <2>2, <2>3, <2>4 DEF Round
    <2>6. Found(n, a, S, static) BY <1>2, <2>1, <2>2, StaticFound
    <2>7. Found(n, a, S \cup P, parameter)
      <3>1. static.node = 0 => Found(n, a, P, parameter)
        <4> SUFFICES ASSUME static.node = 0 PROVE Found(n, a, P, parameter) OBVIOUS
        <4>1. static \in Results /\ static.values = from.values
          BY <1>2, <1>3, <2>6 DEF Found
        <4> QED BY <1>2, <2>1, <2>3, <4>1, ParameterFound
      <3>2. static.node # 0 => parameter = static BY <2>3 DEF ParameterTried
      <3>3. \A d \in S, e \in P : Before(where[d].shape, where[e].shape)
        BY <1>1, <2>1, ChildrenOrder
      <3>4. Found(n, a, S \cup P, IF static.node # 0 THEN static ELSE parameter)
        BY <2>6, <3>1, <3>3, OrElse
      <3>5. parameter = IF static.node # 0 THEN static ELSE parameter BY <3>2
      <3> QED BY <3>4, <3>5
    <2>8. Found(n, a, (S \cup P) \cup C, all)
      <3>1. parameter.node = 0 => Found(n, a, C, all)
        <4> SUFFICES ASSUME parameter.node = 0 PROVE Found(n, a, C, all) OBVIOUS
        <4>1. parameter \in Results /\ parameter.values = from.values
          BY <1>2, <1>3, <2>7 DEF Found
        <4> QED BY <1>2, <2>1, <2>4, <4>1, CatchAllFound
      <3>2. parameter.node # 0 => all = parameter BY <2>4 DEF CatchAllTried
      <3>3. \A d \in S \cup P, e \in C : Before(where[d].shape, where[e].shape)
        BY <1>1, <2>1, ChildrenOrder
      <3>4. Found(n, a, (S \cup P) \cup C, IF parameter.node # 0 THEN parameter ELSE all)
        BY <2>7, <3>1, <3>3, OrElse
      <3>5. all = IF parameter.node # 0 THEN parameter ELSE all BY <3>2
      <3> QED BY <3>4, <3>5
    <2>9. Sub(n) = {n} \cup ((S \cup P) \cup C) BY <1>1, <2>1, ChildrenOrder
    <2>10. \A v \in Seq(Texts) : ~Reaches(n, a, n, v) BY <1>3, <1>4, <1>6
    <2>11. Found(n, a, Sub(n), all) BY <2>8, <2>9, <2>10 DEF Found
    <2> QED BY <1>2, <2>5, <2>11
  <1> QED BY <1>5, <1>6

\* What the search has to find from a place in the tree and the target.
Finds(t, from, r) == Found(from.node, At(t, from), Sub(from.node), r)

\* What is left is at most the target.
LEMMA LeftLength ==
  ASSUME NEW t \in Seq(STRING), NEW from \in Froms
  PROVE  Len(Left(t, from)) \in 0..Len(t)
  <1>1. PICK p \in Nat : p = from.position BY LeftIs
  <1>2. Len(Left(t, from)) = IF p + 1 <= Len(t) THEN Len(t) - p ELSE 0 BY <1>1, LeftIs
  <1>3. Len(t) \in Nat OBVIOUS
  <1> QED BY <1>2, <1>3

\* There is something to be found everywhere, and so the search exists.
LEMMA SearchExists ==
  ASSUME Inv, NEW t \in Seq(STRING)
  PROVE  \E search : Searches(search, t)
  <1>1. PICK g : g = [from \in Froms |-> CHOOSE r : Finds(t, from, r)] OBVIOUS
  <1>2. PICK n \in Nat : n = Len(t) + 1 OBVIOUS
  <1> DEFINE T == {j \in 0..n : \A f \in Froms :
                     Len(Left(t, f)) < j => Finds(t, f, g[f])}
  <1>3. 0 \in T
    <2>1. \A f \in Froms : ~(Len(Left(t, f)) < 0) BY LeftLength
    <2> QED BY <2>1
  <1>4. ASSUME NEW j \in 1..n, j - 1 \in T PROVE j \in T
    <2>1. ASSUME NEW f \in Froms, Len(Left(t, f)) < j
          PROVE  Finds(t, f, g[f])
      <3>1. FindsFurther(g, t, f)
        <4> SUFFICES ASSUME NEW e \in Froms, Len(Left(t, e)) < Len(Left(t, f))
                     PROVE  Found(e.node, At(t, e), Sub(e.node), g[e])
          BY DEF FindsFurther
        <4>1. Len(Left(t, e)) < j - 1 BY <2>1, LeftLength
        <4> QED BY <1>4, <4>1 DEF Finds
      <3>2. Finds(t, f, Round(g, t, f)) BY <3>1, RoundFound DEF Finds
      <3>3. g[f] = CHOOSE r : Finds(t, f, r) BY <1>1
      <3> QED BY <3>2, <3>3
    <2>2. j \in 0..n OBVIOUS
    <2> QED BY <2>1, <2>2
  <1> HIDE DEF T
  <1>5. \A j \in 0..n : j \in T BY <1>3, <1>4, UpTo
  <1>6. n \in 0..n OBVIOUS
  <1>7. \A f \in Froms : Finds(t, f, g[f])
    <2>1. \A f \in Froms : Len(Left(t, f)) < n BY <1>2, LeftLength
    <2> QED BY <1>5, <1>6, <2>1 DEF T
  <1>8. ASSUME NEW f \in Froms PROVE g[f] = Round(g, t, f)
    <2>1. FindsFurther(g, t, f) BY <1>7 DEF FindsFurther, Finds
    <2>2. Finds(t, f, Round(g, t, f)) BY <2>1, RoundFound DEF Finds
    <2>3. Finds(t, f, g[f]) BY <1>7
    <2>4. f.node \in NodeIds /\ At(t, f) \in States BY LeftIs
    <2> QED BY <2>2, <2>3, <2>4, FoundOne DEF Finds
  <1>9. DOMAIN g = Froms /\ g = [from \in DOMAIN g |-> g[from]] BY <1>1
  <1>10. g = [from \in Froms |-> Round(g, t, from)] BY <1>8, <1>9
  <1> QED BY <1>10 DEF Searches

\* Whatever solves the recursion finds what is to be found.
LEMMA SolutionFinds ==
  ASSUME Inv, NEW t \in Seq(STRING), NEW g, Searches(g, t)
  PROVE  \A f \in Froms : Finds(t, f, g[f])
  <1>2. PICK n \in Nat : n = Len(t) + 1 OBVIOUS
  <1> DEFINE T == {j \in 0..n : \A f \in Froms :
                     Len(Left(t, f)) < j => Finds(t, f, g[f])}
  <1>3. 0 \in T
    <2>1. \A f \in Froms : ~(Len(Left(t, f)) < 0) BY LeftLength
    <2> QED BY <2>1
  <1>4. ASSUME NEW j \in 1..n, j - 1 \in T PROVE j \in T
    <2>1. ASSUME NEW f \in Froms, Len(Left(t, f)) < j
          PROVE  Finds(t, f, g[f])
      <3>1. FindsFurther(g, t, f)
        <4> SUFFICES ASSUME NEW e \in Froms, Len(Left(t, e)) < Len(Left(t, f))
                     PROVE  Found(e.node, At(t, e), Sub(e.node), g[e])
          BY DEF FindsFurther
        <4>1. Len(Left(t, e)) < j - 1 BY <2>1, LeftLength
        <4> QED BY <1>4, <4>1 DEF Finds
      <3>2. Finds(t, f, Round(g, t, f)) BY <3>1, RoundFound DEF Finds
      <3>3. g[f] = Round(g, t, f) BY DEF Searches
      <3> QED BY <3>2, <3>3
    <2>2. j \in 0..n OBVIOUS
    <2> QED BY <2>1, <2>2
  <1> HIDE DEF T
  <1>5. \A j \in 0..n : j \in T BY <1>3, <1>4, UpTo
  <1>6. n \in 0..n OBVIOUS
  <1>7. \A f \in Froms : Len(Left(t, f)) < n BY <1>2, LeftLength
  <1> QED BY <1>5, <1>6, <1>7 DEF T

\* What match finds among the nodes below a root.
LEMMA SearchFound ==
  ASSUME Inv, NEW root \in NodeIds, NEW t \in Seq(STRING)
  PROVE  Found(root, [rest |-> t, values |-> <<>>], Sub(root), Search(root, t))
  <1>1. PICK g : /\ Searches(g, t)
                 /\ Search(root, t) = g[[node |-> root, position |-> 0, values |-> <<>>]]
    BY SearchExists, SearchIs
  <1>2. PICK f : f = [node |-> root, position |-> 0, values |-> <<>>] OBVIOUS
  <1>3. f \in Froms /\ f.node = root /\ f.position = 0 /\ f.values = <<>>
    BY <1>2 DEF Froms, NodeIds
  <1>4. Left(t, f) = t
    <2>1. SubSeq(t, 1, Len(t)) = t OBVIOUS
    <2> QED BY <1>3, <2>1 DEF Left, Drop
  <1>5. At(t, f) = [rest |-> t, values |-> <<>>] BY <1>3, <1>4 DEF At
  <1>6. Finds(t, f, g[f]) BY <1>1, <1>3, SolutionFinds
  <1> QED BY <1>1, <1>2, <1>3, <1>5, <1>6 DEF Finds

-----------------------------------------------------------------------------
(* What match returns.                                                     *)

\* Every route has the shape of a pattern that was registered, and there is
\* one of a method and shape.
RoutesSound ==
  /\ \A r \in Routes : \E p \in Patterns :
       Registry!IsPattern(p) /\ r.shape = Registry!Shape(p)
  /\ \A r, o \in Routes : r.method = o.method /\ r.shape = o.shape => r = o

\* What the set of routes does keeps that.
LEMMA RegistersSound == RoutesSound /\ [Registry!Next]_Registry!vars => RoutesSound'
  <1> SUFFICES ASSUME RoutesSound, [Registry!Next]_Registry!vars PROVE RoutesSound'
    OBVIOUS
  <1>1. CASE UNCHANGED Routes BY <1>1 DEF RoutesSound
  <1>2. ASSUME NEW m, NEW p \in Patterns, NEW h, Registry!Add(m, p, h)
        PROVE  RoutesSound'
    <2>1. PICK x : x = [method |-> m, shape |-> Registry!Shape(p), handler |-> h,
                        names |-> Registry!Names(p)]
      OBVIOUS
    <2>2. /\ Registry!IsPattern(p) /\ Routes' = Routes \cup {x}
          /\ ~ \E r \in Routes : r.method = m /\ r.shape = Registry!Shape(p)
      BY <1>2, <2>1 DEF Registry!Add
    <2>3. x.method = m /\ x.shape = Registry!Shape(p) BY <2>1
    <2> QED BY <2>2, <2>3 DEF RoutesSound
  <1>3. CASE UNCHANGED Registry!vars BY <1>1, <1>3 DEF Registry!vars
  <1>4. CASE Registry!Next
    BY <1>1, <1>2, <1>4 DEF Registry!Next, Registry!Refuse, Registry!Clash
  <1> QED BY <1>3, <1>4

\* So it holds at every step of every sequence of add_route calls.
LEMMA RoutesSoundHolds == Spec => []RoutesSound
  <1>1. Init => ReadUpTo BY DEF Init, ReadUpTo
  <1>2. Init => RoutesSound
    <2>1. nodes = <<>> => Routes = {}
      <3>1. nodes = <<>> => NodeIds = {} BY DEF NodeIds
      <3> QED BY <3>1 DEF Routes
    <2> QED BY <2>1 DEF Init, RoutesSound
  <1> QED BY <1>1, <1>2, NextReads, NextRegisters, RegistersSound, InvHolds, PTL DEF Spec

\* Below the root of a method are the nodes of that method.
LEMMA RootSub ==
  ASSUME Inv, NEW m \in Methods, NEW root, root = roots[m], root # 0
  PROVE  /\ root \in NodeIds /\ where[root].shape = <<>>
         /\ \A d \in NodeIds : d \in Sub(root) <=> where[d].method = m
  <1>1. TypeOK /\ TreeInv /\ RootInv BY DEF Inv
  <1>2. root \in NodeIds BY <1>1 DEF TypeOK
  <1>3. where[root] = [method |-> m, shape |-> <<>>] BY <1>1 DEF RootInv
  <1>4. where[root].method = m /\ where[root].shape = <<>> BY <1>3
  <1>5. ASSUME NEW d \in NodeIds, where[d].method = m PROVE d \in Sub(root)
    <2>1. where \in Seq(Places) /\ DOMAIN where = NodeIds BY <1>1, NodeTypes
    <2>2. where[d].shape \in Seq(STRING) /\ where[d] \in Places /\ where[root] \in Places
      BY <1>2, <2>1, PlaceTypes
    <2>3. CASE where[d].shape = <<>>
      <3>1. \A a, b \in Places : a.method = b.method /\ a.shape = b.shape => a = b
        BY DEF Places
      <3>2. where[d] = where[root] BY <1>4, <1>5, <2>2, <2>3, <3>1
      <3>3. d = root BY <1>1, <1>2, <2>1, <3>2 DEF TreeInv, Tree
      <3> QED BY <3>3 DEF Sub
    <2>4. CASE where[d].shape # <<>>
      <3>1. Len(<<>>) = 0 /\ Len(where[d].shape) > 0 BY <2>2, <2>4
      <3>2. Below(where, root, d) BY <1>4, <1>5, <3>1 DEF Below, Begins
      <3> QED BY <3>2 DEF Sub
    <2> QED BY <2>3, <2>4
  <1>6. ASSUME NEW d \in Sub(root) PROVE where[d].method = m
    BY <1>4 DEF Sub, Below
  <1> QED BY <1>2, <1>4, <1>5, <1>6

\* Two modules accept, order and collect in the same way.
LEMMA ReferenceSame ==
  /\ \A s, t : Reference!Accepts(s, t) <=> Pieces!Accepts(s, t)
  /\ \A s, t : Reference!MoreSpecific(s, t) <=> Pieces!MoreSpecific(s, t)
  /\ \A s, t : Reference!Values(s, t) = Pieces!Values(s, t)
  <1>1. \A s : Reference!IsSpecial(s) <=> Pieces!IsSpecial(s)
    BY DEF Reference!IsSpecial, Pieces!IsSpecial, Reference!Markers, Pieces!Markers
  <1>2. ASSUME NEW s, NEW t PROVE Reference!Accepts(s, t) <=> Pieces!Accepts(s, t)
    BY <1>1 DEF Reference!Accepts, Pieces!Accepts
  <1>3. \A s : Reference!Rank(s) = Pieces!Rank(s)
    BY DEF Reference!Rank, Pieces!Rank
  <1>4. ASSUME NEW s, NEW t
        PROVE  Reference!MoreSpecific(s, t) <=> Pieces!MoreSpecific(s, t)
    BY <1>3 DEF Reference!MoreSpecific, Pieces!MoreSpecific
  <1>5. ASSUME NEW s, NEW t PROVE Reference!Values(s, t) = Pieces!Values(s, t)
    BY DEF Reference!Values, Pieces!Values
  <1> QED BY <1>2, <1>4, <1>5

\* The path of a target that match searches for is the one that is read
\* segment by segment.
LEMMA PathIs ==
  ASSUME NEW target \in Seq(STRING), NEW k, k = Span(target, {"?"})
  PROVE  /\ SubSeq(target, 1, k) \in Seq(STRING)
         /\ Reference!PathSegments(target) = Pieces!Segments(SubSeq(target, 1, k))
  <1> DEFINE queries == {i \in DOMAIN target : target[i] = "?"}
             End(e) == /\ e = Len(target) \/ e + 1 \in queries
                       /\ \A i \in queries : e < i
             end == CHOOSE e \in 0..Len(target) : End(e)
  <1>1. Len(target) \in Nat /\ DOMAIN target = 1..Len(target) BY LenProperties
  <1>2. /\ k \in 0..Len(target) /\ \A i \in 1..k : target[i] # "?"
        /\ k < Len(target) => target[k + 1] = "?"
    BY SpanEnds
  <1>3. End(k)
    <2>1. k = Len(target) \/ k + 1 \in queries
      <3>1. k < Len(target) => k + 1 \in 1..Len(target) BY <1>1, <1>2
      <3> QED BY <1>1, <1>2, <3>1
    <2>2. ASSUME NEW i \in queries PROVE k < i
      <3>1. i \in 1..Len(target) /\ target[i] = "?" BY <1>1, <2>2
      <3>2. ~(i \in 1..k) BY <1>2, <3>1
      <3> QED BY <1>1, <1>2, <3>1, <3>2
    <2> QED BY <2>1, <2>2
  <1>4. ASSUME NEW e \in 0..Len(target), End(e) PROVE e = k
    <2>1. ~(e < k)
      <3> SUFFICES ASSUME e < k PROVE FALSE OBVIOUS
      <3>1. k \in Nat /\ e \in Nat /\ k <= Len(target) BY <1>1, <1>2
      <3>11. PICK n \in Nat : n = Len(target) BY <1>1
      <3>12. e < k /\ k <= n BY <3>1, <3>11
      <3>13. e # n /\ e + 1 \in 1..k BY <3>1, <3>12
      <3>2. e # Len(target) /\ e + 1 \in 1..k BY <3>11, <3>13
      <3>3. e + 1 \in queries BY <1>4, <3>2
      <3>4. target[e + 1] = "?" BY <3>3
      <3> QED BY <1>2, <3>2, <3>4
    <2>2. ~(k < e)
      <3> SUFFICES ASSUME k < e PROVE FALSE OBVIOUS
      <3>0. k \in Nat /\ e \in Nat /\ e <= Len(target) BY <1>1, <1>2
      <3>1. k + 1 \in 1..Len(target) /\ k < Len(target) BY <1>1, <3>0
      <3>2. k + 1 \in queries BY <1>1, <1>2, <3>1
      <3>3. e < k + 1 BY <1>4, <3>2
      <3> QED BY <3>0, <3>3
    <2> QED BY <1>1, <1>2, <2>1, <2>2
  <1>5. end = k
    <2> HIDE DEF End
    <2> QED BY <1>2, <1>3, <1>4
  <1>6. Reference!PathSegments(target) = Reference!Segments(SubSeq(target, 1, end))
    BY DEF Reference!PathSegments
  <1>7. SubSeq(target, 1, k) \in Seq(STRING) BY <1>1, <1>2
  <1> HIDE DEF end
  <1> QED BY <1>5, <1>6, <1>7, RegistrySame

\* Whole is the state a search starts from.
LEMMA WholeIs ==
  ASSUME NEW t \in Seq(STRING)
  PROVE  Pieces!Whole(t) = [rest |-> t, values |-> <<>>]
  BY DEF Pieces!Whole

\* A node with a route stands at the text of one, and patterns hold slashes.
LEMMA RouteText ==
  ASSUME Inv, RoutesSound, NEW d \in NodeIds, nodes[d].route # {}
  PROVE  /\ where[d].shape \in Seq(STRING) /\ "/" \in STRING
         /\ \E f \in Seq(Seq(STRING)), l \in Seq(STRING) :
              Pieces!Cut(where[d].shape, f, l) /\ Pieces!ShapeText(f, l)
  <1>1. TypeOK BY DEF Inv
  <1>2. where \in Seq(Places) /\ d \in DOMAIN where BY <1>1, NodeTypes
  <1>3. PICK u \in Seq(STRING) : u = where[d].shape BY <1>2, PlaceTypes
  <1>4. PICK h \in nodes[d].route : TRUE OBVIOUS
  <1>5. PICK r : r = [method |-> where[d].method,
                      shape |-> Reference!Segments(where[d].shape),
                      handler |-> h.handler, names |-> h.names]
    OBVIOUS
  <1>6. r \in Routes /\ r.shape = Reference!Segments(u)
    BY <1>3, <1>4, <1>5 DEF Routes, RouteAt
  <1>7. PICK p \in Patterns : Registry!IsPattern(p) /\ r.shape = Registry!Shape(p)
    BY <1>6 DEF RoutesSound
  <1>8. p \in Seq(STRING) BY RouterAssumption
  <1>9. Pieces!IsPattern(p) /\ Pieces!Segments(u) = Pieces!Shape(p)
    BY <1>6, <1>7, RegistrySame
  <1>10. \E f \in Seq(Seq(STRING)), l \in Seq(STRING) :
              Pieces!Cut(u, f, l) /\ Pieces!ShapeText(f, l)
    BY <1>3, <1>8, <1>9, Pieces!PatternText
  <1>11. p # <<>> /\ Head(p) = "/" BY <1>8, <1>9, ValidIs DEF Valid
  <1>12. "/" \in STRING
    <2>1. p[1] \in STRING /\ Head(p) = p[1] BY <1>8, <1>11
    <2> QED BY <1>11, <2>1
  <1> QED BY <1>3, <1>10, <1>12

\* The segments of a route's node are those of a shape.
LEMMA RouteSegments ==
  ASSUME Inv, RoutesSound, NEW d \in NodeIds, nodes[d].route # {}, NEW z,
         z = Pieces!Segments(where[d].shape)
  PROVE  /\ z \in Seq(Seq(STRING))
         /\ \A i \in DOMAIN z : Pieces!ShapeSegment(z[i])
  <1>1. PICK u \in Seq(STRING) : u = where[d].shape BY RouteText
  <1>2. PICK f \in Seq(Seq(STRING)), l \in Seq(STRING) :
          Pieces!Cut(u, f, l) /\ Pieces!ShapeText(f, l)
    BY <1>1, RouteText
  <1>3. z = Pieces!Segments(u) BY <1>1
  <1>4. z \in Seq(Seq(STRING)) BY <1>3, Pieces!SegmentsType
  <1>5. \A i \in DOMAIN Pieces!Segments(u) : Pieces!ShapeSegment(Pieces!Segments(u)[i])
    BY <1>2, Pieces!TextSegments
  <1> QED BY <1>3, <1>4, <1>5

\* The path t reaches node d from the root with the values v.
Arrives(root, t, d, v) == Reaches(root, [rest |-> t, values |-> <<>>], d, v)

\* What a node with a route takes of a path is what the route accepts.
LEMMA RouteAccepts ==
  ASSUME Inv, RoutesSound, NEW root, where[root].shape = <<>>,
         NEW d \in NodeIds, nodes[d].route # {}, NEW t \in Seq(STRING),
         NEW z, z = Pieces!Segments(where[d].shape),
         NEW path, path = Pieces!Segments(t)
  PROVE  /\ \A v \in Seq(Texts) : Arrives(root, t, d, v) =>
              Pieces!Accepts(z, path) /\ Pieces!ValuesOf(v) = Pieces!Values(z, path)
         /\ Pieces!Accepts(z, path) => \E v \in Seq(Texts) : Arrives(root, t, d, v)
  <1>1. PICK u \in Seq(STRING) : u = where[d].shape BY RouteText
  <1>2. PICK f \in Seq(Seq(STRING)), l \in Seq(STRING) :
          Pieces!Cut(u, f, l) /\ Pieces!ShapeText(f, l)
    BY <1>1, RouteText
  <1>3. /\ \A v \in Seq(Seq(STRING)) : Pieces!LeadsAll(STRING, u, t, v) =>
             /\ Pieces!Accepts(Pieces!Segments(u), Pieces!Segments(t))
             /\ Pieces!ValuesOf(v) = Pieces!Values(Pieces!Segments(u), Pieces!Segments(t))
        /\ Pieces!Accepts(Pieces!Segments(u), Pieces!Segments(t)) =>
             \E v \in Seq(Seq(STRING)) : Pieces!LeadsAll(STRING, u, t, v)
    BY <1>2, RouteText, Pieces!TextAccepts
  <1>4. \A v : Arrives(root, t, d, v) <=> Pieces!LeadsAll(STRING, u, t, v)
    <2>1. Len(where[root].shape) = 0 OBVIOUS
    <2>2. Pieces!Whole(t) = [rest |-> t, values |-> <<>>] BY WholeIs
    <2> QED BY <1>1, <2>1, <2>2 DEF Arrives, Reaches, Leads, Pieces!LeadsAll
  <1> QED BY <1>1, <1>3, <1>4 DEF Texts

\* A node found before another ends a more specific route.
LEMMA BeforeIs ==
  ASSUME Inv, RoutesSound,
         NEW n \in NodeIds, nodes[n].route # {}, NEW d \in NodeIds, nodes[d].route # {},
         Before(where[n].shape, where[d].shape)
  PROVE  Pieces!MoreSpecific(Pieces!Segments(where[n].shape),
                             Pieces!Segments(where[d].shape))
  <1>1. PICK u \in Seq(STRING) : u = where[n].shape BY RouteText
  <1>2. PICK v \in Seq(STRING) : v = where[d].shape BY RouteText
  <1>3. \A i \in DOMAIN Pieces!Segments(u) : Pieces!ShapeSegment(Pieces!Segments(u)[i])
    BY <1>1, RouteSegments
  <1>4. \A i \in DOMAIN Pieces!Segments(v) : Pieces!ShapeSegment(Pieces!Segments(v)[i])
    BY <1>2, RouteSegments
  <1>5. Pieces!Before(u, v)
    BY <1>1, <1>2 DEF Before, SymbolRank, Pieces!Before, Pieces!SymbolRank
  <1>6. Pieces!MoreSpecific(Pieces!Segments(u), Pieces!Segments(v))
    BY <1>3, <1>4, <1>5, Pieces!BeforeSpecific
  <1> QED BY <1>1, <1>2, <1>6

\* The one route of rs that accepts the path and goes before all others.
LEMMA LookupOne ==
  ASSUME NEW rs, NEW m, NEW target, NEW path, path = Reference!PathSegments(target),
         NEW r \in rs, r.method = m, Reference!Accepts(r.shape, path),
         \A o \in rs : r.shape \in Seq(Texts) /\ o.shape \in Seq(Texts),
         \A o \in rs : o.method = m /\ Reference!Accepts(o.shape, path) /\ o # r =>
           Reference!MoreSpecific(r.shape, o.shape)
  PROVE  Reference!Lookup(rs, m, target) =
           {[route |-> r, values |-> Reference!Values(r.shape, path)]}
  <1> DEFINE found == {o \in rs : o.method = m /\ Reference!Accepts(o.shape, path)}
             best == {a \in found : \A o \in found \ {a} :
                        Reference!MoreSpecific(a.shape, o.shape)}
  <1>1. r \in best OBVIOUS
  <1>2. ASSUME NEW a \in best, a # r PROVE FALSE
    <2>1. r \in found /\ a \in found BY <1>1
    <2>2. Reference!MoreSpecific(a.shape, r.shape) BY <1>2, <2>1
    <2>3. Reference!MoreSpecific(r.shape, a.shape) BY <1>2, <2>1
    <2>4. PICK s \in Seq(Texts), u \in Seq(Texts) : s = a.shape /\ u = r.shape BY <2>1
    <2>5. Pieces!MoreSpecific(s, u) /\ Pieces!MoreSpecific(u, s)
      BY <2>2, <2>3, <2>4, ReferenceSame
    <2> QED BY <2>5, Pieces!SpecificOne
  <1>3. best = {r} BY <1>1, <1>2
  <1>4. Reference!Lookup(rs, m, target) =
          {[route |-> o, values |-> Reference!Values(o.shape, path)] : o \in best}
    BY DEF Reference!Lookup
  <1> HIDE DEF best
  <1> QED BY <1>3, <1>4

\* What is known of a route at a node.
LEMMA RouteAtIs ==
  ASSUME NEW d \in NodeIds, NEW r \in RouteAt(d)
  PROVE  /\ r \in Routes /\ nodes[d].route # {}
         /\ r.method = where[d].method
         /\ r.shape = Pieces!Segments(where[d].shape)
  <1>1. PICK h \in nodes[d].route :
          r = [method |-> where[d].method, shape |-> Reference!Segments(where[d].shape),
               handler |-> h.handler, names |-> h.names]
    BY DEF RouteAt
  <1>2. r.method = where[d].method /\ r.shape = Reference!Segments(where[d].shape)
    BY <1>1
  <1> QED BY <1>1, <1>2, RegistrySame DEF Routes

\* The shapes of routes are sequences of segments.
LEMMA RouteShapes ==
  ASSUME Inv, RoutesSound PROVE \A r \in Routes : r.shape \in Seq(Texts)
  <1> TAKE r \in Routes
  <1>1. PICK d \in NodeIds : r \in RouteAt(d) BY DEF Routes
  <1> QED BY <1>1, RouteAtIs, RouteSegments DEF Texts

\* No route of a method accepts a path that the search finds nothing for.
LEMMA NothingFound ==
  ASSUME Inv, RoutesSound, NEW m \in Methods, NEW root, root = roots[m], root # 0,
         NEW t \in Seq(STRING), Search(root, t).node = 0,
         NEW o \in Routes, o.method = m
  PROVE  ~Pieces!Accepts(o.shape, Pieces!Segments(t))
  <1> SUFFICES ASSUME Pieces!Accepts(o.shape, Pieces!Segments(t)) PROVE FALSE OBVIOUS
  <1>1. root \in NodeIds /\ where[root].shape = <<>> BY RootSub
  <1>2. PICK d \in NodeIds : o \in RouteAt(d) BY DEF Routes
  <1>3. /\ nodes[d].route # {} /\ where[d].method = m
        /\ o.shape = Pieces!Segments(where[d].shape)
    BY <1>2, RouteAtIs
  <1>4. \E v \in Seq(Texts) : Arrives(root, t, d, v) BY <1>1, <1>3, RouteAccepts
  <1>5. d \in Sub(root) BY <1>3, RootSub
  <1>6. Found(root, [rest |-> t, values |-> <<>>], Sub(root), Search(root, t))
    BY <1>1, SearchFound
  <1> QED BY <1>4, <1>5, <1>6 DEF Found, Arrives

\* The route that the search finds accepts the path, with the values that the
\* search collects, and is more specific than every other one that does.
LEMMA RouteFound ==
  ASSUME Inv, RoutesSound, NEW m \in Methods, NEW root, root = roots[m], root # 0,
         NEW t \in Seq(STRING), NEW path, path = Pieces!Segments(t),
         NEW found, found = Search(root, t), found.node # 0
  PROVE  /\ found.node \in NodeIds /\ RouteAt(found.node) # {}
         /\ \A r \in RouteAt(found.node) :
              /\ r \in Routes /\ r.method = m
              /\ Pieces!Accepts(r.shape, path)
              /\ Pieces!ValuesOf(found.values) = Pieces!Values(r.shape, path)
              /\ \A o \in Routes :
                   o.method = m /\ Pieces!Accepts(o.shape, path) /\ o # r =>
                     Pieces!MoreSpecific(r.shape, o.shape)
  <1>1. root \in NodeIds /\ where[root].shape = <<>> BY RootSub
  <1>2. Found(root, [rest |-> t, values |-> <<>>], Sub(root), found)
    BY <1>1, SearchFound
  <1>3. PICK n : n = found.node OBVIOUS
  <1>4. /\ n \in Sub(root) /\ found \in Results
        /\ Arrives(root, t, n, found.values)
        /\ \A d \in Sub(root), v \in Seq(Texts) :
             Arrives(root, t, d, v) /\ d # n => Before(where[n].shape, where[d].shape)
    BY <1>2, <1>3 DEF Found, Arrives
  <1>5. n \in NodeIds /\ nodes[n].route # {} BY <1>4 DEF Sub, Arrives, Reaches
  <1>6. RouteAt(n) # {} BY <1>5 DEF RouteAt
  <1>7. ASSUME NEW r \in RouteAt(n)
        PROVE  /\ r \in Routes /\ r.method = m
               /\ Pieces!Accepts(r.shape, path)
               /\ Pieces!ValuesOf(found.values) = Pieces!Values(r.shape, path)
               /\ \A o \in Routes :
                    o.method = m /\ Pieces!Accepts(o.shape, path) /\ o # r =>
                      Pieces!MoreSpecific(r.shape, o.shape)
    <2>1. /\ r \in Routes /\ r.method = where[n].method
          /\ r.shape = Pieces!Segments(where[n].shape)
      BY <1>5, RouteAtIs
    <2>2. r.method = m BY <1>4, <1>5, <2>1, RootSub
    <2>3. found.values \in Seq(Texts) BY <1>4, ResultIs
    <2>4. Pieces!Accepts(r.shape, path)
          /\ Pieces!ValuesOf(found.values) = Pieces!Values(r.shape, path)
      BY <1>1, <1>4, <1>5, <2>1, <2>3, RouteAccepts
    <2>5. ASSUME NEW o \in Routes, o.method = m, Pieces!Accepts(o.shape, path), o # r
          PROVE  Pieces!MoreSpecific(r.shape, o.shape)
      <3>1. PICK d \in NodeIds : o \in RouteAt(d) BY DEF Routes
      <3>2. /\ nodes[d].route # {} /\ where[d].method = m
            /\ o.shape = Pieces!Segments(where[d].shape)
        BY <2>5, <3>1, RouteAtIs
      <3>3. PICK v \in Seq(Texts) : Arrives(root, t, d, v)
        BY <1>1, <2>5, <3>2, RouteAccepts
      <3>4. d \in Sub(root) BY <3>2, RootSub
      <3>5. d # n
        <4> SUFFICES ASSUME d = n PROVE FALSE OBVIOUS
        <4>1. o.shape = r.shape BY <2>1, <3>2
        <4> QED BY <2>1, <2>2, <2>5, <4>1 DEF RoutesSound
      <3>6. Before(where[n].shape, where[d].shape) BY <1>4, <3>3, <3>4, <3>5
      <3> QED BY <1>5, <2>1, <3>2, <3>6, BeforeIs
    <2> QED BY <2>1, <2>2, <2>4, <2>5
  <1> QED BY <1>3, <1>5, <1>6, <1>7

\* What is looked up among the routes is what match returns.
LEMMA MatchFinds ==
  ASSUME Inv, RoutesSound, NEW m \in Methods, NEW target \in Targets
  PROVE  Reference!Lookup(Routes, m, target) =
           {[route |-> CHOOSE r \in RouteAt(found.node) : TRUE,
             values |-> [i \in DOMAIN found.values |->
                           Reference!Segments(found.values[i])]]
              : found \in Match(m, target)}
  <1> DEFINE Result(found) ==
        [route |-> CHOOSE r \in RouteAt(found.node) : TRUE,
         values |-> [i \in DOMAIN found.values |-> Reference!Segments(found.values[i])]]
  <1>1. target \in Seq(STRING) BY RouterAssumption
  <1>2. PICK t : t = SubSeq(target, 1, Span(target, {"?"})) OBVIOUS
  <1>3. PICK path : path = Pieces!Segments(t) OBVIOUS
  <1>4. t \in Seq(STRING) /\ Reference!PathSegments(target) = path
    BY <1>1, <1>2, <1>3, PathIs
  <1>5. Match(m, target) = IF roots[m] = 0 THEN {}
                           ELSE {found \in {Search(roots[m], t)} : found.node # 0}
    BY <1>2 DEF Match
  <1> SUFFICES Reference!Lookup(Routes, m, target) =
                 {Result(found) : found \in Match(m, target)}
    OBVIOUS
  <1>6. (\A o \in Routes : o.method = m => ~Pieces!Accepts(o.shape, path))
        => Reference!Lookup(Routes, m, target) = {}
    <2> SUFFICES ASSUME \A o \in Routes : o.method = m => ~Pieces!Accepts(o.shape, path)
                 PROVE  Reference!Lookup(Routes, m, target) = {}
      OBVIOUS
    <2>1. \A o \in Routes : ~(o.method = m /\ Reference!Accepts(o.shape, path))
      BY ReferenceSame
    <2> QED BY <1>4, <2>1 DEF Reference!Lookup
  <1>7. CASE roots[m] = 0
    <2>1. \A o \in Routes : o.method # m
      <3> TAKE o \in Routes
      <3>1. PICK d \in NodeIds : o \in RouteAt(d) BY DEF Routes
      <3>2. where[d].method = o.method BY <3>1, RouteAtIs
      <3>3. roots[where[d].method] # 0 BY DEF Inv, RootInv
      <3> QED BY <1>7, <3>2, <3>3
    <2>2. Match(m, target) = {} BY <1>5, <1>7
    <2> HIDE DEF Result
    <2> QED BY <1>6, <2>1, <2>2
  <1>8. CASE roots[m] # 0 /\ Search(roots[m], t).node = 0
    <2>1. \A o \in Routes : o.method = m => ~Pieces!Accepts(o.shape, path)
      BY <1>3, <1>4, <1>8, NothingFound
    <2>2. Match(m, target) = {} BY <1>5, <1>8
    <2> HIDE DEF Result
    <2> QED BY <1>6, <2>1, <2>2
  <1>9. CASE roots[m] # 0 /\ Search(roots[m], t).node # 0
    <2>1. PICK found : found = Search(roots[m], t) OBVIOUS
    <2>2. PICK r : r = CHOOSE x \in RouteAt(found.node) : TRUE OBVIOUS
    <2>3. /\ RouteAt(found.node) # {}
          /\ \A x \in RouteAt(found.node) :
               /\ x \in Routes /\ x.method = m /\ Pieces!Accepts(x.shape, path)
               /\ Pieces!ValuesOf(found.values) = Pieces!Values(x.shape, path)
               /\ \A o \in Routes :
                    o.method = m /\ Pieces!Accepts(o.shape, path) /\ o # x =>
                      Pieces!MoreSpecific(x.shape, o.shape)
      BY <1>3, <1>4, <1>9, <2>1, RouteFound
    <2>4. r \in RouteAt(found.node) BY <2>2, <2>3
    <2>5. /\ r \in Routes /\ r.method = m /\ Pieces!Accepts(r.shape, path)
          /\ Pieces!ValuesOf(found.values) = Pieces!Values(r.shape, path)
          /\ \A o \in Routes :
               o.method = m /\ Pieces!Accepts(o.shape, path) /\ o # r =>
                 Pieces!MoreSpecific(r.shape, o.shape)
      BY <2>3, <2>4
    <2>6. \A o \in Routes : r.shape \in Seq(Texts) /\ o.shape \in Seq(Texts)
      BY <2>5, RouteShapes
    <2>7. Reference!Accepts(r.shape, path) BY <2>5, ReferenceSame
    <2>8. \A o \in Routes : o.method = m /\ Reference!Accepts(o.shape, path) /\ o # r =>
            Reference!MoreSpecific(r.shape, o.shape)
      BY <2>5, ReferenceSame
    <2>9. Reference!Lookup(Routes, m, target) =
            {[route |-> r, values |-> Reference!Values(r.shape, path)]}
      BY <1>4, <2>5, <2>6, <2>7, <2>8, LookupOne
    <2>10. Reference!Values(r.shape, path) =
             [i \in DOMAIN found.values |-> Reference!Segments(found.values[i])]
      <3>1. Reference!Values(r.shape, path) = Pieces!ValuesOf(found.values)
        BY <2>5, ReferenceSame
      <3> QED BY <3>1, RegistrySame DEF Pieces!ValuesOf
    <2>11. Result(found) = [route |-> r, values |-> Reference!Values(r.shape, path)]
      BY <2>2, <2>10
    <2>12. Match(m, target) = {found} BY <1>5, <1>9, <2>1
    <2> HIDE DEF Result
    <2> QED BY <2>9, <2>11, <2>12
  <1> QED BY <1>7, <1>8, <1>9

\* Whatever was registered in whatever order, for any patterns, methods and
\* targets: a target is matched to the most specific route that accepts it,
\* with the text of its parameters, and to none if none accepts it.
THEOREM MatchesBest == Spec => []MatchIsBest
  <1>1. Inv /\ RoutesSound => MatchIsBest
    <2> SUFFICES ASSUME Inv, RoutesSound PROVE MatchIsBest OBVIOUS
    <2> QED BY MatchFinds DEF MatchIsBest
  <1> QED BY <1>1, InvHolds, RoutesSoundHolds, PTL

=============================================================================
