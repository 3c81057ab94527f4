----------------------------- MODULE RadixRouter -----------------------------
(***************************************************************************)
(* Router: one radix tree per HTTP method.  A node keeps compressed        *)
(* literal text, its static children in the order they were made, at most  *)
(* one parameter child and one catch-all child, and the route that ends at *)
(* it.  add_route runs as its recursion and its loop do, one descent,      *)
(* split or new node a step; match is an operator.                         *)
(*                                                                         *)
(* Text is a sequence of symbols; unique_ptr is an index into nodes or 0;  *)
(* optional is a set with at most one element.                             *)
(***************************************************************************)
EXTENDS Naturals, Sequences, SequencesExt

CONSTANTS
  Methods,      \* the HTTP methods
  Patterns,     \* the patterns add_route is called with, valid or not
  Handlers,     \* the Handler objects it is called with
  Temporaries,  \* those of them converted from a callable for that one call
  Targets,      \* the request targets to match
  MaxRoutes,    \* bound: routes registered
  NoCall        \* no add_route is running

ASSUME RouterAssumption ==
  /\ Patterns \subseteq Seq(STRING)
  /\ Targets \subseteq Seq(STRING)
  /\ Temporaries \subseteq Handlers
  /\ MaxRoutes \in Nat
  /\ NoCall \notin [method : Methods, handler : Handlers, cur : Nat,
                    text : Seq(STRING), rest : Seq(STRING), names : Seq(Seq(STRING))]

VARIABLES
  nodes,    \* every Node made so far; none is ever freed
  roots,    \* roots_: per method, its root node or 0
  call,     \* the running add_route: what is left to insert, and where
  outcome,  \* what the last add_route did: "added", or what it threw
  dead,     \* the handler objects whose lifetime has ended
  where     \* history: the method and the text from its root to each node

tree == <<nodes, roots, where>>
vars == <<tree, call, outcome, dead>>

Texts == Seq(STRING)
Markers == {":", "*"}

Drop(s, k) == SubSeq(s, k + 1, Len(s))

\* How many symbols of s precede the first one in stops.
Span(s, stops) ==
  LET k == SelectInSeq(s, LAMBDA x : x \in stops)
  IN  IF k = 0 THEN Len(s) ELSE k - 1

\* A common_prefix that stops after one symbol.
CommonFront(s, t) == IF Head(s) = Head(t) THEN 1 ELSE 0

CommonPrefix(s, t) == Len(LongestCommonPrefix({s, t}))

-----------------------------------------------------------------------------
(* Registration.                                                           *)

\* A marker may stand inside a segment.
AnyPlace(p, i) == TRUE

StartsSegment(p, i) == i > 1 /\ p[i - 1] = "/"

\* validate_pattern returns: every marker follows a slash and has a name
\* without markers behind it, and no slash follows a catch-all.
Valid(p) ==
  /\ p # <<>>
  /\ Head(p) = "/"
  /\ \A i \in DOMAIN p : p[i] \in Markers =>
       LET name == Span(Drop(p, i), {"/"}) IN
       /\ StartsSegment(p, i)
       /\ name > 0
       /\ \A k \in (i + 1)..(i + name) : p[k] \notin Markers
       /\ p[i] = "*" => i + name = Len(p)

NewNode(type, prefix) ==
  [type |-> type, prefix |-> prefix, static |-> <<>>,
   parameter |-> 0, catch_all |-> 0, route |-> {}]

Registered == {n \in DOMAIN nodes : nodes[n].route # {}}

\* A handler object made for the call dies with the full expression of it.
CallEnds(h) == dead' = dead \cup ({h} \cap Temporaries)

\* add_route of a pattern that validate_pattern throws on.
Reject(m, p, h) ==
  /\ call = NoCall
  /\ h \notin dead
  /\ ~Valid(p)
  /\ outcome' = "invalid"
  /\ CallEnds(h)
  /\ UNCHANGED <<tree, call>>

\* An insert_route that takes the method's root to be there.
RootThere(m) == roots[m]

\* The method's root, which is the next node if there is none yet.
RootOf(m) == IF roots[m] = 0 THEN Len(nodes) + 1 ELSE roots[m]

\* add_route up to the loop of insert_route, making the root if need be.
Start(m, p, h) ==
  /\ call = NoCall
  /\ h \notin dead
  /\ Valid(p)
  /\ Cardinality(Registered) < MaxRoutes
  /\ roots' = [roots EXCEPT ![m] = RootOf(m)]
  /\ IF roots[m] = 0
     THEN /\ nodes' = Append(nodes, NewNode("static", <<>>))
          /\ where' = Append(where, [method |-> m, shape |-> <<>>])
     ELSE UNCHANGED <<nodes, where>>
  /\ call' = [method |-> m, handler |-> h, cur |-> RootOf(m),
              text |-> <<>>, rest |-> p, names |-> <<>>]
  /\ UNCHANGED <<outcome, dead>>

\* The loop finds literal text in front of the next marker.
Literal ==
  /\ call # NoCall
  /\ call.text = <<>> /\ call.rest # <<>>
  /\ Head(call.rest) \notin Markers
  /\ LET k == Span(call.rest, Markers) IN
       call' = [call EXCEPT !.text = SubSeq(call.rest, 1, k),
                            !.rest = Drop(call.rest, k)]
  /\ UNCHANGED <<tree, outcome, dead>>

\* A comparison that only takes a child whose whole prefix begins the text.
WholeTwins ==
  {i \in DOMAIN nodes[call.cur].static :
     IsPrefix(nodes[nodes[call.cur].static[i]].prefix, call.text)}

\* Where the static children stand that insert_static does not skip, of which
\* it takes the first: those whose prefix begins as the text to insert does.
Twins ==
  {i \in DOMAIN nodes[call.cur].static :
     LET child == nodes[nodes[call.cur].static[i]] IN
     child.type = "static" /\ Head(child.prefix) = Head(call.text)}

Twin == nodes[call.cur].static[Min(Twins)]
Shared == CommonPrefix(nodes[Twin].prefix, call.text)

\* The text to insert starts with all of the child's prefix.
Descend ==
  /\ call # NoCall
  /\ call.text # <<>> /\ Twins # {}
  /\ Shared = Len(nodes[Twin].prefix)
  /\ call' = [call EXCEPT !.cur = Twin, !.text = Drop(@, Shared)]
  /\ UNCHANGED <<tree, outcome, dead>>

\* A split that moves the route to the suffix and does not reset the child's:
\* an optional that was moved from still has a value.
KeepRoute(node, n, suffix) ==
  [NewNode("static", SubSeq(node.prefix, 1, n))
     EXCEPT !.static = <<suffix>>, !.route = node.route]

\* What is left of a node: n symbols of its prefix, and its suffix as child.
SplitAt(node, n, suffix) ==
  [NewNode("static", SubSeq(node.prefix, 1, n)) EXCEPT !.static = <<suffix>>]

\* It does not: the child keeps the shared part of its prefix, and a new
\* suffix node takes the rest of it with all the child had.
Split ==
  /\ call # NoCall
  /\ call.text # <<>> /\ Twins # {}
  /\ Shared < Len(nodes[Twin].prefix)
  /\ LET suffix == [nodes[Twin] EXCEPT !.prefix = Drop(@, Shared)]
         stem == Len(where[Twin].shape) - Len(suffix.prefix)
     IN  /\ nodes' = Append([nodes EXCEPT ![Twin] = SplitAt(@, Shared, Len(nodes) + 1)],
                            suffix)
         /\ where' = Append([where EXCEPT ![Twin].shape = SubSeq(@, 1, stem)],
                            where[Twin])
  /\ call' = [call EXCEPT !.cur = Twin, !.text = Drop(@, Shared)]
  /\ UNCHANGED <<roots, outcome, dead>>

\* No child shares a symbol with the text: it becomes a child of its own.
Grow ==
  /\ call # NoCall
  /\ call.text # <<>> /\ Twins = {}
  /\ nodes' = Append([nodes EXCEPT ![call.cur].static = Append(@, Len(nodes) + 1)],
                     NewNode("static", call.text))
  /\ where' = Append(where, [where[call.cur] EXCEPT !.shape = @ \o call.text])
  /\ call' = [call EXCEPT !.cur = Len(nodes) + 1, !.text = <<>>]
  /\ UNCHANGED <<roots, outcome, dead>>

\* What the marker at the head of the rest calls for.
Kind == IF Head(call.rest) = "*" THEN "catch_all" ELSE "parameter"

AtSpecial ==
  /\ call # NoCall
  /\ call.text = <<>> /\ call.rest # <<>>
  /\ Head(call.rest) \in Markers

\* A scan for the next marker where the next slash is meant.
SpecialEndAtMarker ==
  IF Kind = "catch_all" THEN Len(call.rest) ELSE Span(call.rest, Markers)

\* Where the special's name ends: a catch-all's at the end of the pattern, a
\* parameter's in front of the next slash.
SpecialEnd ==
  IF Kind = "catch_all" THEN Len(call.rest) ELSE Span(call.rest, {"/"})

\* A node's child of the kind that is called for, and the node with such a
\* child.
SpecialOf(node) ==
  IF Kind = "catch_all" THEN node.catch_all ELSE node.parameter

WithSpecial(node, child) ==
  IF Kind = "catch_all" THEN [node EXCEPT !.catch_all = child]
                        ELSE [node EXCEPT !.parameter = child]

\* insert_special on a node that is not special itself (on one that is, it
\* throws): the child of that kind, made if it is not there yet.
Special ==
  LET there == SpecialOf(nodes[call.cur])
      child == IF there = 0 THEN Len(nodes) + 1 ELSE there
  IN
  /\ AtSpecial
  /\ nodes[call.cur].type = "static"
  /\ IF there = 0
     THEN /\ nodes' = Append([nodes EXCEPT ![call.cur] = WithSpecial(@, child)],
                             NewNode(Kind, <<>>))
          /\ where' = Append(where, [where[call.cur] EXCEPT
                                       !.shape = @ \o <<Head(call.rest)>>])
     ELSE UNCHANGED <<nodes, where>>
  /\ call' = [call EXCEPT !.cur = child, !.rest = Drop(@, SpecialEnd),
                          !.names = Append(@, SubSeq(call.rest, 2, SpecialEnd))]
  /\ UNCHANGED <<roots, outcome, dead>>

\* The end of insert_route: the route is set, or a duplicate is thrown.
Finish ==
  /\ call # NoCall
  /\ call.text = <<>> /\ call.rest = <<>>
  /\ IF nodes[call.cur].route # {}
     THEN /\ outcome' = "duplicate"
          /\ UNCHANGED nodes
     ELSE /\ outcome' = "added"
          /\ nodes' = [nodes EXCEPT ![call.cur].route =
                         {[handler |-> call.handler, names |-> call.names]}]
  /\ call' = NoCall
  /\ CallEnds(call.handler)
  /\ UNCHANGED <<roots, where>>

Step == Literal \/ Descend \/ Split \/ Grow \/ Special \/ Finish

Init ==
  /\ nodes = <<>>
  /\ roots = [m \in Methods |-> 0]
  /\ where = <<>>
  /\ call = NoCall
  /\ outcome = "none"
  /\ dead = {}

Next ==
  \/ \E m \in Methods, p \in Patterns, h \in Handlers :
       Reject(m, p, h) \/ Start(m, p, h)
  \/ Step

Spec == Init /\ [][Next]_vars

\* A call that was made runs on: it is sequential code.
FairSpec == Spec /\ WF_vars(Step)

-----------------------------------------------------------------------------
(* Matching.                                                               *)

\* A try that fails and leaves the values it collected behind.
BacktrackKeeping(saved, found) == found

\* A try that fails gives the values it collected back.
Backtrack(saved, found) ==
  IF found.node # 0 THEN found
  ELSE [found EXCEPT !.values = SubSeq(@, 1, saved)]

\* What the recursive match is called with: the node to search below, how much
\* of the path was taken, and the values collected so far.
Froms == [node : DOMAIN nodes, position : Nat, values : Seq(Texts)]

\* The recursive search of match over the target path t: static children in
\* their order, then the parameter, then the catch-all.
Search(root, t) ==
  LET search[from \in Froms] ==
        LET node == nodes[from.node]
            remaining == Drop(t, from.position)
            Try(found, c) ==
              IF found.node # 0 \/ ~IsPrefix(nodes[c].prefix, remaining)
              THEN found
              ELSE Backtrack(Len(found.values),
                     search[[node |-> c, values |-> found.values,
                             position |-> from.position + Len(nodes[c].prefix)]])
            static == FoldLeft(Try, [node |-> 0, values |-> from.values], node.static)
            end == Span(remaining, {"/"})
            parameter ==
              IF static.node # 0 \/ node.parameter = 0 \/ end = 0
              THEN static
              ELSE Backtrack(Len(static.values),
                     search[[node |-> node.parameter, position |-> from.position + end,
                             values |-> Append(static.values,
                                               SubSeq(remaining, 1, end))]])
        IN
        IF remaining = <<>> /\ node.route # {}
        THEN [node |-> from.node, values |-> from.values]
        ELSE IF \/ parameter.node # 0
                \/ node.catch_all = 0
                \/ nodes[node.catch_all].route = {}
                \/ remaining \in {<<>>, <<"/">>}
        THEN parameter
        ELSE [node |-> node.catch_all,
              values |-> Append(parameter.values, remaining)]
  IN  search[[node |-> root, position |-> 0, values |-> <<>>]]

\* match: at most one result, the node whose route it refers to and the
\* values of the route's parameters.
Match(m, target) ==
  LET t == SubSeq(target, 1, Span(target, {"?"}))
  IN  IF roots[m] = 0 THEN {}
      ELSE {found \in {Search(roots[m], t)} : found.node # 0}

-----------------------------------------------------------------------------
(* Safety.                                                                 *)

Kinds == {"static", "parameter", "catch_all"}

NodeIds == DOMAIN nodes

\* The type of every variable of the router.
TypeOK ==
  /\ nodes \in Seq([type : Kinds, prefix : Texts, static : Seq(Nat),
                    parameter : Nat, catch_all : Nat,
                    route : SUBSET [handler : Handlers, names : Seq(Texts)]])
  /\ \A n \in NodeIds :
       /\ ToSet(nodes[n].static) \subseteq NodeIds
       /\ {nodes[n].parameter, nodes[n].catch_all} \subseteq NodeIds \cup {0}
  /\ roots \in [Methods -> NodeIds \cup {0}]
  /\ \/ call = NoCall
     \/ call \in [method : Methods, handler : Handlers, cur : NodeIds,
                  text : Texts, rest : Texts, names : Seq(Texts)]
  /\ outcome \in {"none", "invalid", "duplicate", "added"}
  /\ dead \subseteq Temporaries
  /\ where \in Seq([method : Methods, shape : Texts])
  /\ Len(where) = Len(nodes)

\* c is a child of n by the text step.
Extends(c, n, step) ==
  where[c] = [where[n] EXCEPT !.shape = @ \o step]

\* The tree is a radix tree at every step of an add_route: an edge carries
\* the text that leads from its upper end to its lower one, no two siblings
\* begin alike, and no two nodes stand at the same text of a method, so that
\* a pattern leads to one node however the tree was split before.
RadixTree ==
  /\ \A m \in Methods : roots[m] # 0 =>
       where[roots[m]] = [method |-> m, shape |-> <<>>]
  /\ \A n \in NodeIds :
       LET node == nodes[n] IN
       /\ \A i \in DOMAIN node.static :
            LET c == node.static[i] IN
            /\ nodes[c].type = "static" /\ nodes[c].prefix # <<>>
            /\ Extends(c, n, nodes[c].prefix)
            /\ \A j \in DOMAIN node.static :
                 Head(nodes[node.static[j]].prefix) = Head(nodes[c].prefix) => j = i
       /\ node.parameter # 0 => /\ Extends(node.parameter, n, <<":">>)
                                /\ nodes[node.parameter].type = "parameter"
       /\ node.catch_all # 0 => /\ Extends(node.catch_all, n, <<"*">>)
                                /\ nodes[node.catch_all].type = "catch_all"
  /\ \A n, d \in NodeIds : where[n] = where[d] => n = d

\* A special child hangs where a segment starts, and a parameter is followed
\* by a slash only: insert_special never throws on a validated pattern, and
\* match never leaves a segment half taken.
SpecialsTakeSegments ==
  /\ AtSpecial => nodes[call.cur].type = "static"
  /\ \A n \in NodeIds :
       LET node == nodes[n] IN
       /\ node.parameter # 0 \/ node.catch_all # 0 =>
            node.type = "static" /\ node.prefix # <<>> /\ Last(node.prefix) = "/"
       /\ node.type = "parameter" =>
            \A i \in DOMAIN node.static : Head(nodes[node.static[i]].prefix) = "/"
       /\ node.type = "catch_all" => node.static = <<>>

\* Between calls the literal text is compressed: a node below the root that
\* ends no route has no lone static child it could be joined with.
Compressed ==
  call = NoCall =>
    \A n \in NodeIds :
      /\ nodes[n].type = "static" /\ nodes[n].prefix # <<>>
      /\ nodes[n].route = {} /\ nodes[n].parameter = 0 /\ nodes[n].catch_all = 0
      => Len(nodes[n].static) > 1

\* The tree read as a set of routes.
Reference == INSTANCE RoutePatterns

RouteAt(n) ==
  {[method |-> where[n].method, shape |-> Reference!Segments(where[n].shape),
    handler |-> r.handler, names |-> r.names] : r \in nodes[n].route}

Routes == UNION {RouteAt(n) : n \in NodeIds}

\* Whatever was registered in whatever order, a target is matched to the most
\* specific route that accepts it, with the text of its parameters: what the
\* backtracking through split prefixes finds is what reading the patterns
\* segment by segment does.
MatchIsBest ==
  call = NoCall =>
    \A m \in Methods, t \in Targets :
      Reference!Lookup(Routes, m, t) =
        {[route |-> CHOOSE r \in RouteAt(found.node) : TRUE,
          values |-> [i \in DOMAIN found.values |-> Reference!Segments(found.values[i])]]
           : found \in Match(m, t)}

\* add_route adds the pattern's route or throws, and no split or new node it
\* makes on the way takes, moves or alters a route registered before.
Registry == INSTANCE RouteSet WITH routes <- Routes

ImplementsRouteSet == Registry!Spec

\* "Matched route with its handler" (HttpTypes.hpp): the handler a match
\* refers to is there to be called.
MatchedHandlerAlive ==
  call = NoCall =>
    \A m \in Methods, t \in Targets : \A found \in Match(m, t) :
      \A r \in nodes[found.node].route : r.handler \notin dead

\* Liveness, under FairSpec: every add_route returns or throws.
AddReturns == call # NoCall ~> call = NoCall

=============================================================================
