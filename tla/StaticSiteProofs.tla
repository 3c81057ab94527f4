--------------------------- MODULE StaticSiteProofs ---------------------------
(***************************************************************************)
(* For any routes, targets and disks: the longest prefix serves, and what  *)
(* is opened lies below the root of its route.                             *)
(***************************************************************************)
EXTENDS StaticSite, Induction

Pieces == INSTANCE RoutePatternsProofs

Path == Seq(Seq(Symbols))

\* The table has the paths of the routes that are registered, each with the
\* last route of that path, and the server runs once all are.
TableInv ==
  /\ DOMAIN table = {config[i].path : i \in 1..loaded}
  /\ \A q \in DOMAIN table : \E i \in 1..loaded :
       /\ table[q] = config[i] /\ config[i].path = q
       /\ \A k \in 1..loaded : config[k].path = q => k <= i
  /\ stage # "loading" => loaded = Len(config)

\* The base is the root of the route, and the target lies below it once they
\* were compared.
RootInv ==
  /\ stage \in {"path", "open"} => IsPrefix(Normal(chosen.root), base)
  /\ stage = "open" \/ body # "none" => IsPrefix(Normal(chosen.root), path)
  /\ body # "none" => stage = "answered"

-----------------------------------------------------------------------------
(* Paths.                                                                  *)

\* The components that lead nowhere.
LEMMA StepStays == \A place, c : c \in {<<>>, <<".">>} => Step(place, c) = place
  BY DEF Step

\* A component leads from a place to a place.
LEMMA StepType ==
  ASSUME NEW place \in Path, NEW c \in Seq(Symbols)
  PROVE  Step(place, c) \in Path
  <1>1. CASE c \in {<<>>, <<".">>}
    <2>1. Step(place, c) = place BY <1>1 DEF Step
    <2> QED BY <2>1
  <1>2. CASE c = <<"..">>
    <2>1. c \notin {<<>>, <<".">>} BY <1>2
    <2>2. Step(place, c) = IF place = <<>> THEN <<>> ELSE Front(place)
      BY <1>2, <2>1 DEF Step
    <2>3. Front(place) \in Path BY DEF Front, Path
    <2> QED BY <2>2, <2>3 DEF Path
  <1>3. CASE c \notin {<<>>, <<".">>, <<"..">>}
    <2>1. Step(place, c) = Append(place, c) BY <1>3 DEF Step
    <2> QED BY <2>1 DEF Path
  <1> QED BY <1>1, <1>2, <1>3

\* g holds what the beginnings of p lead to.
Places(g, p, n) ==
  /\ g[0] = <<>>
  /\ \A k \in 1..n : g[k] = Step(g[k - 1], p[k])

\* The recursion of Normal has a solution.
LEMMA NormalPlaces ==
  ASSUME NEW p \in Path
  PROVE  \E g : Places(g, p, Len(p)) /\ Normal(p) = g[Len(p)]
  <1> DEFINE n == Len(p)
             Body(g, k) == IF k = 0 THEN <<>> ELSE Step(g[k - 1], p[k])
             place == CHOOSE g : g = [k \in 0..n |-> Body(g, k)]
  <1>1. Normal(p) = place[n] BY DEF Normal
  <1>2. n \in Nat BY DEF Path
  <1>3. \E g : g = [k \in 0..n |-> Body(g, k)]
    <2> DEFINE T == {m \in 0..n : \E g : g = [k \in 0..m |-> Body(g, k)]}
    <2>1. 0 \in T
      <3> DEFINE g == [k \in 0..0 |-> <<>>]
      <3>1. g = [k \in 0..0 |-> Body(g, k)] OBVIOUS
      <3> HIDE DEF g, Body
      <3>2. \E h : h = [k \in 0..0 |-> Body(h, k)] BY <3>1
      <3> QED BY <1>2, <3>2
    <2>2. ASSUME NEW m \in 1..n, m - 1 \in T PROVE m \in T
      <3>1. PICK h : h = [k \in 0..(m - 1) |-> Body(h, k)] BY <2>2
      <3> DEFINE g == [k \in 0..m |-> IF k = m THEN Step(h[m - 1], p[m]) ELSE h[k]]
      <3>2. ASSUME NEW k \in 0..m PROVE g[k] = Body(g, k)
        <4>1. CASE k = m BY <1>2, <4>1
        <4>2. CASE k # m
          <5>1. k \in 0..(m - 1) /\ g[k] = h[k] BY <1>2, <4>2
          <5>2. h[k] = Body(h, k) BY <3>1, <5>1
          <5>3. k # 0 => k - 1 \in 0..m /\ k - 1 # m /\ g[k - 1] = h[k - 1]
            BY <1>2, <4>2
          <5> QED BY <5>1, <5>2, <5>3
        <4> QED BY <4>1, <4>2
      <3>3. g = [k \in 0..m |-> Body(g, k)] BY <3>2
      <3> HIDE DEF g, Body
      <3>4. \E f : f = [k \in 0..m |-> Body(f, k)] BY <3>3
      <3> QED BY <3>4
    <2> HIDE DEF T
    <2>3. \A m \in 0..n : m \in T BY <1>2, <2>1, <2>2, UpTo
    <2> QED BY <1>2, <2>3 DEF T
  <1>4. place = [k \in 0..n |-> Body(place, k)] BY <1>3
  <1> HIDE DEF place
  <1>5. /\ place[0] = <<>>
        /\ \A k \in 1..n : place[k] = Step(place[k - 1], p[k])
    BY <1>2, <1>4
  <1> QED BY <1>1, <1>5 DEF Places

\* Where a path leads that goes on with a component more.
LEMMA NormalGrows ==
  /\ Normal(<<>>) = <<>>
  /\ \A p \in Path, c \in Seq(Symbols) : Normal(Append(p, c)) = Step(Normal(p), c)
  <1>1. Normal(<<>>) = <<>>
    <2>1. <<>> \in Path /\ Len(<<>>) = 0 BY DEF Path
    <2> QED BY <2>1, NormalPlaces DEF Places
  <1>2. ASSUME NEW p \in Path, NEW c \in Seq(Symbols)
        PROVE  Normal(Append(p, c)) = Step(Normal(p), c)
    <2> DEFINE n == Len(p)
               q == Append(p, c)
               N == Seq(Symbols)
    <2>1. /\ q \in Path /\ Len(q) = n + 1 /\ q[n + 1] = c /\ n \in Nat
          /\ \A k \in 1..n : q[k] = p[k]
      <3>1. p \in Seq(N) /\ c \in N BY DEF Path
      <3> HIDE DEF N
      <3>2. Append(p, c) \in Seq(N) BY <3>1, AppendProperties
      <3> QED BY <3>1, <3>2, AppendProperties DEF N, Path
    <2> HIDE DEF q
    <2>2. PICK g : Places(g, p, n) /\ Normal(p) = g[n] BY NormalPlaces
    <2>3. PICK h : Places(h, q, n + 1) /\ Normal(q) = h[n + 1] BY <2>1, NormalPlaces
    <2> DEFINE T == {k \in 0..n : g[k] = h[k]}
    <2>4. 0 \in T BY <2>1, <2>2, <2>3 DEF Places
    <2>5. ASSUME NEW k \in 1..n, k - 1 \in T PROVE k \in T
      <3>1. k \in 1..(n + 1) /\ k \in 0..n /\ g[k - 1] = h[k - 1] BY <2>1, <2>5
      <3>2. g[k] = Step(g[k - 1], p[k]) /\ h[k] = Step(h[k - 1], q[k])
        BY <2>2, <2>3, <3>1 DEF Places
      <3> QED BY <2>1, <3>1, <3>2
    <2> HIDE DEF T
    <2>6. \A k \in 0..n : k \in T BY <2>1, <2>4, <2>5, UpTo
    <2>7. g[n] = h[n] BY <2>1, <2>6 DEF T
    <2>8. h[n + 1] = Step(h[n], c)
      <3>1. n + 1 \in 1..(n + 1) /\ (n + 1) - 1 = n BY <2>1
      <3> QED BY <2>1, <2>3, <3>1 DEF Places
    <2> QED BY <2>2, <2>3, <2>7, <2>8 DEF q
  <1> QED BY <1>1, <1>2

\* What a path leads to is a place.
LEMMA NormalType == ASSUME NEW p \in Path PROVE Normal(p) \in Path
  <1> DEFINE T == {q \in Path : Normal(q) \in Path}
             N == Seq(Symbols)
  <1>1. <<>> \in T
    <2>1. <<>> \in Path BY DEF Path
    <2> QED BY <2>1, NormalGrows
  <1>2. ASSUME NEW q \in Path, NEW c \in N, q \in T PROVE Append(q, c) \in T
    <2>1. Append(q, c) \in Path BY DEF Path
    <2>2. Normal(Append(q, c)) = Step(Normal(q), c) BY NormalGrows
    <2>3. Normal(q) \in Path BY <1>2
    <2> QED BY <2>1, <2>2, <2>3, StepType
  <1> HIDE DEF T, N
  <1>3. \A q \in Seq(N) : q \in T
    <2>1. \A q \in Seq(N), c \in N : q \in T => Append(q, c) \in T BY <1>2 DEF Path, N
    <2> QED BY <1>1, <2>1, ByAppending
  <1> QED BY <1>3 DEF T, N, Path

\* The segments of a text, as the lemmas about patterns speak of them.
LEMMA SegmentsSame == \A t : Segments(t) = Pieces!Segments(t)
  BY DEF Segments, Text!Segments, Text!Scan, Pieces!Segments, Pieces!Scan

\* A text has segments.
LEMMA SegmentsType == ASSUME NEW t \in Seq(Symbols) PROVE Segments(t) \in Path \ {<<>>}
  BY SegmentsSame, Pieces!SegmentsType DEF Path

\* weakly_canonical gives a path.
LEMMA CanonicalType == ASSUME NEW p \in Path PROVE Canonical(p) \in Path
  <1>1. Normal(p) \in Path BY NormalType
  <1>2. Append(Normal(p), <<>>) \in Path BY <1>1 DEF Path
  <1> QED BY <1>1, <1>2 DEF Canonical

\* The path of a target is text.
LEMMA PathOfType ==
  ASSUME NEW t \in Seq(Symbols)
  PROVE  PathOf(t).decoded \in Seq(Symbols) /\ PathOf(t).encoded \in Seq(Symbols)
  <1> DEFINE I == {i \in 1..Len(t) : t[i] = "?"}
             k == IF I # {} THEN Min(I) ELSE 0
             encoded == IF k = 0 THEN t ELSE SubSeq(t, 1, k - 1)
             decoded == [i \in DOMAIN encoded |->
                           IF encoded[i] = "%2F" THEN "/" ELSE encoded[i]]
  <1>1. PathOf(t) = [encoded |-> encoded, decoded |-> decoded]
    BY DEF PathOf, SelectInSeq
  <1>2. k \in 0..Len(t)
    <2>1. CASE I # {}
      <3>1. \E m \in I : \A i \in I : m <= i
        <4>1. I \subseteq Nat OBVIOUS
        <4> HIDE DEF I
        <4> QED BY <2>1, <4>1, LeastNumber
      <3> QED BY SMTT(30), <2>1, <3>1 DEF Min
    <2> QED BY <2>1
  <1> HIDE DEF k
  <1>3. encoded \in Seq(Symbols)
    <2>1. SubSeq(t, 1, k - 1) \in Seq(Symbols)
      <3>1. \A i \in 1..(k - 1) : t[i] \in Symbols BY <1>2
      <3>2. k - 1 \in Int /\ 1 \in Int BY <1>2
      <3> QED BY <3>1, <3>2, SubSeqProperties
    <2> QED BY <2>1
  <1> HIDE DEF encoded
  <1>4. decoded \in Seq(Symbols)
    <2>1. /\ Len(encoded) \in Nat /\ DOMAIN encoded = 1..Len(encoded)
          /\ \A i \in 1..Len(encoded) : encoded[i] \in Symbols
      BY <1>3
    <2>2. \A i \in 1..Len(encoded) :
            (IF encoded[i] = "%2F" THEN "/" ELSE encoded[i]) \in Symbols
      <3> TAKE i \in 1..Len(encoded)
      <3>1. encoded[i] \in Symbols BY <2>1
      <3>2. "/" \in Symbols BY SiteAssumption
      <3> QED BY <3>1, <3>2, Zenon
    <2>3. decoded \in [1..Len(encoded) -> Symbols] BY <2>1, <2>2
    <2> QED BY <2>1, <2>3, SeqDef
  <1> QED BY <1>1, <1>3, <1>4

\* A name that is looked up has a type of the table, or the default one.
LEMMA MimeTypeType == \A p : mime_type(p) \in ContentTypes
  <1> TAKE p
  <1>1. ASSUME NEW e PROVE OrDefault(Find(mime_types, e)) \in ContentTypes
    <2>1. CASE Find(mime_types, e) = {}
      BY <2>1 DEF OrDefault, ContentTypes
    <2>2. CASE Find(mime_types, e) # {}
      <3>1. e[2] \in DOMAIN MIME_TYPES /\ Find(mime_types, e) = {MIME_TYPES[e[2]]}
        <4> HIDE DEF MIME_TYPES
        <4> QED BY <2>2 DEF Find, mime_types
      <3>2. OrDefault(Find(mime_types, e)) = MIME_TYPES[e[2]]
        BY <3>1 DEF OrDefault
      <3> QED BY <3>1, <3>2 DEF ContentTypes, ToSet
    <2> QED BY <2>1, <2>2
  <1>2. OrDefault({}) \in ContentTypes BY DEF OrDefault, ContentTypes
  <1> QED BY <1>1, <1>2 DEF mime_type

-----------------------------------------------------------------------------
(* Types.                                                                  *)

\* What the handlers answer is a response.
LEMMA Answers ==
  /\ error("bad_request") \in Responses /\ error("forbidden") \in Responses
  /\ error("not_found") \in Responses
  /\ error("internal_server_error") \in Responses
  /\ [status |-> "ok", content_type |-> TypeOfBody] \in Responses
  <1>1. TypeOfBody \in ContentTypes BY MimeTypeType DEF TypeOfBody
  <1>2. {"bad_request", "forbidden", "not_found", "internal_server_error"}
          \subseteq Http!Statuses \ {"ok"}
    BY DEF Http!Statuses
  <1> QED BY <1>1, <1>2 DEF Responses

\* What the configuration and its routes are made of.
LEMMA RouteTypes ==
  ASSUME TypeOK
  PROVE  /\ config \in Seq(Routes) /\ Len(config) \in Nat
         /\ \A i \in 1..Len(config) : config[i] \in Routes
         /\ \A i \in 1..Len(config) : config[i] \in ToSet(config)
         /\ chosen # NoRoute => chosen \in Routes /\ chosen.root \in Path
  <1>1. config \in Seq(Routes) BY SiteAssumption DEF TypeOK
  <1>2. /\ Len(config) \in Nat /\ DOMAIN config = 1..Len(config)
        /\ \A i \in 1..Len(config) : config[i] \in Routes
    BY <1>1
  <1>3. chosen # NoRoute => chosen \in Routes BY <1>2 DEF TypeOK, ToSet
  <1> QED BY <1>1, <1>2, <1>3 DEF ToSet, Routes, Path

\* A route of the table is registered.
LEMMA LoadTypes == ASSUME TypeOK, LoadRoute PROVE TypeOK'
  <1> DEFINE r == config[loaded + 1]
  <1>1. loaded + 1 \in 1..Len(config) /\ r \in ToSet(config)
    BY RouteTypes DEF TypeOK, LoadRoute
  <1>2. ToSet(table') \subseteq ToSet(table) \cup {r}
    BY DEF LoadRoute, AssignedIn, ToSet
  <1> QED BY <1>1, <1>2 DEF LoadRoute, system, TypeOK

\* The symbols a target is matched by.
LEMMA MatchedType ==
  ASSUME NEW t \in Targets \cup {<<>>}
  PROVE  /\ t \in Seq(Symbols)
         /\ (IF Parses(t) THEN PathOf(t).decoded ELSE t) \in Seq(Symbols)
  <1>1. t \in Seq(Symbols)
    <2>1. <<>> \in Seq(Symbols) BY EmptySeq
    <2> QED BY <2>1, SiteAssumption
  <1> QED BY <1>1, PathOfType

\* The path a request is resolved to.
LEMMA JoinedType == ASSUME TypeOK PROVE Joined \in Path
  <1> DEFINE decoded == PathOf(target).decoded
             full == IF decoded = <<>> \/ Last(decoded) = "/"
                     THEN decoded \o Index ELSE decoded
             rel == IF Rooted(full) THEN Tail(full) ELSE full
  <1>1. decoded \in Seq(Symbols)
    BY PathOfType, MatchedType DEF TypeOK
  <1>2. base \in Path /\ Index \in Seq(Symbols)
    BY SiteAssumption DEF TypeOK, Path
  <1> HIDE DEF decoded
  <1>3. full \in Seq(Symbols) BY <1>1, <1>2
  <1> HIDE DEF full
  <1>4. rel \in Seq(Symbols) BY <1>3 DEF Rooted
  <1> HIDE DEF rel
  <1>5. Segments(rel) \in Path BY <1>4, SegmentsType
  <1>6. base \o Segments(rel) \in Path BY <1>2, <1>5 DEF Path
  <1> QED BY <1>5, <1>6 DEF Joined, decoded, full, rel

\* Among the prefixes in the table there is a longest one.
LEMMA LongestExists ==
  ASSUME TypeOK, TableInv, NEW p \in Seq(Symbols), Matching(p) # {}
  PROVE  \E q \in Matching(p) : \A o \in Matching(p) : Len(q) >= Len(o)
  <1> DEFINE n == Len(p)
             T == {Len(q) : q \in Matching(p)}
  <1>1. n \in Nat /\ \A q \in Matching(p) : Len(q) \in 0..n
    <2>1. \A q \in Matching(p) : q \in Seq(Symbols) /\ Len(q) <= n
      <3> TAKE q \in Matching(p)
      <3>1. q \in DOMAIN table /\ IsPrefix(q, p) BY DEF Matching
      <3>2. PICK i \in 1..loaded : q = config[i].path BY <3>1 DEF TableInv
      <3>3. config[i] \in Routes BY RouteTypes DEF TypeOK
      <3> QED BY <3>1, <3>2, <3>3 DEF Routes, IsPrefix
    <2> QED BY <2>1
  <1>2. T \subseteq 0..n /\ T # {} BY <1>1
  <1>3. PICK m \in T : \A k \in T : k <= m
    <2> HIDE DEF T, n
    <2> QED BY <1>1, <1>2, GreatestNumber
  <1>4. PICK q \in Matching(p) : m = Len(q) OBVIOUS
  <1> QED BY <1>1, <1>3, <1>4

\* The loop of process_request finds the last of the routes with the longest
\* of the paths that match.
LEMMA LongestServes ==
  ASSUME TypeOK, TableInv, loaded = Len(config), NEW p \in Seq(Symbols)
  PROVE  LET matches == {i \in DOMAIN config : IsPrefix(config[i].path, p)}
             Beats(i, j) == \/ Len(config[i].path) > Len(config[j].path)
                            \/ config[i].path = config[j].path /\ i >= j
         IN  IF matches = {} THEN LongestMatch(p) = NoRoute
             ELSE \E i \in matches : /\ LongestMatch(p) = config[i]
                                     /\ \A j \in matches : Beats(i, j)
  <1> DEFINE matches == {i \in DOMAIN config : IsPrefix(config[i].path, p)}
             Beats(i, j) == \/ Len(config[i].path) > Len(config[j].path)
                            \/ config[i].path = config[j].path /\ i >= j
  <1>1. /\ DOMAIN config = 1..loaded /\ loaded \in Nat
        /\ \A i \in 1..loaded : config[i] \in Routes /\ config[i].path \in Seq(Symbols)
    BY RouteTypes DEF Routes
  <1>2. \A q : q \in Matching(p) <=> \E i \in matches : config[i].path = q
    BY <1>1 DEF Matching, TableInv
  <1>3. CASE matches = {}
    <2>1. Matching(p) = {} BY <1>2, <1>3
    <2> QED BY <1>3, <2>1 DEF LongestMatch
  <1>4. CASE matches # {}
    <2>1. Matching(p) # {} BY <1>2, <1>4
    <2>2. PICK q \in Matching(p) :
            /\ \A o \in Matching(p) : Len(q) >= Len(o)
            /\ LongestMatch(p) = table[q]
      <3> DEFINE q == CHOOSE q \in Matching(p) :
                        \A o \in Matching(p) : Len(q) >= Len(o)
      <3>1. q \in Matching(p) /\ \A o \in Matching(p) : Len(q) >= Len(o)
        BY <2>1, LongestExists
      <3>2. LongestMatch(p) = table[q] BY <2>1 DEF LongestMatch
      <3> QED BY <3>1, <3>2
    <2>3. PICK i \in 1..loaded :
            /\ table[q] = config[i] /\ config[i].path = q
            /\ \A k \in 1..loaded : config[k].path = q => k <= i
      BY DEF Matching, TableInv
    <2>4. i \in matches BY <1>1, <2>3 DEF Matching
    <2>5. ASSUME NEW j \in matches PROVE Beats(i, j)
      <3> DEFINE o == config[j].path
      <3>1. /\ o \in Matching(p) /\ o \in Seq(Symbols) /\ q \in Seq(Symbols)
            /\ j \in 1..loaded /\ Len(o) <= Len(q)
        BY <1>1, <1>2, <2>2, <2>3
      <3>2. CASE Len(o) < Len(q) BY <2>3, <3>1, <3>2
      <3>3. CASE Len(o) = Len(q)
        <4>1. /\ SubSeq(o, 1, Len(o)) = SubSeq(p, 1, Len(o))
              /\ SubSeq(q, 1, Len(q)) = SubSeq(p, 1, Len(q))
          BY <3>1 DEF Matching, IsPrefix
        <4>2. SubSeq(o, 1, Len(o)) = o /\ SubSeq(q, 1, Len(q)) = q
          BY <3>1, SubSeqFull
        <4>3. o = q BY <3>3, <4>1, <4>2
        <4> QED BY <2>3, <3>1, <4>3
      <3> QED BY <3>1, <3>2, <3>3
    <2> QED BY <1>4, <2>2, <2>3, <2>4, <2>5
  <1> QED BY <1>3, <1>4

\* A server that has registered no route yet has the types.
LEMMA InitTypes == Init => TypeOK
  BY SiteAssumption DEF Init, TypeOK, ToSet

\* Every step keeps the types.
LEMMA NextTypes == TypeOK /\ TableInv /\ [Next]_vars => TypeOK'
  <1> SUFFICES ASSUME TypeOK, TableInv, [Next]_vars PROVE TypeOK' OBVIOUS
  <1>1. CASE LoadRoute BY <1>1, LoadTypes
  <1>2. CASE Serve BY <1>2 DEF Serve, routing, system, TypeOK
  <1>3. ASSUME NEW t \in Targets, Dispatch(t) PROVE TypeOK'
    <2>1. chosen' \in ToSet(table) \cup {NoRoute}
      <3> DEFINE p == IF Parses(t) THEN PathOf(t).decoded ELSE t
      <3>1. p \in Seq(Symbols) BY MatchedType
      <3>2. chosen' = LongestMatch(p) BY <1>3 DEF Dispatch
      <3> HIDE DEF p
      <3>3. Matching(p) # {} => LongestMatch(p) \in ToSet(table)
        <4> SUFFICES ASSUME Matching(p) # {} PROVE LongestMatch(p) \in ToSet(table)
          OBVIOUS
        <4> DEFINE q == CHOOSE q \in Matching(p) :
                          \A o \in Matching(p) : Len(q) >= Len(o)
        <4>1. q \in Matching(p) BY <3>1, LongestExists
        <4>2. LongestMatch(p) = table[q] BY DEF LongestMatch
        <4> QED BY <4>1, <4>2 DEF Matching, ToSet
      <3> QED BY <3>2, <3>3 DEF LongestMatch
    <2>2. \/ chosen' = NoRoute /\ stage' = "answered"
             /\ response' = error("not_found")
          \/ chosen' # NoRoute /\ stage' = "parse" /\ UNCHANGED response
      BY <1>3 DEF Dispatch, Unmatched, Answer, GoOn
    <2> QED BY <1>3, <2>1, <2>2, Answers DEF Dispatch, TypeOK, routing, system
  <1>4. CASE Parse
    BY <1>4, Answers DEF Parse, Answer, GoOn, TypeOK, routing, system
  <1>5. CASE ResolveBase
    <2>1. BasePath(chosen.root) \in Path
      BY <1>5, RouteTypes, CanonicalType DEF ResolveBase, BasePath, TypeOK
    <2> QED
      BY <1>5, <2>1, Answers
         DEF ResolveBase, Answer, GoOn, TypeOK, routing, system, Path
  <1>6. CASE ResolveTarget
    <2>1. path' \in Path
      BY <1>6, JoinedType, CanonicalType DEF ResolveTarget
    <2> QED
      BY <1>6, <2>1, Answers
         DEF ResolveTarget, Answer, GoOn, TypeOK, routing, system, Path
  <1>7. CASE OpenBody
    BY <1>7, Answers DEF OpenBody, Answer, TypeOK, routing, system
  <1>8. CASE Written BY <1>8 DEF Written, TypeOK, routing, system
  <1>9. CASE Change
    BY <1>9, SiteAssumption DEF Change, TypeOK, routing
  <1>10. CASE UNCHANGED vars
    BY <1>10 DEF vars, TypeOK, routing, system
  <1> QED
    BY <1>1, <1>2, <1>3, <1>4, <1>5, <1>6, <1>7, <1>8, <1>9, <1>10
       DEF Next, Handle

-----------------------------------------------------------------------------
(* Dispatch.                                                               *)

\* The table changes with a route that is registered only.
LEMMA NextTable == TypeOK /\ TableInv /\ [Next]_vars => TableInv'
  <1> SUFFICES ASSUME TypeOK, TableInv, [Next]_vars PROVE TableInv' OBVIOUS
  <1>1. CASE LoadRoute
    <2> DEFINE r == config[loaded + 1]
    <2>1. /\ loaded \in Nat /\ loaded' = loaded + 1 /\ loaded + 1 \in 1..Len(config)
          /\ config' = config /\ stage' = stage /\ stage = "loading"
          /\ 1..loaded' = 1..loaded \cup {loaded + 1}
      BY <1>1, RouteTypes DEF LoadRoute, TypeOK
    <2>2. /\ DOMAIN table' = DOMAIN table \cup {r.path}
          /\ \A q \in DOMAIN table' : table'[q] = IF q = r.path THEN r ELSE table[q]
      BY <1>1 DEF LoadRoute, AssignedIn
    <2>3. DOMAIN table' = {config'[i].path : i \in 1..loaded'}
      BY <2>1, <2>2 DEF TableInv
    <2>4. ASSUME NEW q \in DOMAIN table'
          PROVE  \E i \in 1..loaded' :
                   /\ table'[q] = config'[i] /\ config'[i].path = q
                   /\ \A k \in 1..loaded' : config'[k].path = q => k <= i
      <3>1. CASE q = r.path BY <2>1, <2>2, <3>1
      <3>2. CASE q # r.path
        <4>1. q \in DOMAIN table /\ table'[q] = table[q] BY <2>2, <3>2
        <4>2. PICK i \in 1..loaded :
                /\ table[q] = config[i] /\ config[i].path = q
                /\ \A k \in 1..loaded : config[k].path = q => k <= i
          BY <4>1 DEF TableInv
        <4> QED BY <2>1, <3>2, <4>1, <4>2
      <3> QED BY <3>1, <3>2
    <2> QED BY <2>1, <2>3, <2>4 DEF TableInv
  <1>2. CASE Serve BY <1>2 DEF Serve, routing, TableInv
  <1>3. ASSUME UNCHANGED routing, stage # "loading" \/ stage' = stage
        PROVE  TableInv'
    BY <1>3 DEF routing, TableInv
  <1>4. ASSUME NEW t \in Targets, Dispatch(t) PROVE TableInv'
    BY <1>3, <1>4 DEF Dispatch
  <1>5. CASE Handle \/ Written
    BY <1>3, <1>5 DEF Handle, Parse, ResolveBase, ResolveTarget, OpenBody, Written
  <1>6. CASE Change BY <1>3, <1>6 DEF Change
  <1>7. CASE UNCHANGED vars BY <1>3, <1>7 DEF vars
  <1> QED BY <1>1, <1>2, <1>4, <1>5, <1>6, <1>7 DEF Next

\* A request goes to its route when it is dispatched and stays there.
LEMMA NextChosen ==
  TypeOK /\ TableInv /\ LongestPrefixServes /\ [Next]_vars => LongestPrefixServes'
  <1> SUFFICES ASSUME TypeOK, TableInv, LongestPrefixServes, [Next]_vars
      PROVE  LongestPrefixServes'
    OBVIOUS
  <1>1. ASSUME NEW t \in Targets, Dispatch(t) PROVE LongestPrefixServes'
    <2> DEFINE p == IF Parses(t) THEN PathOf(t).decoded ELSE t
    <2>1. p \in Seq(Symbols) BY MatchedType
    <2>2. /\ config' = config /\ target' = t /\ chosen' = LongestMatch(p)
          /\ loaded = Len(config)
      BY <1>1 DEF Dispatch, routing, TableInv
    <2>3. (IF Parses(target') THEN PathOf(target').decoded ELSE target') = p
      BY <2>2
    <2> HIDE DEF p
    <2> QED BY <2>1, <2>2, <2>3, LongestServes DEF LongestPrefixServes
  <1>2. ASSUME UNCHANGED <<config, target, chosen>>,
               stage' \in {"loading", "idle"} \/ stage \notin {"loading", "idle"}
        PROVE  LongestPrefixServes'
    BY <1>2 DEF LongestPrefixServes
  <1>3. CASE LoadRoute BY <1>2, <1>3 DEF LoadRoute
  <1>4. CASE Serve BY <1>2, <1>4 DEF Serve, routing
  <1>5. CASE Handle
    BY <1>2, <1>5 DEF Handle, Parse, ResolveBase, ResolveTarget, OpenBody, routing
  <1>6. CASE Written
    BY <1>6 DEF Written, LongestPrefixServes
  <1>7. CASE Change
    BY <1>7, <1>2 DEF Change, routing
  <1>8. CASE UNCHANGED vars BY <1>8, <1>2 DEF vars, routing
  <1> QED BY <1>1, <1>3, <1>4, <1>5, <1>6, <1>7, <1>8 DEF Next

-----------------------------------------------------------------------------
(* The root of the route.                                                  *)

\* The canonical form of a root goes on where the place it leads to ends.
LEMMA CanonicalBelow ==
  ASSUME NEW p \in Path PROVE IsPrefix(Normal(p), Canonical(p))
  <1> DEFINE n == Normal(p)
  <1>1. n \in Path BY NormalType
  <1> HIDE DEF n
  <1>2. IsPrefix(n, n) BY <1>1 DEF IsPrefix, Path
  <1>3. IsPrefix(n, Append(n, <<>>))
    <2>1. /\ Append(n, <<>>) \in Seq(Seq(Symbols)) /\ Len(Append(n, <<>>)) = Len(n) + 1
          /\ \A i \in 1..Len(n) : Append(n, <<>>)[i] = n[i]
      BY <1>1 DEF Path
    <2>2. SubSeq(n, 1, Len(n)) = SubSeq(Append(n, <<>>), 1, Len(n))
      BY <1>1, <2>1 DEF Path
    <2> QED BY <1>1, <2>1, <2>2 DEF IsPrefix, Path
  <1> QED BY <1>2, <1>3 DEF Canonical, n

\* What lies below a path that lies below another one lies below that.
LEMMA PrefixOfPrefix ==
  ASSUME NEW p \in Path, NEW q \in Path, NEW r \in Path,
         IsPrefix(p, q), IsPrefix(q, r)
  PROVE  IsPrefix(p, r)
  <1>1. /\ Len(p) \in Nat /\ Len(q) \in Nat /\ Len(r) \in Nat
        /\ Len(p) <= Len(q) /\ Len(q) <= Len(r)
    BY DEF Path, IsPrefix
  <1>2. ASSUME NEW i \in 1..Len(p) PROVE p[i] = r[i]
    <2>1. SubSeq(p, 1, Len(p))[i] = p[i] /\ SubSeq(q, 1, Len(p))[i] = q[i]
      BY SMTT(30), <1>1 DEF Path
    <2>2. SubSeq(q, 1, Len(q))[i] = q[i] /\ SubSeq(r, 1, Len(q))[i] = r[i]
      BY <1>1 DEF Path
    <2> QED BY <2>1, <2>2 DEF IsPrefix
  <1>3. SubSeq(p, 1, Len(p)) = SubSeq(r, 1, Len(p)) BY <1>1, <1>2 DEF Path
  <1> QED BY <1>1, <1>3 DEF IsPrefix

\* A base is resolved from the root, a target is compared with the base.
LEMMA NextRoot == TypeOK /\ RootInv /\ [Next]_vars => RootInv'
  <1> SUFFICES ASSUME TypeOK, RootInv, [Next]_vars PROVE RootInv' OBVIOUS
  <1>1. ASSUME UNCHANGED <<chosen, base, path, body>>, body = "none" \/ stage' = stage,
               stage' \in {"path", "open"} => stage' = stage
        PROVE  RootInv'
    BY <1>1 DEF RootInv
  <1>2. CASE LoadRoute BY <1>1, <1>2 DEF LoadRoute
  <1>3. CASE Serve BY <1>1, <1>3 DEF Serve, RootInv
  <1>4. ASSUME NEW t \in Targets, Dispatch(t) PROVE RootInv'
    BY <1>4 DEF Dispatch, Answer, GoOn, RootInv
  <1>5. CASE Parse BY <1>1, <1>5 DEF Parse, Answer, GoOn, RootInv
  <1>6. CASE ResolveBase
    <2>1. /\ stage = "base" /\ UNCHANGED <<chosen, path, body>> /\ body = "none"
          /\ \/ stage' = "answered"
             \/ stage' = "path" /\ base' = Canonical(chosen.root)
      BY <1>6 DEF ResolveBase, Answer, GoOn, BasePath, RootInv
    <2>2. chosen.root \in Path BY <2>1, RouteTypes DEF TypeOK
    <2> QED BY <2>1, <2>2, CanonicalBelow DEF RootInv
  <1>7. CASE ResolveTarget
    <2>1. /\ stage = "path" /\ UNCHANGED <<chosen, base, body>> /\ body = "none"
          /\ path' = Canonical(Joined)
          /\ \/ stage' \in {"answered", "crashed"}
             \/ stage' = "open" /\ IsPrefix(base, path')
      BY <1>7 DEF ResolveTarget, Answer, GoOn, Confined, RootInv
    <2>2. /\ Normal(chosen.root) \in Path /\ base \in Path /\ path' \in Path
          /\ IsPrefix(Normal(chosen.root), base)
      BY <2>1, RouteTypes, NormalType, JoinedType, CanonicalType
         DEF TypeOK, RootInv, Path
    <2> QED BY <2>1, <2>2, PrefixOfPrefix DEF RootInv
  <1>8. CASE OpenBody BY <1>8 DEF OpenBody, Answer, RootInv
  <1>9. CASE Written BY <1>9 DEF Written, RootInv
  <1>10. CASE Change BY <1>1, <1>10 DEF Change
  <1>11. CASE UNCHANGED vars BY <1>1, <1>11 DEF vars
  <1> QED
    BY <1>2, <1>3, <1>4, <1>5, <1>6, <1>7, <1>8, <1>9, <1>10, <1>11
       DEF Next, Handle

-----------------------------------------------------------------------------
(* What is there.                                                          *)

\* No component that a normal path would not have.
Clean(p) == \A i \in 1..Len(p) : p[i] \notin {<<>>, <<".">>, <<"..">>}

\* One component more.
LEMMA OneMore ==
  ASSUME NEW p \in Path, NEW c \in Seq(Symbols)
  PROVE  /\ Append(p, c) \in Path /\ Len(Append(p, c)) = Len(p) + 1
         /\ Append(p, c)[Len(p) + 1] = c
         /\ \A i \in 1..Len(p) : Append(p, c)[i] = p[i]
         /\ Len(p) \in Nat
  <1> DEFINE N == Seq(Symbols)
  <1>1. p \in Seq(N) /\ c \in N BY DEF Path
  <1> HIDE DEF N
  <1>2. Append(p, c) \in Seq(N) BY <1>1, AppendProperties
  <1> QED BY <1>1, <1>2, AppendProperties DEF N, Path

\* A place is a normal path.
LEMMA NormalClean == ASSUME NEW p \in Path PROVE Clean(Normal(p))
  <1> DEFINE T == {q \in Path : Clean(Normal(q))}
             N == Seq(Symbols)
  <1>1. <<>> \in T
    <2>1. <<>> \in Path BY DEF Path
    <2>2. Clean(<<>>) BY DEF Clean
    <2> QED BY <2>1, <2>2, NormalGrows
  <1>2. ASSUME NEW q \in Path, NEW c \in N, q \in T PROVE Append(q, c) \in T
    <2> DEFINE n == Normal(q)
    <2>1. Append(q, c) \in Path /\ Normal(Append(q, c)) = Step(n, c)
      BY OneMore, NormalGrows
    <2>2. n \in Path /\ Clean(n) BY <1>2, NormalType
    <2> HIDE DEF n
    <2>3. Clean(Step(n, c))
      <3>1. CASE c \in {<<>>, <<".">>}
        <4>1. Step(n, c) = n BY <3>1, StepStays
        <4> QED BY <2>2, <4>1
      <3>2. CASE c = <<"..">>
        <4>1. c \notin {<<>>, <<".">>} BY <3>2
        <4>2. Step(n, c) = IF n = <<>> THEN <<>> ELSE Front(n)
          BY <3>2, <4>1 DEF Step
        <4>3. Clean(<<>>) BY DEF Clean
        <4>4. n # <<>> => Clean(Front(n))
          <5> SUFFICES ASSUME n # <<>> PROVE Clean(Front(n)) OBVIOUS
          <5>1. Len(n) \in Nat /\ Len(n) - 1 \in Nat BY <2>2 DEF Path
          <5>2. /\ Len(Front(n)) = Len(n) - 1
                /\ \A i \in 1..(Len(n) - 1) : Front(n)[i] = n[i]
            <6> DEFINE k == Len(n) - 1
            <6>1. n \in Seq(N) /\ k \in Nat /\ k + 1 = Len(n) BY <2>2, <5>1 DEF Path
            <6>2. Front(n) = SubSeq(n, 1, k) BY DEF Front
            <6> HIDE DEF N, k
            <6>3. \A i \in 1..k : n[i] \in N BY <6>1
            <6>4. /\ Len(SubSeq(n, 1, k)) = IF 1 <= k THEN k - 1 + 1 ELSE 0
                  /\ \A i \in 1..(k - 1 + 1) : SubSeq(n, 1, k)[i] = n[1 + i - 1]
              BY <6>1, <6>3, SubSeqProperties
            <6>5. Len(SubSeq(n, 1, k)) = k /\ \A i \in 1..k : SubSeq(n, 1, k)[i] = n[i]
              BY <6>1, <6>4
            <6> QED BY <6>2, <6>5 DEF k
          <5> QED BY <2>2, <5>1, <5>2 DEF Clean
        <4> QED BY <4>2, <4>3, <4>4
      <3>3. CASE c \notin {<<>>, <<".">>, <<"..">>}
        <4>1. Step(n, c) = Append(n, c) BY <3>3 DEF Step
        <4> QED BY <2>2, <3>3, <4>1, OneMore DEF Clean
      <3> QED BY <3>1, <3>2, <3>3
    <2> QED BY <2>1, <2>3 DEF n
  <1> HIDE DEF T, N
  <1>3. \A q \in Seq(N) : q \in T
    <2>1. \A q \in Seq(N), c \in N : q \in T => Append(q, c) \in T BY <1>2 DEF Path, N
    <2> QED BY <1>1, <2>1, ByAppending
  <1> QED BY <1>3 DEF T, N, Path

\* A normal path leads where it says.
LEMMA CleanNormal == ASSUME NEW p \in Path, Clean(p) PROVE Normal(p) = p
  <1> DEFINE T == {q \in Path : Clean(q) => Normal(q) = q}
             N == Seq(Symbols)
  <1>1. <<>> \in T
    <2>1. <<>> \in Path BY DEF Path
    <2> QED BY <2>1, NormalGrows
  <1>2. ASSUME NEW q \in Path, NEW c \in N, q \in T PROVE Append(q, c) \in T
    <2>1. Append(q, c) \in Path BY OneMore
    <2> SUFFICES ASSUME Clean(Append(q, c)) PROVE Normal(Append(q, c)) = Append(q, c)
      BY <2>1
    <2>2. Clean(q) /\ c \notin {<<>>, <<".">>, <<"..">>}
      BY OneMore DEF Clean
    <2>3. Normal(q) = q BY <1>2, <2>2
    <2>4. Step(q, c) = Append(q, c) BY <2>2 DEF Step
    <2>5. Normal(Append(q, c)) = Step(Normal(q), c) BY NormalGrows
    <2> QED BY <2>3, <2>4, <2>5
  <1> HIDE DEF T, N
  <1>3. \A q \in Seq(N) : q \in T
    <2>1. \A q \in Seq(N), c \in N : q \in T => Append(q, c) \in T BY <1>2 DEF Path, N
    <2> QED BY <1>1, <2>1, ByAppending
  <1> QED BY <1>3 DEF T, N, Path

\* What a target without an escaped slash has up to its query: a slash and
\* the rest.
LEMMA EncodedIs ==
  ASSUME NEW t \in Seq(Symbols), Parses(t), "%2F" \notin ToSet(PathOf(t).encoded)
  PROVE  /\ PathOf(t).decoded = PathOf(t).encoded
         /\ \E u \in Seq(Symbols) : PathOf(t).encoded = <<"/">> \o u
  <1> DEFINE I == {i \in 1..Len(t) : t[i] = "?"}
             k == IF I # {} THEN Min(I) ELSE 0
             encoded == IF k = 0 THEN t ELSE SubSeq(t, 1, k - 1)
             decoded == [i \in DOMAIN encoded |->
                           IF encoded[i] = "%2F" THEN "/" ELSE encoded[i]]
  <1>1. PathOf(t) = [encoded |-> encoded, decoded |-> decoded]
    BY DEF PathOf, SelectInSeq
  <1>2. Len(t) \in Nat /\ Len(t) >= 1 /\ t[1] = "/"
    BY DEF Parses, Rooted
  <1>3. k = 0 \/ k \in 2..Len(t)
    <2>1. CASE I # {}
      <3>1. \E m \in I : \A i \in I : m <= i
        <4>1. I \subseteq Nat OBVIOUS
        <4> HIDE DEF I
        <4> QED BY <2>1, <4>1, LeastNumber
      <3>2. Min(I) \in I BY <3>1 DEF Min
      <3>3. 1 \notin I BY <1>2
      <3>4. \A i \in I : i \in 1..Len(t) OBVIOUS
      <3> HIDE DEF I
      <3> QED BY <1>2, <2>1, <3>2, <3>3, <3>4
    <2> QED BY <2>1
  <1> HIDE DEF k
  <1>4. encoded \in Seq(Symbols) /\ Len(encoded) >= 1 /\ encoded[1] = "/"
    <2>1. CASE k = 0 BY <1>2, <2>1
    <2>2. CASE k \in 2..Len(t)
      <3>1. \A i \in 1..(k - 1) : t[i] \in Symbols BY <1>2, <2>2
      <3>2. k - 1 \in Int /\ 1 \in Int /\ k - 1 >= 1 BY <1>2, <2>2
      <3>3. /\ SubSeq(t, 1, k - 1) \in Seq(Symbols)
            /\ Len(SubSeq(t, 1, k - 1)) = k - 1
            /\ SubSeq(t, 1, k - 1)[1] = t[1]
        BY <3>1, <3>2, SubSeqProperties
      <3> QED BY <1>2, <2>2, <3>2, <3>3
    <2> QED BY <1>3, <2>1, <2>2
  <1> HIDE DEF encoded
  <1>5. decoded = encoded
    <2>1. \A i \in DOMAIN encoded : encoded[i] # "%2F"
      BY <1>1 DEF ToSet
    <2>2. encoded = [i \in DOMAIN encoded |-> encoded[i]] BY <1>4
    <2> QED BY <2>1, <2>2
  <1>6. PICK u \in Seq(Symbols) : encoded = <<"/">> \o u
    <2>1. Tail(encoded) \in Seq(Symbols) BY <1>4
    <2>2. <<"/">> \in Seq(Symbols) BY SiteAssumption
    <2>3. encoded = <<"/">> \o Tail(encoded) BY <1>4, <2>1, <2>2
    <2> QED BY <2>1, <2>3
  <1> HIDE DEF decoded
  <1> QED BY <1>1, <1>5, <1>6

\* The segments of a plain target: names, and an empty one at most at the end.
LEMMA PlainIs ==
  ASSUME NEW t \in Seq(Symbols), Plain(t)
  PROVE  \E u \in Seq(Symbols), f \in Path, l \in Seq(Symbols) :
           /\ PathOf(t).encoded = <<"/">> \o u /\ PathOf(t).decoded = <<"/">> \o u
           /\ Pieces!Cut(u, f, l)
           /\ Tail(Segments(PathOf(t).encoded)) = Append(f, l)
           /\ Clean(f) /\ l \notin {<<".">>, <<"..">>}
           /\ ~Rooted(u)
  <1> DEFINE encoded == PathOf(t).encoded
             N == Seq(Symbols)
             s == Segments(encoded)
  <1>1. Parses(t) /\ "%2F" \notin ToSet(encoded) BY DEF Plain
  <1>2. PICK u \in N : encoded = <<"/">> \o u /\ PathOf(t).decoded = encoded
    BY <1>1, EncodedIs
  <1>3. PICK f \in Seq(N), l \in N : Pieces!Cut(u, f, l)
    BY <1>2, Pieces!CutExists
  <1>4. Pieces!Cut(<<"/">> \o u, << <<>> >> \o f, l)
    BY <1>2, <1>3, SiteAssumption, Pieces!CutAfterSlash
  <1>5. s = Append(<< <<>> >> \o f, l)
    BY <1>2, <1>4, SegmentsSame DEF Pieces!Cut
  <1>6. \A i \in DOMAIN s : s[i] \in {<<>>, <<".">>, <<"..">>} =>
                              s[i] = <<>> /\ i \in {1, Len(s)}
    BY DEF Plain, IsName
  <1>7. <<>> \in N OBVIOUS
  <1> HIDE DEF encoded, N, s
  <1>8. /\ f \in Seq(N) /\ l \in N /\ Len(f) \in Nat
        /\ << <<>> >> \o f \in Seq(N) /\ Len(<< <<>> >> \o f) = Len(f) + 1
        /\ \A i \in 1..Len(f) : (<< <<>> >> \o f)[i + 1] = f[i]
    BY <1>3, <1>7
  <1>9. /\ s \in Seq(N) /\ Len(s) = Len(f) + 2 /\ s[Len(f) + 2] = l
        /\ \A i \in 1..Len(f) : s[i + 1] = f[i]
    <2>1. /\ Len(s) = Len(f) + 2 /\ s[Len(f) + 2] = l /\ s \in Seq(N)
          /\ \A i \in 1..(Len(f) + 1) : s[i] = (<< <<>> >> \o f)[i]
      BY <1>5, <1>8, AppendProperties
    <2>2. \A i \in 1..Len(f) : i + 1 \in 1..(Len(f) + 1) BY <1>8
    <2> QED BY <1>8, <2>1, <2>2
  <1>10. Tail(s) = Append(f, l)
    <2>1. /\ Tail(s) \in Seq(N) /\ Len(Tail(s)) = Len(f) + 1
          /\ \A i \in 1..(Len(f) + 1) : Tail(s)[i] = s[i + 1]
      BY <1>8, <1>9
    <2>2. /\ Append(f, l) \in Seq(N) /\ Len(Append(f, l)) = Len(f) + 1
          /\ Append(f, l)[Len(f) + 1] = l
          /\ \A i \in 1..Len(f) : Append(f, l)[i] = f[i]
      BY <1>8, AppendProperties
    <2>3. ASSUME NEW i \in 1..(Len(f) + 1) PROVE Tail(s)[i] = Append(f, l)[i]
      <3>1. CASE i = Len(f) + 1
        <4>1. i + 1 = Len(f) + 2 BY <1>8, <3>1
        <4> QED BY <1>9, <2>1, <2>2, <3>1, <4>1
      <3>2. CASE i # Len(f) + 1
        <4>1. i \in 1..Len(f) BY <1>8, <3>2
        <4> QED BY <1>9, <2>1, <2>2, <4>1
      <3> QED BY <3>1, <3>2
    <2> QED BY <2>1, <2>2, <2>3, SeqEqual
  <1>11. Clean(f)
    <2> SUFFICES ASSUME NEW i \in 1..Len(f) PROVE f[i] \notin {<<>>, <<".">>, <<"..">>}
      BY DEF Clean
    <2>1. i + 1 \in DOMAIN s /\ i + 1 \notin {1, Len(s)} BY <1>8, <1>9
    <2> QED BY <1>6, <1>9, <2>1
  <1>12. l \notin {<<".">>, <<"..">>}
    <2>1. Len(s) \in DOMAIN s /\ s[Len(s)] = l BY <1>8, <1>9
    <2>2. l \in {<<".">>, <<"..">>} => l = <<>> BY <1>6, <2>1
    <2>3. <<".">> # <<>> /\ <<"..">> # <<>> OBVIOUS
    <2> QED BY <2>2, <2>3
  <1>13. ~Rooted(u)
    <2> SUFFICES ASSUME Rooted(u) PROVE FALSE OBVIOUS
    <2>1. PICK v \in N : u = <<"/">> \o v
      <3>1. u \in Seq(Symbols) /\ u # <<>> /\ u[1] = "/" BY DEF Rooted, N
      <3>2. Tail(u) \in Seq(Symbols) /\ <<"/">> \in Seq(Symbols)
        BY <3>1, SiteAssumption
      <3>3. u = <<"/">> \o Tail(u) BY <3>1, <3>2
      <3> QED BY <3>2, <3>3 DEF N
    <2>2. PICK g \in Seq(N), m \in N : Pieces!Cut(v, g, m)
      BY <2>1, Pieces!CutExists DEF N
    <2>3. Pieces!Cut(u, << <<>> >> \o g, m)
      BY <2>1, <2>2, SiteAssumption, Pieces!CutAfterSlash DEF N
    <2>4. << <<>> >> \o g \in Seq(N) /\ Len(<< <<>> >> \o g) \in Nat \ {0}
          /\ (<< <<>> >> \o g)[1] = <<>>
      BY <1>7, <2>2
    <2>5. f = << <<>> >> \o g
      BY <1>3, <1>8, <2>2, <2>3, <2>4, Pieces!CutUnique DEF N
    <2>6. 1 \in 1..Len(f) /\ f[1] = <<>> BY <2>4, <2>5
    <2> QED BY <1>11, <2>6 DEF Clean
  <1> QED BY <1>2, <1>3, <1>8, <1>10, <1>11, <1>12, <1>13 DEF encoded, N, s, Path

\* A plain target leads to its file below the root.
LEMMA JoinedIs ==
  ASSUME TypeOK, Undisturbed, base = Normal(chosen.root)
  PROVE  /\ Joined = Named
         /\ \E names \in Path \ {<<>>} : Named = base \o names /\ Clean(names)
  <1> DEFINE N == Seq(Symbols)
             encoded == PathOf(target).encoded
  <1>1. /\ target \in N /\ Plain(target) /\ IsName(Index) /\ base \in Seq(N)
        /\ Index \in N
    BY MatchedType, SiteAssumption DEF Undisturbed, TypeOK
  <1>2. PICK u \in N, f \in Path, l \in N :
          /\ encoded = <<"/">> \o u /\ PathOf(target).decoded = <<"/">> \o u
          /\ Pieces!Cut(u, f, l)
          /\ Tail(Segments(encoded)) = Append(f, l)
          /\ Clean(f) /\ l \notin {<<".">>, <<"..">>}
          /\ ~Rooted(u)
    BY <1>1, PlainIs
  <1>3. f \in Seq(N) /\ <<>> \in N BY DEF Path
  <1>4. <<"/">> \in N BY SiteAssumption
  <1>5. l = <<>> <=> u = <<>> \/ u[Len(u)] = "/"
    BY <1>2, <1>3, Pieces!CutLast
  <1> DEFINE decoded == <<"/">> \o u
             full == IF decoded = <<>> \/ Last(decoded) = "/"
                     THEN decoded \o Index ELSE decoded
             w == IF l = <<>> THEN Index ELSE <<>>
             rel == u \o w
  <1>6. decoded # <<>> /\ (Last(decoded) = "/" <=> l = <<>>)
    <2>1. /\ decoded \in N /\ Len(u) \in Nat /\ Len(decoded) = Len(u) + 1
          /\ decoded[1] = "/" /\ \A i \in 1..Len(u) : decoded[i + 1] = u[i]
      BY <1>2, <1>4
    <2>2. CASE u = <<>> BY <1>5, <2>1, <2>2 DEF Last
    <2>3. CASE u # <<>>
      <3>1. Len(u) \in 1..Len(u) BY <1>2, <2>1, <2>3
      <3>2. Last(decoded) = u[Len(u)] BY <2>1, <3>1 DEF Last
      <3> QED BY <1>5, <2>1, <2>3, <3>2
    <2> QED BY <2>2, <2>3
  <1>7. w \in N /\ rel \in N
    <2>1. w \in N BY <1>1, <1>3
    <2> HIDE DEF w
    <2> QED BY <2>1, ConcatProperties
  <1>8. full = <<"/">> \o rel
    <2>1. CASE l = <<>>
      <3>1. full = decoded \o Index /\ rel = u \o Index BY <1>6, <2>1
      <3>2. decoded \o Index = <<"/">> \o (u \o Index)
        BY <1>1, <1>2, <1>4, ConcatAssociative
      <3> QED BY <3>1, <3>2
    <2>2. CASE l # <<>>
      <3>1. full = decoded /\ rel = u \o <<>> BY <1>6, <2>2
      <3>2. u \o <<>> = u BY <1>2, ConcatEmptySeq
      <3> QED BY <3>1, <3>2
    <2> QED BY <2>1, <2>2
  <1>9. Rooted(full) /\ Tail(full) = rel
    <2> HIDE DEF full, rel
    <2> QED BY <1>4, <1>7, <1>8 DEF Rooted
  <1>10. ~Rooted(rel)
    <2>1. CASE u = <<>>
      <3>1. l = <<>> /\ rel = Index BY <1>1, <1>5, <2>1
      <3>2. Index # <<>> => Head(Index) \in ToSet(Index) BY <1>1 DEF ToSet
      <3>3. "/" \notin ToSet(Index) BY <1>1 DEF IsName
      <3> QED BY <3>1, <3>2, <3>3 DEF Rooted
    <2>2. CASE u # <<>>
      <3>1. w \in Seq(Symbols) BY <1>7
      <3> HIDE DEF w
      <3>2. Head(rel) = Head(u) BY <1>2, <2>2, <3>1
      <3> QED BY <1>2, <2>2, <3>2 DEF Rooted
    <2> QED BY <2>1, <2>2
  <1>11. Joined = base \o Segments(rel)
    <2>1. Joined = LET r == IF Rooted(full) THEN Tail(full) ELSE full
                   IN  IF Rooted(r) THEN Segments(r) ELSE base \o Segments(r)
      BY <1>2 DEF Joined
    <2> HIDE DEF full, rel
    <2> QED BY <1>9, <1>10, <2>1
  <1> DEFINE c == IF l = <<>> THEN Index ELSE l
             names == Append(f, c)
  <1>12. Segments(rel) = names
    <2>1. \A i \in 1..Len(w) : w[i] # "/"
      <3>1. \A i \in 1..Len(Index) : Index[i] \in ToSet(Index) BY <1>1 DEF ToSet
      <3>2. "/" \notin ToSet(Index) BY <1>1 DEF IsName
      <3>3. Len(<<>>) = 0 OBVIOUS
      <3> QED BY <3>1, <3>2, <3>3
    <2>2. l \o w = c
      <3>1. <<>> \o Index = Index BY <1>1, ConcatEmptySeq
      <3>2. l \o <<>> = l BY <1>2, ConcatEmptySeq
      <3> QED BY <3>1, <3>2
    <2> HIDE DEF w, c
    <2>3. Pieces!Cut(u \o w, f, l \o w)
      BY <1>2, <1>3, <1>7, <2>1, Pieces!CutJoined
    <2> QED BY <2>2, <2>3, SegmentsSame DEF Pieces!Cut
  <1>13. Named = base \o names
    <2> DEFINE s == Tail(Segments(encoded))
    <2>1. s = Append(f, l) BY <1>2
    <2>2. Last(s) = l /\ Front(s) = f
      <3> HIDE DEF s, N
      <3>1. f \in Seq(N) /\ l \in N BY <1>2, <1>3
      <3>2. /\ Len(s) = Len(f) + 1 /\ s[Len(f) + 1] = l /\ Len(f) \in Nat
        BY <2>1, <3>1, AppendProperties
      <3>3. SubSeq(Append(f, l), 1, Len(f)) = f BY <3>1
      <3>4. Len(s) - 1 = Len(f) BY <3>2
      <3> QED BY <2>1, <3>2, <3>3, <3>4 DEF Last, Front
    <2>3. Named = Normal(chosen.root) \o
                    (IF Last(s) = <<>> THEN Append(Front(s), Index) ELSE s)
      BY DEF Named
    <2> HIDE DEF s
    <2> QED BY <2>1, <2>2, <2>3
  <1>14. c \in N /\ c \notin {<<>>, <<".">>, <<"..">>}
    BY <1>1, <1>2 DEF IsName
  <1>15. names \in Path \ {<<>>} /\ Clean(names)
    <2> HIDE DEF c
    <2>1. /\ names \in Path /\ Len(names) = Len(f) + 1 /\ names[Len(f) + 1] = c
          /\ \A i \in 1..Len(f) : names[i] = f[i]
          /\ Len(f) \in Nat
      BY <1>14, OneMore
    <2> HIDE DEF names
    <2>2. ASSUME NEW i \in 1..Len(names) PROVE names[i] \notin {<<>>, <<".">>, <<"..">>}
      <3>1. CASE i = Len(f) + 1 BY <1>14, <2>1, <3>1
      <3>2. CASE i # Len(f) + 1
        <4>1. i \in 1..Len(f) BY <2>1, <3>2
        <4> QED BY <1>2, <2>1, <4>1 DEF Clean
      <3> QED BY <3>1, <3>2
    <2>3. names # <<>> BY <2>1
    <2> QED BY <2>1, <2>2, <2>3 DEF Clean
  <1> HIDE DEF names, rel
  <1> QED BY <1>11, <1>12, <1>13, <1>15

\* weakly_canonical leaves it as it is, and it lies below the base.
LEMMA NamedBelow ==
  ASSUME TypeOK, Undisturbed, base = Normal(chosen.root)
  PROVE  /\ Canonical(Joined) = Named
         /\ IsPrefix(base, Named) /\ ~IsStrictPrefix(Named, base)
  <1> DEFINE N == Seq(Symbols)
  <1>1. PICK names \in Path \ {<<>>} : Named = base \o names /\ Clean(names)
    BY JoinedIs
  <1>2. base \in Path /\ Clean(base)
    BY RouteTypes, NormalType, NormalClean DEF Undisturbed
  <1>3. base \in Seq(N) /\ names \in Seq(N) /\ names # <<>> BY <1>1, <1>2 DEF Path
  <1> HIDE DEF N
  <1>4. /\ Named \in Seq(N) /\ Len(Named) = Len(base) + Len(names)
        /\ \A i \in 1..Len(base) : Named[i] = base[i]
        /\ \A i \in 1..Len(names) : Named[Len(base) + i] = names[i]
        /\ Len(base) \in Nat /\ Len(names) \in Nat \ {0}
    BY <1>1, <1>3, ConcatProperties
  <1>5. Clean(Named)
    <2> SUFFICES ASSUME NEW i \in 1..Len(Named)
                 PROVE  Named[i] \notin {<<>>, <<".">>, <<"..">>}
      BY DEF Clean
    <2>1. CASE i <= Len(base)
      <3>1. i \in 1..Len(base) BY <1>4, <2>1
      <3> QED BY <1>2, <1>4, <3>1 DEF Clean
    <2>2. CASE ~(i <= Len(base))
      <3>1. i - Len(base) \in 1..Len(names) /\ Len(base) + (i - Len(base)) = i
        BY <1>4, <2>2
      <3> QED BY <1>1, <1>4, <3>1 DEF Clean
    <2> QED BY <2>1, <2>2
  <1>6. Normal(Named) = Named BY <1>4, <1>5, CleanNormal DEF N, Path
  <1>7. Last(Named) \notin {<<>>, <<".">>, <<"..">>}
    BY <1>4, <1>5 DEF Clean, Last
  <1>8. Canonical(Named) = Named BY <1>6, <1>7 DEF Canonical
  <1>9. IsPrefix(base, Named)
    <2>1. SubSeq(base, 1, Len(base)) = base BY <1>3, SubSeqFull
    <2>2. SubSeq(Named, 1, Len(base)) = base
      <3>1. \A i \in 1..Len(base) : Named[i] \in N BY <1>3, <1>4
      <3>2. /\ SubSeq(Named, 1, Len(base)) \in Seq(N)
            /\ Len(SubSeq(Named, 1, Len(base))) = Len(base)
            /\ \A i \in 1..Len(base) : SubSeq(Named, 1, Len(base))[i] = Named[i]
        BY <1>4, <3>1, SubSeqProperties
      <3> QED BY <1>3, <1>4, <3>2, SeqEqual
    <2> QED BY <1>4, <2>1, <2>2 DEF IsPrefix
  <1>10. ~IsStrictPrefix(Named, base) BY <1>4 DEF IsStrictPrefix, IsPrefix
  <1> QED BY <1>8, <1>9, <1>10, JoinedIs

\* What the handler has found out of a plain target by each of its steps while
\* the disk stays as it is.
ThereInv ==
  Undisturbed =>
    /\ stage = "path" => base = Normal(chosen.root)
    /\ stage = "open" => path = Named
    /\ stage = "answered" =>
         /\ response.status = "ok" <=> Found(Named) \in {"file", "dir"}
         /\ response.status = "not_found" <=> Found(Named) = "missing"
         /\ response.status # "forbidden"

\* What a step that leaves the request and the disk alone cannot change.
LEMMA Unmoved ==
  ASSUME UNCHANGED <<target, chosen, changes, before, disk>>
  PROVE  /\ Undisturbed' <=> Undisturbed
         /\ Named' = Named /\ Found(Named)' = Found(Named)
  <1>1. Named' = Named BY DEF Named
  <1>2. \A p : Found(p)' = Found(p) BY DEF Found, Kind
  <1>3. Found(Named)' = Found(Named) BY <1>1, <1>2 DEF Found, Kind
  <1>4. Undisturbed' <=> Undisturbed BY <1>2 DEF Undisturbed, Found, Kind
  <1> QED BY <1>1, <1>3, <1>4

\* A plain target does not climb.
LEMMA PlainStays == \A t : Plain(t) => Parses(t) /\ ~ClimbsUp(t)
  BY DEF Plain, ClimbsUp, IsName, ToSet

\* A handler that goes on resolves the target to its file; one that answers
\* has looked there.
LEMMA NextThere == TypeOK /\ ThereInv /\ [Next]_vars => ThereInv'
  <1> SUFFICES ASSUME TypeOK, ThereInv, [Next]_vars PROVE ThereInv' OBVIOUS
  <1>1. ASSUME UNCHANGED <<target, chosen, changes, before, disk, base, path, response>>,
               stage' \in {"path", "open", "answered"} => stage' = stage
        PROVE  ThereInv'
    BY <1>1, Unmoved DEF ThereInv
  <1>2. CASE LoadRoute BY <1>1, <1>2 DEF LoadRoute, system
  <1>3. CASE Serve BY <1>1, <1>3 DEF Serve, system
  <1>4. ASSUME NEW t \in Targets, Dispatch(t) PROVE ThereInv'
    <2>1. stage' = "parse" \/ chosen' = NoRoute
      BY <1>4 DEF Dispatch, Unmatched, Answer, GoOn
    <2> QED BY <2>1 DEF ThereInv, Undisturbed
  <1>5. CASE Parse
    <2>1. /\ UNCHANGED <<target, chosen, changes, before, disk>>
          /\ \/ stage' = "base"
             \/ stage' = "answered" /\ (~Parses(target) \/ ClimbsUp(target))
      BY <1>5 DEF Parse, Answer, GoOn, system
    <2>2. Undisturbed => Plain(target) BY DEF Undisturbed
    <2> QED BY <2>1, <2>2, Unmoved, PlainStays DEF ThereInv
  <1>6. CASE ResolveBase
    <2>1. /\ UNCHANGED <<target, chosen, changes, before, disk>>
          /\ \/ stage' = "answered" /\ Throws(chosen.root)
             \/ stage' = "path" /\ base' = Canonical(chosen.root)
      BY <1>6 DEF ResolveBase, Answer, GoOn, BasePath, system
    <2>2. Undisturbed => Found(chosen.root) = "dir" BY DEF Undisturbed
    <2>3. Undisturbed => ~Throws(chosen.root) BY <2>2 DEF Throws
    <2>4. Undisturbed => Canonical(chosen.root) = Normal(chosen.root)
      BY <2>2 DEF Canonical, Kinds
    <2> QED BY <2>1, <2>3, <2>4, Unmoved DEF ThereInv
  <1>7. CASE ResolveTarget
    <2>1. /\ UNCHANGED <<target, chosen, changes, before, disk, base>>
          /\ stage = "path" /\ path' = Canonical(Joined)
          /\ \/ /\ Throws(Joined) /\ stage' = "answered"
                /\ response' = error("internal_server_error")
             \/ stage' = "open"
             \/ ~IsPrefix(base, path') /\ stage' = "answered"
             \/ stage' = "crashed"
      BY <1>7 DEF ResolveTarget, Answer, GoOn, Confined, system
    <2> SUFFICES ASSUME Undisturbed PROVE ThereInv'
      BY <2>1, Unmoved DEF ThereInv
    <2>2. base = Normal(chosen.root) BY <2>1 DEF ThereInv
    <2>3. /\ Canonical(Joined) = Named /\ Joined = Named
          /\ IsPrefix(base, Named)
      BY <2>2, JoinedIs, NamedBelow
    <2>4. CASE Throws(Joined) /\ stage' = "answered"
                 /\ response' = error("internal_server_error")
      <3>1. Found(Named) = "denied" BY <2>3, <2>4 DEF Throws
      <3>2. response'.status = "internal_server_error" BY <2>4 DEF error
      <3> QED BY <2>1, <2>4, <3>1, <3>2, Unmoved DEF ThereInv
    <2>5. CASE stage' = "open"
      BY <2>1, <2>3, <2>5, Unmoved DEF ThereInv
    <2>6. CASE stage' = "crashed" BY <2>6 DEF ThereInv
    <2> QED BY <2>1, <2>3, <2>4, <2>5, <2>6
  <1>8. CASE OpenBody
    <2>1. /\ UNCHANGED <<target, chosen, changes, before, disk>>
          /\ stage = "open" /\ stage' = "answered"
          /\ \/ Found(path) \in {"file", "dir"} /\ response'.status = "ok"
             \/ Found(path) = "missing" /\ response'.status = "not_found"
             \/ /\ Found(path) \notin {"file", "dir", "missing"}
                /\ response'.status = "internal_server_error"
      <3>1. /\ error("not_found").status = "not_found"
            /\ error("internal_server_error").status = "internal_server_error"
        BY DEF error
      <3>2. \A type : [status |-> "ok", content_type |-> type].status = "ok" OBVIOUS
      <3> QED BY <1>8, <3>1, <3>2, Zenon DEF OpenBody, Answer, system
    <2>2. Undisturbed => path = Named BY <2>1 DEF ThereInv
    <2> QED BY <2>1, <2>2, Unmoved DEF ThereInv
  <1>9. CASE Written BY <1>9 DEF Written, ThereInv
  <1>10. CASE Change
    <2>1. changes \in Nat /\ before \in 0..changes /\ changes' = changes + 1
          /\ before' = before
      BY <1>10 DEF Change, TypeOK
    <2> QED BY <2>1 DEF ThereInv, Undisturbed
  <1>11. CASE UNCHANGED vars BY <1>1, <1>11 DEF vars, system
  <1> QED
    BY <1>2, <1>3, <1>4, <1>5, <1>6, <1>7, <1>8, <1>9, <1>10, <1>11
       DEF Next, Handle

-----------------------------------------------------------------------------
(* Content types.                                                          *)

\* The extensions of the table.
Extensions == DOMAIN MIME_TYPES

\* An extension has neither a dot nor a slash in it.
LEMMA ExtensionsAre == "/" \notin Extensions /\ Extensions \cap Dots = {}
  BY DEF Extensions, MIME_TYPES, Dots

\* Only a text of a dot and an extension is found.
LEMMA FindIs ==
  ASSUME NEW e
  PROVE  /\ Len(e) = 2 /\ e[1] \in Dots /\ e[2] \in Extensions
              => OrDefault(Find(MIME_TYPES, e)) = MIME_TYPES[e[2]]
         /\ ~(Len(e) = 2 /\ e[1] \in Dots /\ e[2] \in Extensions)
              => Find(MIME_TYPES, e) = {}
  <1>1. Find(MIME_TYPES, e) =
          IF Len(e) = 2 /\ e[1] \in Dots /\ e[2] \in Extensions
          THEN {MIME_TYPES[e[2]]} ELSE {}
    BY DEF Find, Extensions
  <1>2. \A type : OrDefault({type}) = type BY DEF OrDefault
  <1> QED BY <1>1, <1>2, Zenon

\* What stands behind a position.
LEMMA Behind ==
  ASSUME NEW S, NEW f \in Seq(S), NEW i \in 1..Len(f)
  PROVE  /\ SubSeq(f, i, Len(f)) \in Seq(S)
         /\ Len(SubSeq(f, i, Len(f))) = Len(f) - i + 1
         /\ SubSeq(f, i, Len(f))[1] = f[i]
         /\ i < Len(f) => SubSeq(f, i, Len(f))[2] = f[i + 1]
  OBVIOUS

\* Two symbols at the end make the type: a dot and an extension.
Ends(f) == Len(f) >= 2 /\ f[Len(f) - 1] \in Dots /\ f[Len(f)] \in Extensions

\* mime_type goes by the last symbol, if that is an extension behind a dot.
LEMMA MimeTypeIs ==
  ASSUME NEW S, NEW f \in Seq(S)
  PROVE  /\ Ends(f) => mime_type(f) = MIME_TYPES[f[Len(f)]]
         /\ ~Ends(f) => mime_type(f) = DEFAULT_MIME_TYPE
  <1> DEFINE n == Len(f)
             dots == {i \in 1..n : f[i] \in Dots}
             pos == CHOOSE i \in dots : \A j \in dots : j <= i
             e == SubSeq(f, pos, n)
  <1>1. n \in Nat /\ DOMAIN f = 1..n OBVIOUS
  <1>2. mime_type(f) = OrDefault(IF dots = {} THEN {} ELSE Find(MIME_TYPES, e))
    <2>1. DOMAIN f = 1..n BY <1>1
    <2> HIDE DEF MIME_TYPES
    <2> QED BY <2>1 DEF mime_type, mime_types
  <1>3. OrDefault({}) = DEFAULT_MIME_TYPE BY DEF OrDefault
  <1>4. CASE dots = {}
    <2>1. ~Ends(f)
      <3>1. Ends(f) => n - 1 \in dots BY <1>1 DEF Ends
      <3> QED BY <1>4, <3>1
    <2> QED BY <1>2, <1>3, <1>4, <2>1
  <1>5. CASE dots # {}
    <2>1. pos \in dots /\ \A j \in dots : j <= pos
      <3>1. dots \subseteq 0..n OBVIOUS
      <3> HIDE DEF dots
      <3>2. \E m \in dots : \A k \in dots : k <= m BY <1>1, <1>5, <3>1, GreatestNumber
      <3> QED BY <3>2
    <2>2. pos \in 1..n /\ f[pos] \in Dots BY <2>1
    <2>3. mime_type(f) = OrDefault(Find(MIME_TYPES, e)) BY <1>2, <1>5
    <2> HIDE DEF pos
    <2>4. /\ Len(e) = n - pos + 1 /\ e[1] = f[pos]
          /\ pos < n => e[2] = f[pos + 1]
      BY <2>2, Behind
    <2>5. Ends(f) => pos = n - 1
      <3> SUFFICES ASSUME Ends(f) PROVE pos = n - 1 OBVIOUS
      <3>1. n - 1 \in dots BY <1>1 DEF Ends
      <3>2. n \notin dots BY ExtensionsAre DEF Ends
      <3>3. n - 1 <= pos /\ pos # n BY <2>1, <3>1, <3>2
      <3>4. n \in Nat /\ pos \in 1..n BY <1>1, <2>2
      <3> HIDE DEF n
      <3> QED BY <3>3, <3>4
    <2> HIDE DEF e
    <2>6. Ends(f) <=> Len(e) = 2 /\ e[1] \in Dots /\ e[2] \in Extensions
      <3>1. ASSUME Ends(f) PROVE Len(e) = 2 /\ e[1] \in Dots /\ e[2] \in Extensions
        <4>1. pos = n - 1 /\ f[n] \in Extensions BY <2>5, <3>1 DEF Ends
        <4>2. n \in Nat /\ pos \in 1..n BY <1>1, <2>2
        <4> HIDE DEF n
        <4>3. n - pos + 1 = 2 /\ pos < n /\ pos + 1 = n BY <4>1, <4>2
        <4> QED BY <2>2, <2>4, <4>1, <4>3
      <3>2. ASSUME Len(e) = 2, e[1] \in Dots, e[2] \in Extensions PROVE Ends(f)
        <4>1. n - pos + 1 = 2 BY <2>4, <3>2
        <4>2. n \in Nat /\ pos \in 1..n BY <1>1, <2>2
        <4>3. n >= 2 /\ pos = n - 1 /\ pos < n /\ pos + 1 = n
          <5> HIDE DEF n
          <5> QED BY <4>1, <4>2
        <4> QED BY <2>2, <2>4, <3>2, <4>3 DEF Ends
      <3> QED BY <3>1, <3>2
    <2>7. Ends(f) => e[2] = f[n] BY <1>1, <2>2, <2>4, <2>5
    <2>8. ~Ends(f) => Find(MIME_TYPES, e) = {} BY <2>6, FindIs
    <2>9. Ends(f) => OrDefault(Find(MIME_TYPES, e)) = MIME_TYPES[f[n]]
      BY <2>6, <2>7, FindIs
    <2> QED BY <1>3, <2>3, <2>8, <2>9
  <1> QED BY <1>4, <1>5

\* The same of a name.
LEMMA TypeOfNameIs ==
  ASSUME NEW S, NEW c \in Seq(S)
  PROVE  /\ Ends(c) => TypeOfName(c) = MIME_TYPES[c[Len(c)]]
         /\ ~Ends(c) => TypeOfName(c) = DEFAULT_MIME_TYPE
  <1> DEFINE m == Len(c)
             e == SubSeq(c, m - 1, m)
  <1>1. m \in Nat OBVIOUS
  <1>2. OrDefault({}) = DEFAULT_MIME_TYPE BY DEF OrDefault
  <1>3. CASE m > 1 /\ c[m - 1] \in Dots
    <2>1. TypeOfName(c) = OrDefault(Find(MIME_TYPES, e))
      BY <1>3 DEF TypeOfName
    <2>2. m - 1 \in 1..m /\ m - 1 < m /\ m - (m - 1) + 1 = 2 /\ m - 1 + 1 = m
      BY <1>1, <1>3
    <2>3. Len(e) = 2 /\ e[1] = c[m - 1] /\ e[2] = c[m] BY <2>2, Behind
    <2> HIDE DEF e
    <2>4. Ends(c) <=> c[m] \in Extensions BY <1>1, <1>3 DEF Ends
    <2>5. ~Ends(c) => Find(MIME_TYPES, e) = {} BY <2>3, <2>4, FindIs
    <2>6. Ends(c) => OrDefault(Find(MIME_TYPES, e)) = MIME_TYPES[c[m]]
      BY <1>3, <2>3, <2>4, FindIs
    <2> QED BY <1>2, <2>1, <2>5, <2>6
  <1>4. CASE ~(m > 1 /\ c[m - 1] \in Dots)
    <2>1. TypeOfName(c) = DEFAULT_MIME_TYPE BY <1>4 DEF TypeOfName
    <2>2. ~Ends(c) BY <1>1, <1>4 DEF Ends
    <2> QED BY <2>1, <2>2
  <1> QED BY <1>3, <1>4

\* A word without its capitals.
Fold(x) == IF x \in DOMAIN Folded THEN Folded[x] ELSE x

\* ascii_lower makes and takes no dot, and leaves a slash.
LEMMA FoldKeeps ==
  /\ \A x : Fold(x) \in Dots <=> x \in Dots
  /\ Fold("/") = "/"
  BY FoldedAssumption DEF Fold

\* ascii_lower goes symbol by symbol.
LEMMA LowerIs ==
  ASSUME NEW S, NEW f \in Seq(S)
  PROVE  \E T : /\ ascii_lower(f) \in Seq(T) /\ Len(ascii_lower(f)) = Len(f)
                /\ \A i \in 1..Len(f) : ascii_lower(f)[i] = Fold(f[i])
  <1> DEFINE n == Len(f)
             T == {Fold(x) : x \in S}
             lower == [i \in 1..n |-> Fold(f[i])]
  <1>1. n \in Nat /\ DOMAIN f = 1..n OBVIOUS
  <1>2. ascii_lower(f) = lower BY <1>1 DEF ascii_lower, Fold
  <1>3. \A i \in 1..n : Fold(f[i]) \in T OBVIOUS
  <1> HIDE DEF T
  <1>4. lower \in Seq(T) /\ Len(lower) = n BY <1>1, <1>3
  <1> QED BY <1>2, <1>4

\* The same two symbols, without capitals, and no slash among them.
EndsFolded(f) ==
  /\ Len(f) >= 2 /\ f[Len(f) - 1] \in Dots
  /\ Fold(f[Len(f)]) \in Extensions

\* from_path does the same, with the last symbol in lower case.
LEMMA FromPathIs ==
  ASSUME NEW S, NEW f \in Seq(S)
  PROVE  /\ EndsFolded(f) => from_path(f) = MIME_TYPES[Fold(f[Len(f)])]
         /\ ~EndsFolded(f) => from_path(f) = DEFAULT_MIME_TYPE
  <1> DEFINE n == Len(f)
             found(i) == Find(MIME_TYPES, ascii_lower(SubSeq(f, i, n)))
             hits == {i \in 1..n : /\ f[i] \in Dots /\ found(i) # {}
                                   /\ \A j \in i..n : f[j] # "/"}
             hit == CHOOSE i \in hits : \A j \in hits : j <= i
  <1>1. n \in Nat /\ DOMAIN f = 1..n OBVIOUS
  <1>2. from_path(f) = OrDefault(IF hits = {} THEN {} ELSE found(hit))
    <2>1. DOMAIN f = 1..n BY <1>1
    <2> HIDE DEF MIME_TYPES
    <2> QED BY <2>1 DEF from_path
  <1>3. OrDefault({}) = DEFAULT_MIME_TYPE BY DEF OrDefault
  <1>4. ASSUME NEW i \in 1..n, f[i] \in Dots
        PROVE  /\ found(i) # {} <=> i = n - 1 /\ Fold(f[n]) \in Extensions
               /\ found(i) # {} => OrDefault(found(i)) = MIME_TYPES[Fold(f[n])]
    <2> DEFINE e == SubSeq(f, i, n)
               lower == ascii_lower(e)
    <2>1. /\ e \in Seq(S) /\ Len(e) = n - i + 1 /\ e[1] = f[i]
          /\ i < n => e[2] = f[i + 1]
      BY Behind
    <2> HIDE DEF e
    <2>2. PICK T : /\ lower \in Seq(T) /\ Len(lower) = Len(e)
                   /\ \A j \in 1..Len(e) : lower[j] = Fold(e[j])
      BY <2>1, LowerIs
    <2> HIDE DEF lower
    <2>3. Len(lower) = 2 <=> i = n - 1
      <3>1. n \in Nat /\ i \in 1..n /\ Len(lower) = n - i + 1 BY <1>1, <2>1, <2>2
      <3> HIDE DEF n
      <3> QED BY <3>1
    <2>4. i = n - 1 => lower[1] = Fold(f[i]) /\ lower[2] = Fold(f[n])
      <3> SUFFICES ASSUME i = n - 1 PROVE lower[1] = Fold(f[i]) /\ lower[2] = Fold(f[n])
        OBVIOUS
      <3>1. n \in Nat /\ i \in 1..n BY <1>1
      <3>2. i < n /\ i + 1 = n
        <4> HIDE DEF n
        <4> QED BY <3>1
      <3>3. Len(e) = 2 BY <2>2, <2>3
      <3>4. 1 \in 1..Len(e) /\ 2 \in 1..Len(e) BY <3>3
      <3>5. e[1] = f[i] /\ e[2] = f[n] BY <2>1, <3>2
      <3> QED BY <2>2, <3>4, <3>5
    <2>5. Fold(f[i]) \in Dots BY <1>4, FoldKeeps
    <2> DEFINE good == Len(lower) = 2 /\ lower[1] \in Dots /\ lower[2] \in Extensions
    <2>6. good <=> i = n - 1 /\ Fold(f[n]) \in Extensions
      <3> HIDE DEF n
      <3> QED BY <2>3, <2>4, <2>5
    <2>7. /\ good => OrDefault(Find(MIME_TYPES, lower)) = MIME_TYPES[lower[2]]
          /\ ~good => Find(MIME_TYPES, lower) = {}
      BY FindIs
    <2>8. good => Find(MIME_TYPES, lower) # {}
      <3> SUFFICES ASSUME good PROVE Find(MIME_TYPES, lower) # {} OBVIOUS
      <3>1. Find(MIME_TYPES, lower) = {MIME_TYPES[lower[2]]}
        BY DEF Find, Extensions
      <3> QED BY <3>1
    <2>9. found(i) = Find(MIME_TYPES, lower) BY DEF lower, e
    <2> HIDE DEF good, found, n
    <2> QED BY <2>4, <2>6, <2>7, <2>8, <2>9
  <1> HIDE DEF found
  <1>5. CASE EndsFolded(f)
    <2>1. n - 1 \in 1..n /\ f[n - 1] \in Dots /\ Fold(f[n]) \in Extensions
      BY <1>1, <1>5 DEF EndsFolded
    <2>2. found(n - 1) # {} BY <1>4, <2>1
    <2>3. \A j \in (n - 1)..n : f[j] # "/"
      <3>1. f[n - 1] # "/" BY <2>1 DEF Dots
      <3>2. f[n] # "/" BY <2>1, FoldKeeps, ExtensionsAre
      <3>3. \A j \in (n - 1)..n : j = n - 1 \/ j = n
        <4>1. n \in Nat BY <1>1
        <4> HIDE DEF n
        <4> QED BY <4>1
      <3> QED BY <3>1, <3>2, <3>3
    <2>4. n - 1 \in hits BY <2>1, <2>2, <2>3
    <2>5. \A i \in hits : i = n - 1 BY <1>4
    <2>6. hit = n - 1
      <3> HIDE DEF hits, n
      <3>1. n \in Nat BY <1>1
      <3>2. \A j \in hits : j <= n - 1 BY <2>5, <3>1
      <3> QED BY <2>4, <2>5, <3>2
    <2>7. from_path(f) = OrDefault(found(n - 1)) BY <1>2, <2>4, <2>6
    <2> QED BY <1>4, <1>5, <2>1, <2>2, <2>7
  <1>6. CASE ~EndsFolded(f)
    <2>1. ASSUME NEW i \in hits PROVE FALSE
      <3>1. i \in 1..n /\ i = n - 1 /\ f[i] \in Dots /\ Fold(f[n]) \in Extensions
        BY <1>4
      <3> QED BY <1>1, <1>6, <3>1 DEF EndsFolded
    <2>2. hits = {} BY <2>1
    <2> HIDE DEF hits
    <2> QED BY <1>2, <1>3, <1>6, <2>2
  <1> QED BY <1>5, <1>6

\* The type of a path is that of its last component.
LEMMA TypesAgree ==
  ASSUME NEW S, NEW g \in Seq(S), NEW c \in Seq(S), "/" \in S
  PROVE  LET f == g \o (<<"/">> \o c)
         IN  mime_type(f) = TypeOfName(c) /\ from_path(f) = TypeOfName(ascii_lower(c))
  <1> DEFINE f == g \o (<<"/">> \o c)
             n == Len(f)
             m == Len(c)
  <1>1. /\ f \in Seq(S) /\ m \in Nat /\ n \in Nat /\ n > m
        /\ f[n - m] = "/" /\ \A i \in 1..m : f[n - m + i] = c[i]
    <2> DEFINE d == <<"/">> \o c
    <2>1. /\ d \in Seq(S) /\ Len(d) = m + 1 /\ d[1] = "/" /\ m \in Nat
          /\ \A i \in 1..m : d[i + 1] = c[i]
      OBVIOUS
    <2> HIDE DEF d, m
    <2>2. /\ g \o d \in Seq(S) /\ Len(g \o d) = Len(g) + (m + 1) /\ Len(g) \in Nat
          /\ \A i \in 1..(m + 1) : (g \o d)[Len(g) + i] = d[i]
      <3> DEFINE k == Len(g)
      <3>1. k \in Nat OBVIOUS
      <3>2. /\ g \o d \in Seq(S) /\ Len(g \o d) = k + (m + 1)
            /\ \A i \in 1..(k + (m + 1)) : (g \o d)[i] = IF i <= k THEN g[i] ELSE d[i - k]
        BY <2>1, ConcatProperties
      <3> HIDE DEF k
      <3>3. ASSUME NEW i \in 1..(m + 1) PROVE (g \o d)[k + i] = d[i]
        <4>1. k + i \in 1..(k + (m + 1)) /\ ~(k + i <= k) /\ (k + i) - k = i
          BY <2>1, <3>1
        <4> QED BY <3>2, <4>1
      <3> QED BY <3>1, <3>2, <3>3 DEF k
    <2>3. n = Len(g) + (m + 1) /\ f = g \o d BY <2>2 DEF d
    <2> HIDE DEF n, f
    <2>4. /\ n \in Nat /\ n > m /\ n - m = Len(g) + 1
          /\ \A i \in 1..m : n - m + i = Len(g) + (i + 1) /\ i + 1 \in 1..(m + 1)
      BY <2>1, <2>2, <2>3
    <2>5. f[n - m] = "/"
      <3>1. 1 \in 1..(m + 1) BY <2>1
      <3> QED BY <2>1, <2>2, <2>3, <2>4, <3>1
    <2>6. ASSUME NEW i \in 1..m PROVE f[n - m + i] = c[i]
      BY <2>1, <2>2, <2>3, <2>4, <2>6
    <2> QED BY <2>1, <2>2, <2>3, <2>4, <2>5, <2>6
  <1> HIDE DEF f, n, m
  <1>2. m >= 1 => n - 1 \in 1..n /\ f[n] = c[m]
    <2> SUFFICES ASSUME m >= 1 PROVE n - 1 \in 1..n /\ f[n] = c[m] OBVIOUS
    <2>1. m \in 1..m /\ n - m + m = n /\ n - 1 \in 1..n BY <1>1
    <2>2. f[n - m + m] = c[m] BY <1>1, <2>1
    <2> QED BY <2>1, <2>2
  <1>3. m >= 2 => f[n - 1] = c[m - 1]
    <2> SUFFICES ASSUME m >= 2 PROVE f[n - 1] = c[m - 1] OBVIOUS
    <2>1. m - 1 \in 1..m /\ n - m + (m - 1) = n - 1 BY <1>1
    <2>2. f[n - m + (m - 1)] = c[m - 1] BY <1>1, <2>1
    <2> QED BY <2>1, <2>2
  <1>4. m = 1 => f[n - 1] = "/"
    BY <1>1
  <1>5. m = 0 => f[n] = "/"
    BY <1>1
  <1>6. "/" \notin Dots /\ Fold("/") = "/" /\ "/" \notin Extensions
    BY FoldKeeps, ExtensionsAre DEF Dots
  <1>7. m = 0 \/ m = 1 \/ m >= 2 BY <1>1
  <1>8. Ends(f) <=> Ends(c)
    BY <1>1, <1>2, <1>3, <1>4, <1>5, <1>6, <1>7 DEF Ends, n, m
  <1>9. EndsFolded(f) <=> EndsFolded(c)
    BY <1>1, <1>2, <1>3, <1>4, <1>5, <1>6, <1>7 DEF EndsFolded, n, m
  <1>10. mime_type(f) = TypeOfName(c)
    <2>1. Ends(c) => f[n] = c[m] BY <1>2 DEF Ends, m
    <2> QED BY <1>1, <1>8, <2>1, MimeTypeIs, TypeOfNameIs DEF n, m
  <1>11. from_path(f) = TypeOfName(ascii_lower(c))
    <2> DEFINE lower == ascii_lower(c)
    <2>1. PICK T : /\ lower \in Seq(T) /\ Len(lower) = m
                   /\ \A i \in 1..m : lower[i] = Fold(c[i])
      BY LowerIs DEF m
    <2> HIDE DEF lower
    <2>2. m >= 2 => lower[m - 1] = Fold(c[m - 1]) /\ lower[m] = Fold(c[m])
      <3>1. m >= 2 => m - 1 \in 1..m /\ m \in 1..m BY <1>1
      <3> QED BY <2>1, <3>1
    <2>3. Ends(lower) <=> EndsFolded(c)
      BY <2>1, <2>2, FoldKeeps DEF Ends, EndsFolded, m
    <2>4. EndsFolded(c) => f[n] = c[m] /\ lower[m] = Fold(c[m])
      BY <1>2, <2>2 DEF EndsFolded, m
    <2>5. /\ EndsFolded(f) => from_path(f) = MIME_TYPES[Fold(f[n])]
          /\ ~EndsFolded(f) => from_path(f) = DEFAULT_MIME_TYPE
      BY <1>1, FromPathIs DEF n
    <2>6. /\ Ends(lower) => TypeOfName(lower) = MIME_TYPES[lower[m]]
          /\ ~Ends(lower) => TypeOfName(lower) = DEFAULT_MIME_TYPE
      BY <2>1, TypeOfNameIs
    <2>7. from_path(f) = TypeOfName(lower)
      BY <1>9, <2>3, <2>4, <2>5, <2>6
    <2> QED BY <2>7 DEF lower
  <1> QED BY <1>10, <1>11 DEF f

\* The last component stands at the end of full_path.
LEMMA FullPathEnds ==
  ASSUME NEW p \in Path, p # <<>>
  PROVE  \E g \in Seq(Symbols) :
           FlattenSeq([i \in DOMAIN p |-> <<"/">> \o p[i]]) = g \o (<<"/">> \o Last(p))
  <1> DEFINE n == Len(p)
             parts == [i \in 1..n |-> <<"/">> \o p[i]]
             N == Seq(Symbols)
  <1>1. n \in Nat \ {0} /\ DOMAIN p = 1..n /\ \A i \in 1..n : p[i] \in N BY DEF Path
  <1>2. \A i \in 1..n : <<"/">> \o p[i] \in N
    <2>1. <<"/">> \in N BY SiteAssumption
    <2> QED BY <1>1, <2>1
  <1>3. parts \in Seq(N) /\ Len(parts) = n /\ parts # <<>>
    <2> HIDE DEF N, n
    <2>1. n \in Nat /\ n # 0 BY <1>1
    <2>2. \A i \in 1..n : <<"/">> \o p[i] \in N BY <1>2
    <2> DEFINE part(i) == <<"/">> \o p[i]
    <2> HIDE DEF part
    <2>3. [i \in 1..n |-> part(i)] \in Seq(N) /\ Len([i \in 1..n |-> part(i)]) = n
      BY <2>1, <2>2 DEF part
    <2>4. parts = [i \in 1..n |-> part(i)] BY DEF part
    <2> HIDE DEF parts
    <2>5. parts # <<>> BY <2>1, <2>3, <2>4
    <2> QED BY <2>3, <2>4, <2>5
  <1>4. [i \in DOMAIN p |-> <<"/">> \o p[i]] = parts BY <1>1
  <1>5. \A i \in 1..n : parts[i] = <<"/">> \o p[i] /\ parts[i] \in N BY <1>2
  <1> HIDE DEF parts
  <1>6. PICK flatten :
          /\ FlattenSeq(parts) = flatten[n]
          /\ \A i \in 1..n :
               flatten[i] = IF i = 1 THEN parts[i] ELSE flatten[i - 1] \o parts[i]
    <2> HIDE DEF N, n
    <2> QED BY <1>3, FlattenSeqIs
  <1> DEFINE T == {k \in 0..n : k = 0 \/ flatten[k] \in N}
  <1> HIDE DEF n, N
  <1>7. 0 \in T BY <1>1
  <1>8. ASSUME NEW k \in 1..n, k - 1 \in T PROVE k \in T
    <2>1. k \in 0..n BY <1>1
    <2>2. CASE k = 1 BY <1>5, <1>6, <2>1, <2>2
    <2>3. CASE k # 1
      <3>1. k - 1 # 0 /\ k - 1 \in 0..n BY <1>1, <2>3
      <3>2. flatten[k - 1] \in N BY <1>8, <3>1
      <3>3. flatten[k] = flatten[k - 1] \o parts[k] BY <1>6, <2>3
      <3>4. parts[k] \in N BY <1>5
      <3>5. flatten[k] \in N BY <3>2, <3>3, <3>4, ConcatProperties DEF N
      <3> QED BY <2>1, <3>5
    <2> QED BY <2>2, <2>3
  <1> HIDE DEF T
  <1>9. \A k \in 0..n : k \in T BY <1>1, <1>7, <1>8, UpTo
  <1>10. n \in 1..n BY <1>1
  <1>11. parts[n] = <<"/">> \o Last(p) BY <1>5, <1>10 DEF Last, n
  <1>12. CASE n = 1
    <2>1. flatten[n] = parts[n] BY <1>6, <1>10, <1>12
    <2>2. <<>> \in N BY DEF N
    <2>3. parts[n] \in N BY <1>5, <1>10
    <2>4. <<>> \o parts[n] = parts[n] BY <2>3, ConcatEmptySeq DEF N
    <2> QED BY <1>4, <1>6, <1>11, <2>1, <2>2, <2>4 DEF N
  <1>13. CASE n # 1
    <2>1. flatten[n] = flatten[n - 1] \o parts[n] BY <1>6, <1>10, <1>13
    <2>2. n - 1 \in 0..n /\ n - 1 # 0 BY <1>1, <1>13
    <2>3. flatten[n - 1] \in N BY <1>9, <2>2 DEF T
    <2> QED BY <1>4, <1>6, <1>11, <2>1, <2>3 DEF N
  <1> QED BY <1>12, <1>13

\* A response is there once it is answered, and one with a body has the type
\* of full_path.
TypedInv ==
  /\ stage # "answered" => response = NoResponse
  /\ response.status = "ok" => response.content_type = TypeOfBody

\* The type of a body is fixed when it is opened.
LEMMA NextTyped == TypedInv /\ [Next]_vars => TypedInv'
  <1> SUFFICES ASSUME TypedInv, [Next]_vars PROVE TypedInv' OBVIOUS
  <1>1. ASSUME UNCHANGED <<path, response>>, stage' = stage \/ response = NoResponse
        PROVE  TypedInv'
    BY <1>1 DEF TypedInv, TypeOfBody, FullPath
  <1>2. NoResponse.status = "none" BY DEF NoResponse
  <1>3. \A s \in {"bad_request", "forbidden", "not_found", "internal_server_error"} :
          error(s).status # "ok"
    BY DEF error
  <1>4. CASE LoadRoute BY <1>1, <1>4 DEF LoadRoute
  <1>5. CASE Serve BY <1>1, <1>5 DEF Serve, TypedInv
  <1>6. ASSUME NEW t \in Targets, Dispatch(t) PROVE TypedInv'
    <2>1. \/ response' = error("not_found") /\ stage' = "answered"
          \/ response' = NoResponse
      BY <1>6 DEF Dispatch, Answer, GoOn, TypedInv
    <2> QED BY <1>2, <1>3, <2>1 DEF TypedInv
  <1>7. CASE Parse
    <2>1. \/ /\ response' \in {error("bad_request"), error("forbidden")}
             /\ stage' = "answered"
          \/ response' = NoResponse
      BY <1>7 DEF Parse, Answer, GoOn, TypedInv
    <2> QED BY <1>2, <1>3, <2>1 DEF TypedInv
  <1>8. CASE ResolveBase
    <2>1. \/ response' = error("internal_server_error") /\ stage' = "answered"
          \/ response' = NoResponse
      BY <1>8 DEF ResolveBase, Answer, GoOn, TypedInv
    <2> QED BY <1>2, <1>3, <2>1 DEF TypedInv
  <1>9. CASE ResolveTarget
    <2>1. \/ /\ response' \in {error("internal_server_error"), error("forbidden")}
             /\ stage' = "answered"
          \/ response' = NoResponse
      BY <1>9 DEF ResolveTarget, Answer, GoOn, TypedInv
    <2> QED BY <1>2, <1>3, <2>1 DEF TypedInv
  <1>10. CASE OpenBody
    <2>1. /\ path' = path /\ stage' = "answered"
          /\ \/ response' = [status |-> "ok", content_type |-> TypeOfBody]
             \/ response' \in {error("not_found"), error("internal_server_error")}
      BY <1>10, Zenon DEF OpenBody, Answer
    <2>2. TypeOfBody' = TypeOfBody BY <2>1 DEF TypeOfBody, FullPath
    <2>3. [status |-> "ok", content_type |-> TypeOfBody].content_type = TypeOfBody
      OBVIOUS
    <2> QED BY <1>3, <2>1, <2>2, <2>3 DEF TypedInv
  <1>11. CASE Written BY <1>2, <1>11 DEF Written, TypedInv
  <1>12. CASE Change BY <1>1, <1>12 DEF Change
  <1>13. CASE UNCHANGED vars BY <1>1, <1>13 DEF vars
  <1> QED
    BY <1>4, <1>5, <1>6, <1>7, <1>8, <1>9, <1>10, <1>11, <1>12, <1>13
       DEF Next, Handle

-----------------------------------------------------------------------------

Inv ==
  /\ TypeOK /\ TableInv /\ LongestPrefixServes
  /\ RootInv /\ ThereInv /\ TypedInv

\* ... and nothing in its table, and has answered nothing.
LEMMA InitInv == Init => Inv
  <1> SUFFICES ASSUME Init PROVE Inv OBVIOUS
  <1>1. TypeOK BY InitTypes
  <1>2. TableInv BY DEF Init, TableInv
  <1>3. LongestPrefixServes BY DEF Init, LongestPrefixServes
  <1>4. RootInv BY DEF Init, RootInv
  <1>5. ThereInv BY DEF Init, ThereInv
  <1>6. TypedInv BY DEF Init, TypedInv, NoResponse
  <1> QED BY <1>1, <1>2, <1>3, <1>4, <1>5, <1>6 DEF Inv

\* The inductive invariant.
THEOREM InvHolds == Spec => []Inv
  <1>1. Inv /\ [Next]_vars => Inv'
    BY NextTypes, NextTable, NextChosen, NextRoot, NextThere, NextTyped DEF Inv
  <1> QED BY <1>1, InitInv, PTL DEF Spec

\* The types of all variables, for any routes, targets and disks.
THEOREM TypeCorrect == Spec => []TypeOK
  <1>1. Inv => TypeOK BY DEF Inv
  <1> QED BY <1>1, InvHolds, PTL

\* A request goes to the last route with the longest path that its own path
\* starts with, however many routes there are and in whatever order.
THEOREM LongestPrefix == Spec => []LongestPrefixServes
  <1>1. Inv => LongestPrefixServes BY DEF Inv
  <1> QED BY <1>1, InvHolds, PTL

\* What is opened lies below the root of the route, whatever the target and
\* however the disk changes meanwhile.
THEOREM BelowRoot == Spec => []ServedFromRoot
  <1>1. Inv => ServedFromRoot BY DEF Inv, RootInv, ServedFromRoot
  <1> QED BY <1>1, InvHolds, PTL

\* A plain target is answered by what is at its place below the root,
\* however the root is written and whatever else is on the disk.
THEOREM WhatIsThere == Spec => []ServesWhatIsThere
  <1>1. Inv => ServesWhatIsThere
    BY DEF Inv, ThereInv, ServesWhatIsThere, Answered
  <1> QED BY <1>1, InvHolds, PTL

\* A body has the type of its file's own name, and both searches of the table
\* agree on it but for capitals.
THEOREM TypesByName == Spec => []TypedByName
  <1>1. Inv => TypedByName
    <2> SUFFICES ASSUME Inv, response.status = "ok", path # <<>>
                 PROVE  /\ response.content_type = TypeOfName(Last(path))
                        /\ from_path(FullPath) = TypeOfName(ascii_lower(Last(path)))
      BY DEF TypedByName
    <2>1. path \in Path /\ response.content_type = mime_type(FullPath)
      BY DEF Inv, TypeOK, TypedInv, TypeOfBody, Path
    <2>2. PICK g \in Seq(Symbols) : FullPath = g \o (<<"/">> \o Last(path))
      BY <2>1, FullPathEnds DEF FullPath
    <2>3. Last(path) \in Seq(Symbols) /\ "/" \in Symbols
      BY <2>1, SiteAssumption DEF Path, Last
    <2> QED BY <2>1, <2>2, <2>3, TypesAgree
  <1> QED BY <1>1, InvHolds, PTL

=============================================================================
