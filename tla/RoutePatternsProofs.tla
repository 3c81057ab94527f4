------------------------- MODULE RoutePatternsProofs -------------------------
(***************************************************************************)
(* What Segments, Shape and Names of RoutePatterns do to a text that grows *)
(* by a symbol or by a piece, where the segments of a text lie in it, and  *)
(* that to read a target along the text of a route, symbol by symbol, is   *)
(* to hold it against the route's segments: it accepts the same targets,   *)
(* takes the same values and puts routes in the same order.                *)
(***************************************************************************)
EXTENDS RoutePatterns, Induction

-----------------------------------------------------------------------------
(* Segments.                                                               *)

\* g holds the segments of the beginnings of t.
Scans(g, t, n) ==
  /\ g[0] = << <<>> >>
  /\ \A k \in 1..n : g[k] = Scan(g[k - 1], t[k])

\* The recursion of Segments has a solution.
LEMMA SegmentsScans ==
  ASSUME NEW S, NEW t \in Seq(S)
  PROVE  \E g : Scans(g, t, Len(t)) /\ Segments(t) = g[Len(t)]
  <1> DEFINE n == Len(t)
             Body(g, k) == IF k = 0 THEN << <<>> >> ELSE Scan(g[k - 1], t[k])
             segments == CHOOSE g : g = [k \in 0..n |-> Body(g, k)]
  <1>1. Segments(t) = segments[n] BY DEF Segments
  <1>2. n \in Nat OBVIOUS
  <1>3. \E g : g = [k \in 0..n |-> Body(g, k)]
    <2> DEFINE T == {m \in 0..n : \E g : g = [k \in 0..m |-> Body(g, k)]}
    <2>1. 0 \in T
      <3> DEFINE g == [k \in 0..0 |-> << <<>> >>]
      <3>1. g = [k \in 0..0 |-> Body(g, k)] OBVIOUS
      <3> HIDE DEF g, Body
      <3>2. \E h : h = [k \in 0..0 |-> Body(h, k)] BY <3>1
      <3> QED BY <1>2, <3>2
    <2>2. ASSUME NEW m \in 1..n, m - 1 \in T PROVE m \in T
      <3>1. PICK h : h = [k \in 0..(m - 1) |-> Body(h, k)] BY <2>2
      <3> DEFINE g == [k \in 0..m |-> IF k = m THEN Scan(h[m - 1], t[m]) ELSE h[k]]
      <3>2. ASSUME NEW k \in 0..m PROVE g[k] = Body(g, k)
        <4>1. CASE k = m BY <1>2, <4>1
        <4>2. CASE k # m
          <5>1. k \in 0..(m - 1) /\ g[k] = h[k] BY <1>2, <4>2
          <5>2. h[k] = Body(h, k) BY <3>1, <5>1
          <5>3. k # 0 => k - 1 \in 0..m /\ k - 1 # m /\ g[k - 1] = h[k - 1]
            BY <1>2, <4>2
          <5> QED BY <5>1, <5>2, <5>3
        <4> QED BY <4>1, <4>2
      <3>3. g = [k \in 0..m |-> Body(g, k)] BY <3>2
      <3> HIDE DEF g, Body
      <3>4. \E f : f = [k \in 0..m |-> Body(f, k)] BY <3>3
      <3> QED BY <3>4
    <2> HIDE DEF T
    <2>3. \A m \in 0..n : m \in T BY <1>2, <2>1, <2>2, UpTo
    <2> QED BY <1>2, <2>3 DEF T
  <1>4. segments = [k \in 0..n |-> Body(segments, k)] BY <1>3
  <1> HIDE DEF segments
  <1>5. /\ segments[0] = << <<>> >>
        /\ \A k \in 1..n : segments[k] = Scan(segments[k - 1], t[k])
    BY <1>2, <1>4, SMTT(30)
  <1> QED BY <1>1, <1>5 DEF Scans

\* The segments of a text that grows by a symbol.
LEMMA SegmentsGrow ==
  ASSUME NEW S
  PROVE  /\ Segments(<<>>) = << <<>> >>
         /\ \A t \in Seq(S), x \in S : Segments(Append(t, x)) = Scan(Segments(t), x)
  <1>1. Segments(<<>>) = << <<>> >>
    <2>1. <<>> \in Seq(S) /\ Len(<<>>) = 0 OBVIOUS
    <2> QED BY <2>1, SegmentsScans DEF Scans
  <1>2. ASSUME NEW t \in Seq(S), NEW x \in S
        PROVE  Segments(Append(t, x)) = Scan(Segments(t), x)
    <2> DEFINE n == Len(t)
               u == Append(t, x)
    <2>1. /\ u \in Seq(S) /\ Len(u) = n + 1 /\ u[n + 1] = x
          /\ \A k \in 1..n : u[k] = t[k]
      BY AppendProperties
    <2>2. n \in Nat OBVIOUS
    <2> HIDE DEF u
    <2>3. PICK g : Scans(g, t, n) /\ Segments(t) = g[n] BY SegmentsScans
    <2>4. PICK h : Scans(h, u, n + 1) /\ Segments(u) = h[n + 1]
      BY <2>1, SegmentsScans
    <2> DEFINE T == {k \in 0..n : g[k] = h[k]}
    <2>5. 0 \in T BY <2>2, <2>3, <2>4 DEF Scans
    <2>6. ASSUME NEW k \in 1..n, k - 1 \in T PROVE k \in T
      <3>1. k \in 1..(n + 1) /\ k \in 0..n /\ g[k - 1] = h[k - 1] BY <2>2, <2>6
      <3>2. g[k] = Scan(g[k - 1], t[k]) /\ h[k] = Scan(h[k - 1], u[k])
        BY <2>3, <2>4, <3>1 DEF Scans
      <3> QED BY <2>1, <3>1, <3>2
    <2> HIDE DEF T
    <2>7. \A k \in 0..n : k \in T BY <2>2, <2>5, <2>6, UpTo
    <2>8. g[n] = h[n] BY <2>2, <2>7 DEF T
    <2>9. h[n + 1] = Scan(h[n], x)
      <3>1. n + 1 \in 1..(n + 1) /\ (n + 1) - 1 = n BY <2>2
      <3> QED BY <2>1, <2>4, <3>1 DEF Scans
    <2> QED BY <2>3, <2>4, <2>8, <2>9 DEF u
  <1> QED BY <1>1, <1>2

\* What is put behind a sequence is put behind what stands in front of that.
LEMMA ConcatAppend ==
  ASSUME NEW S, NEW t \in Seq(S), NEW u \in Seq(S), NEW x \in S
  PROVE  t \o Append(u, x) = Append(t \o u, x)
  OBVIOUS

\* Segments can be appended before or after they are joined.
LEMMA SegmentsAppend ==
  ASSUME NEW S, NEW g \in Seq(Seq(S)), NEW e \in Seq(Seq(S)), NEW n \in Seq(S)
  PROVE  g \o Append(e, n) = Append(g \o e, n)
  <1> DEFINE P == Seq(S)
  <1>1. g \in Seq(P) /\ e \in Seq(P) /\ n \in P OBVIOUS
  <1> HIDE DEF P
  <1> QED BY <1>1, ConcatAppend

\* A symbol more is a segment more or goes to the last one.
LEMMA ScanIs ==
  ASSUME NEW S, NEW f \in Seq(Seq(S)), NEW l \in Seq(S), NEW x \in S
  PROVE  /\ x = "/" => Scan(Append(f, l), x) = Append(Append(f, l), <<>>)
         /\ x # "/" => Scan(Append(f, l), x) = Append(f, Append(l, x))
  <1> DEFINE P == Seq(S)
             n == Len(f) + 1
             s == Append(f, l)
             e == Append(l, x)
  <1>1. /\ s \in Seq(P) /\ Len(s) = n /\ s[n] = l /\ n \in 1..n
        /\ \A k \in 1..Len(f) : s[k] = f[k]
    <2> HIDE DEF P
    <2>1. f \in Seq(P) /\ l \in P BY DEF P
    <2>2. Len(f) \in Nat BY <2>1
    <2> QED BY <2>1, <2>2, AppendProperties
  <1>2. e \in P OBVIOUS
  <1>3. CASE x = "/" BY <1>3 DEF Scan
  <1>4. CASE x # "/"
    <2>1. Scan(s, x) = [s EXCEPT ![n] = e]
      BY <1>1, <1>4 DEF Scan
    <2> HIDE DEF s, e, P
    <2>2. f \in Seq(P) /\ l \in P BY DEF P
    <2>3. /\ [s EXCEPT ![n] = e] \in Seq(P)
          /\ Len([s EXCEPT ![n] = e]) = n
          /\ \A j \in 1..n : [s EXCEPT ![n] = e][j] = IF j = n THEN e ELSE s[j]
      BY <1>1, <1>2, ExceptSeq
    <2>4. /\ Append(f, e) \in Seq(P) /\ Len(Append(f, e)) = n
          /\ \A j \in 1..Len(f) : Append(f, e)[j] = f[j]
          /\ Append(f, e)[n] = e
      BY <1>2, <2>2, AppendProperties
    <2>5. \A j \in 1..n : j = n \/ j \in 1..Len(f)
      BY <2>2
    <2>6. [s EXCEPT ![n] = e] = Append(f, e)
      <3> DEFINE a == [s EXCEPT ![n] = e]
                 b == Append(f, e)
      <3>1. \A j \in 1..n : a[j] = b[j] BY <1>1, <2>3, <2>4, <2>5
      <3>2. a \in Seq(P) /\ b \in Seq(P) /\ Len(a) = n /\ Len(b) = n BY <2>3, <2>4
      <3> HIDE DEF a, b
      <3>3. a = b BY <3>1, <3>2, SeqEqual, SMTT(30)
      <3> QED BY <3>3 DEF a, b
    <2> QED BY <1>4, <2>1, <2>6 DEF s, e
  <1> QED BY <1>3, <1>4

\* A text has segments, of which there is a last one.
LEMMA SegmentsType ==
  ASSUME NEW S, NEW t \in Seq(S)
  PROVE  /\ Segments(t) \in Seq(Seq(S)) \ {<<>>}
         /\ \E f \in Seq(Seq(S)), l \in Seq(S) : Segments(t) = Append(f, l)
  <1> DEFINE T == {s \in Seq(S) : \E f \in Seq(Seq(S)), l \in Seq(S) :
                                     Segments(s) = Append(f, l)}
  <1>1. <<>> \in T
    <2>1. Segments(<<>>) = Append(<<>>, <<>>) BY SegmentsGrow
    <2>2. <<>> \in Seq(Seq(S)) /\ <<>> \in Seq(S) OBVIOUS
    <2> QED BY <2>1, <2>2
  <1>2. ASSUME NEW s \in Seq(S), NEW x \in S, s \in T PROVE Append(s, x) \in T
    <2>1. PICK f \in Seq(Seq(S)), l \in Seq(S) : Segments(s) = Append(f, l) BY <1>2
    <2>2. Segments(Append(s, x)) = Scan(Append(f, l), x) BY <2>1, SegmentsGrow
    <2>3. /\ Append(f, l) \in Seq(Seq(S)) /\ <<>> \in Seq(S)
          /\ Append(l, x) \in Seq(S) /\ Append(s, x) \in Seq(S)
      OBVIOUS
    <2>4. \/ Segments(Append(s, x)) = Append(Append(f, l), <<>>)
          \/ Segments(Append(s, x)) = Append(f, Append(l, x))
      BY <2>2, ScanIs
    <2> HIDE DEF T
    <2>5. \E h \in Seq(Seq(S)), m \in Seq(S) : Segments(Append(s, x)) = Append(h, m)
      BY <2>3, <2>4, Zenon
    <2> QED BY <2>3, <2>5 DEF T
  <1> HIDE DEF T
  <1>3. t \in T BY <1>1, <1>2, ByAppending
  <1>4. PICK f \in Seq(Seq(S)), l \in Seq(S) : Segments(t) = Append(f, l)
    BY <1>3 DEF T
  <1>5. Append(f, l) \in Seq(Seq(S)) \ {<<>>}
    <2> DEFINE P == Seq(S)
    <2> HIDE DEF P
    <2>1. f \in Seq(P) /\ l \in P BY DEF P
    <2>2. Append(f, l) \in Seq(P) /\ Append(f, l) # <<>> BY <2>1, AppendProperties
    <2> QED BY <2>2 DEF P
  <1> QED BY <1>4, <1>5, Zenon

\* A sequence with one more element is none without, and comes apart again.
LEMMA AppendTypes ==
  ASSUME NEW S, NEW f \in Seq(Seq(S)), NEW l \in Seq(S), NEW x \in S
  PROVE  /\ Append(f, l) \in Seq(Seq(S)) /\ Append(f, l) # <<>>
         /\ Append(l, x) \in Seq(S) /\ Append(l, x) # <<>>
  <1> DEFINE P == Seq(S)
  <1>1. f \in Seq(P) /\ l \in P BY DEF P
  <1>2. Append(l, x) \in Seq(S) /\ Append(l, x) # <<>> BY AppendProperties
  <1> HIDE DEF P
  <1>3. Append(f, l) \in Seq(P) /\ Append(f, l) # <<>> BY <1>1, AppendProperties
  <1> QED BY <1>2, <1>3 DEF P

\* The empty sequence, and the one whose only element is empty.
LEMMA NoneOrOne ==
  ASSUME NEW S
  PROVE  /\ <<>> \in Seq(S) /\ <<>> \in Seq(Seq(S)) /\ << <<>> >> \in Seq(Seq(S))
         /\ Append(<<>>, <<>>) = << <<>> >>
  OBVIOUS

\* What was appended, and to what, can be told from the result.
LEMMA AppendApart ==
  ASSUME NEW S, NEW f \in Seq(Seq(S)), NEW l \in Seq(S),
         NEW h \in Seq(Seq(S)), NEW m \in Seq(S), Append(f, l) = Append(h, m)
  PROVE  f = h /\ l = m
  <1> DEFINE P == Seq(S)
  <1>1. f \in Seq(P) /\ l \in P /\ h \in Seq(P) /\ m \in P BY DEF P
  <1> HIDE DEF P
  <1> QED BY <1>1, AppendInjective

\* The segments of t are those of f and, at the end, l.
Cut(t, f, l) == Segments(t) = Append(f, l)

\* The empty text has one segment, which is empty.
LEMMA CutEmpty == Cut(<<>>, <<>>, <<>>)
  <1>1. Segments(<<>>) = << <<>> >> BY SegmentsGrow
  <1>2. Append(<<>>, <<>>) = << <<>> >> OBVIOUS
  <1> QED BY <1>1, <1>2 DEF Cut

\* Every text has segments.
LEMMA CutExists ==
  ASSUME NEW S, NEW t \in Seq(S)
  PROVE  \E f \in Seq(Seq(S)), l \in Seq(S) : Cut(t, f, l)
  BY SegmentsType DEF Cut

\* A text is cut in one way.
LEMMA CutUnique ==
  ASSUME NEW S, NEW f \in Seq(Seq(S)), NEW l \in Seq(S),
         NEW h \in Seq(Seq(S)), NEW m \in Seq(S), NEW t, Cut(t, f, l), Cut(t, h, m)
  PROVE  f = h /\ l = m
  <1>1. Append(f, l) = Append(h, m) BY DEF Cut
  <1> QED BY <1>1, AppendApart

\* A slash more is an empty segment more; another symbol goes to the last one.
LEMMA CutGrows ==
  ASSUME NEW S, NEW t \in Seq(S), NEW x \in S,
         NEW f \in Seq(Seq(S)), NEW l \in Seq(S), Cut(t, f, l)
  PROVE  /\ x = "/" => Cut(Append(t, x), Append(f, l), <<>>)
         /\ x # "/" => Cut(Append(t, x), f, Append(l, x))
  <1>1. Segments(Append(t, x)) = Scan(Append(f, l), x) BY SegmentsGrow DEF Cut
  <1> QED BY <1>1, ScanIs DEF Cut

\* The last segment is empty where the text is or ends with a slash.
LEMMA CutLast ==
  ASSUME NEW S, NEW t \in Seq(S), NEW f \in Seq(Seq(S)), NEW l \in Seq(S),
         Cut(t, f, l)
  PROVE  l = <<>> <=> t = <<>> \/ t[Len(t)] = "/"
  <1>1. CASE t = <<>>
    <2>1. Cut(t, <<>>, <<>>) BY <1>1, CutEmpty
    <2>2. l = <<>> BY <2>1, NoneOrOne, CutUnique
    <2> QED BY <1>1, <2>2
  <1>2. CASE t # <<>>
    <2>1. PICK r \in Seq(S), x \in S : t = Append(r, x)
      BY <1>2, SequenceEmptyOrAppend
    <2>2. t[Len(t)] = x BY <2>1
    <2>3. PICK h \in Seq(Seq(S)), m \in Seq(S) : Cut(r, h, m) BY CutExists
    <2>4. /\ Append(h, m) \in Seq(Seq(S)) /\ <<>> \in Seq(S)
          /\ Append(m, x) \in Seq(S) /\ Append(m, x) # <<>>
      BY <2>1, <2>3, AppendTypes, NoneOrOne
    <2>5. CASE x = "/"
      <3>1. Cut(t, Append(h, m), <<>>) BY <2>1, <2>3, <2>5, CutGrows
      <3>2. l = <<>> BY <2>4, <3>1, CutUnique
      <3> QED BY <2>2, <2>5, <3>2
    <2>6. CASE x # "/"
      <3>1. Cut(t, h, Append(m, x)) BY <2>1, <2>3, <2>6, CutGrows
      <3>2. l = Append(m, x) BY <2>4, <3>1, CutUnique
      <3> QED BY <1>2, <2>2, <2>4, <2>6, <3>2
    <2> QED BY <2>5, <2>6
  <1> QED BY <1>1, <1>2

\* Text without a slash goes to the last segment.
LEMMA CutJoined ==
  ASSUME NEW S, NEW t \in Seq(S), NEW f \in Seq(Seq(S)), NEW l \in Seq(S),
         Cut(t, f, l),
         NEW w \in Seq(S), \A i \in 1..Len(w) : w[i] # "/"
  PROVE  Cut(t \o w, f, l \o w)
  <1> DEFINE T == {u \in Seq(S) : (\A i \in 1..Len(u) : u[i] # "/") =>
                                    Cut(t \o u, f, l \o u)}
  <1>1. <<>> \in T
    <2>1. t \o <<>> = t /\ l \o <<>> = l /\ <<>> \in Seq(S) BY ConcatEmptySeq, EmptySeq
    <2> QED BY <2>1
  <1>2. ASSUME NEW u \in Seq(S), NEW x \in S, u \in T PROVE Append(u, x) \in T
    <2> SUFFICES ASSUME \A i \in 1..Len(Append(u, x)) : Append(u, x)[i] # "/"
                 PROVE  Cut(t \o Append(u, x), f, l \o Append(u, x))
      BY AppendProperties
    <2>1. /\ Len(u) \in Nat /\ Len(Append(u, x)) = Len(u) + 1
          /\ Append(u, x)[Len(u) + 1] = x
          /\ \A i \in 1..Len(u) : Append(u, x)[i] = u[i]
      BY AppendProperties
    <2>2. x # "/" /\ \A i \in 1..Len(u) : u[i] # "/" BY <2>1
    <2>3. Cut(t \o u, f, l \o u) BY <1>2, <2>2
    <2>4. t \o u \in Seq(S) /\ l \o u \in Seq(S) BY ConcatProperties
    <2>5. t \o Append(u, x) = Append(t \o u, x) BY ConcatAppend
    <2>6. l \o Append(u, x) = Append(l \o u, x) BY ConcatAppend
    <2>7. Cut(Append(t \o u, x), f, Append(l \o u, x))
      BY <2>2, <2>3, <2>4, CutGrows
    <2> QED BY <2>5, <2>6, <2>7
  <1> HIDE DEF T
  <1>3. w \in T BY <1>1, <1>2, ByAppending
  <1> QED BY <1>3 DEF T

\* A slash in front makes an empty segment in front.
LEMMA CutAfterSlash ==
  ASSUME NEW S, "/" \in S, NEW t \in Seq(S),
         NEW f \in Seq(Seq(S)), NEW l \in Seq(S), Cut(t, f, l)
  PROVE  Cut(<<"/">> \o t, << <<>> >> \o f, l)
  <1> DEFINE first == << <<>> >>
             slash == <<"/">>
             T == {u \in Seq(S) : \A h \in Seq(Seq(S)), m \in Seq(S) :
                                     Cut(u, h, m) => Cut(slash \o u, first \o h, m)}
  <1>0. /\ <<>> \in Seq(S) /\ <<>> \in Seq(Seq(S))
        /\ \A v : \A h, g \in Seq(Seq(S)), m, k \in Seq(S) :
             Cut(v, h, m) /\ Cut(v, g, k) => h = g /\ m = k
    BY CutUnique, NoneOrOne
  <1>1. first \in Seq(Seq(S)) /\ slash \in Seq(S) BY NoneOrOne
  <1>2. <<>> \in T
    <2>1. slash \o <<>> = Append(<<>>, "/") /\ first \o <<>> = first OBVIOUS
    <2>2. Cut(Append(<<>>, "/"), Append(<<>>, <<>>), <<>>)
      BY CutEmpty, NoneOrOne, CutGrows
    <2>3. Cut(slash \o <<>>, first \o <<>>, <<>>) BY <2>1, <2>2, NoneOrOne
    <2>4. \A h \in Seq(Seq(S)), m \in Seq(S) : Cut(<<>>, h, m) => h = <<>> /\ m = <<>>
      BY <1>0, CutEmpty
    <2> HIDE DEF first, slash
    <2> QED BY <2>3, <2>4, NoneOrOne
  <1> HIDE DEF first, slash
  <1>5. ASSUME NEW e \in Seq(Seq(S)), NEW n \in Seq(S)
        PROVE  first \o Append(e, n) = Append(first \o e, n)
    <2>1. first \in Seq(Seq(S)) BY <1>1
    <2> QED BY <2>1, SegmentsAppend
  <1>3. ASSUME NEW u \in Seq(S), NEW x \in S, u \in T PROVE Append(u, x) \in T
    <2>1. slash \o Append(u, x) = Append(slash \o u, x) BY <1>1, ConcatAppend
    <2>2. slash \o u \in Seq(S) /\ Append(u, x) \in Seq(S)
      BY <1>1, ConcatProperties, AppendProperties
    <2> SUFFICES ASSUME NEW h \in Seq(Seq(S)), NEW m \in Seq(S), Cut(Append(u, x), h, m)
                 PROVE  Cut(slash \o Append(u, x), first \o h, m)
      BY <2>2
    <2>3. PICK g \in Seq(Seq(S)), k \in Seq(S) : Cut(u, g, k) BY CutExists
    <2>4. Cut(slash \o u, first \o g, k) BY <1>3, <2>3
    <2>5. /\ first \o g \in Seq(Seq(S))
          /\ first \o Append(g, k) = Append(first \o g, k)
      <3> DEFINE P == Seq(S)
      <3>1. g \in Seq(P) /\ first \in Seq(P) BY <1>1 DEF P
      <3> HIDE DEF P
      <3>2. first \o g \in Seq(P) BY <3>1, ConcatProperties
      <3>3. first \o Append(g, k) = Append(first \o g, k) BY <1>5
      <3> QED BY <3>2, <3>3 DEF P
    <2>6. /\ Append(g, k) \in Seq(Seq(S)) /\ Append(k, x) \in Seq(S) /\ <<>> \in Seq(S)
      BY <2>3, AppendTypes, NoneOrOne
    <2>7. CASE x = "/"
      <3>1. Cut(Append(u, x), Append(g, k), <<>>) BY <2>3, <2>7, CutGrows
      <3>2. h = Append(g, k) /\ m = <<>> BY <1>0, <2>6, <3>1
      <3>3. Cut(Append(slash \o u, x), Append(first \o g, k), <<>>)
        BY <2>2, <2>4, <2>5, <2>7, CutGrows
      <3> QED BY <2>1, <2>5, <3>2, <3>3
    <2>8. CASE x # "/"
      <3>1. Cut(Append(u, x), g, Append(k, x)) BY <2>3, <2>8, CutGrows
      <3>2. h = g /\ m = Append(k, x) BY <1>0, <2>6, <3>1
      <3>3. Cut(Append(slash \o u, x), first \o g, Append(k, x))
        BY <2>2, <2>4, <2>5, <2>8, CutGrows
      <3> QED BY <2>1, <3>2, <3>3
    <2> QED BY <2>7, <2>8
  <1> HIDE DEF T
  <1>4. t \in T BY <1>2, <1>3, ByAppending
  <1> QED BY <1>4 DEF T, first, slash

\* Texts that are cut in the same way are the same.
LEMMA CutInjective ==
  ASSUME NEW S, NEW t \in Seq(S), NEW u \in Seq(S),
         NEW f \in Seq(Seq(S)), NEW l \in Seq(S), Cut(t, f, l), Cut(u, f, l)
  PROVE  t = u
  <1> DEFINE T == {v \in Seq(S) : \A w \in Seq(S), h \in Seq(Seq(S)), m \in Seq(S) :
                                     Cut(v, h, m) /\ Cut(w, h, m) => v = w}
  <1>0. /\ <<>> \in Seq(S) /\ <<>> \in Seq(Seq(S))
        /\ \A v : \A h, g \in Seq(Seq(S)), m, k \in Seq(S) :
             Cut(v, h, m) /\ Cut(v, g, k) => h = g /\ m = k
    BY CutUnique, NoneOrOne
  <1>1. <<>> \in T
    <2>0. \A h \in Seq(Seq(S)), m \in Seq(S) : Cut(<<>>, h, m) => h = <<>> /\ m = <<>>
      BY <1>0, CutEmpty
    <2> SUFFICES ASSUME NEW w \in Seq(S), Cut(w, <<>>, <<>>) PROVE w = <<>>
      BY <1>0, <2>0
    <2> SUFFICES ASSUME w # <<>> PROVE FALSE OBVIOUS
    <2>1. PICK r \in Seq(S), x \in S : w = Append(r, x) BY SequenceEmptyOrAppend
    <2>2. PICK h \in Seq(Seq(S)), m \in Seq(S) : Cut(r, h, m) BY CutExists
    <2>3. /\ Append(h, m) \in Seq(Seq(S)) /\ Append(h, m) # <<>>
          /\ Append(m, x) \in Seq(S) /\ Append(m, x) # <<>>
      BY <2>1, <2>2, AppendTypes
    <2>4. CASE x = "/"
      <3>1. Cut(w, Append(h, m), <<>>) BY <2>1, <2>2, <2>4, CutGrows
      <3> QED BY <2>3, <3>1, <1>0
    <2>5. CASE x # "/"
      <3>1. Cut(w, h, Append(m, x)) BY <2>1, <2>2, <2>5, CutGrows
      <3> QED BY <2>3, <3>1, <1>0
    <2> QED BY <2>4, <2>5
  <1>2. ASSUME NEW v \in Seq(S), NEW y \in S, v \in T PROVE Append(v, y) \in T
    <2>20. Append(v, y) \in Seq(S) BY AppendProperties
    <2>21. Append(v, y) # <<>> BY AppendProperties, SMTT(30)
    <2>1. Append(v, y) \in Seq(S) /\ Append(v, y) # <<>> BY <2>20, <2>21
    <2> SUFFICES ASSUME NEW w \in Seq(S), NEW h \in Seq(Seq(S)), NEW m \in Seq(S),
                        Cut(Append(v, y), h, m), Cut(w, h, m)
                 PROVE  Append(v, y) = w
      BY <2>1
    <2>2. PICK g \in Seq(Seq(S)), k \in Seq(S) : Cut(v, g, k) BY CutExists
    <2>3. /\ Append(g, k) \in Seq(Seq(S)) /\ Append(g, k) # <<>>
          /\ Append(k, y) \in Seq(S) /\ Append(k, y) # <<>>
      BY <1>2, <2>2, AppendTypes
    <2>4. \/ y = "/" /\ h = Append(g, k) /\ m = <<>>
          \/ y # "/" /\ h = g /\ m = Append(k, y)
      <3>1. CASE y = "/"
        <4>1. Cut(Append(v, y), Append(g, k), <<>>) BY <1>2, <2>2, <3>1, CutGrows
        <4> QED BY <2>3, <3>1, <4>1, <1>0
      <3>2. CASE y # "/"
        <4>1. Cut(Append(v, y), g, Append(k, y)) BY <1>2, <2>2, <3>2, CutGrows
        <4> QED BY <2>3, <3>2, <4>1, <1>0
      <3> QED BY <3>1, <3>2
    <2>5. w # <<>>
      <3> SUFFICES ASSUME w = <<>> PROVE FALSE OBVIOUS
      <3>1. h = <<>> /\ m = <<>> BY <1>0, CutEmpty
      <3> QED BY <2>3, <2>4, <3>1
    <2>6. PICK r \in Seq(S), x \in S : w = Append(r, x)
      BY <2>5, SequenceEmptyOrAppend
    <2>7. PICK a \in Seq(Seq(S)), b \in Seq(S) : Cut(r, a, b) BY CutExists
    <2>8. /\ Append(a, b) \in Seq(Seq(S)) /\ Append(a, b) # <<>>
          /\ Append(b, x) \in Seq(S) /\ Append(b, x) # <<>>
      BY <2>6, <2>7, AppendTypes
    <2>9. \/ x = "/" /\ h = Append(a, b) /\ m = <<>>
          \/ x # "/" /\ h = a /\ m = Append(b, x)
      <3>1. CASE x = "/"
        <4>1. Cut(w, Append(a, b), <<>>) BY <2>6, <2>7, <3>1, CutGrows
        <4> QED BY <2>8, <3>1, <4>1, <1>0
      <3>2. CASE x # "/"
        <4>1. Cut(w, a, Append(b, x)) BY <2>6, <2>7, <3>2, CutGrows
        <4> QED BY <2>8, <3>2, <4>1, <1>0
      <3> QED BY <3>1, <3>2
    <2>10. x = y /\ a = g /\ b = k
      <3>1. CASE x = "/"
        <4>1. y = "/" /\ Append(a, b) = Append(g, k) BY <2>3, <2>4, <2>9, <3>1
        <4>2. a = g /\ b = k
          <5> DEFINE P == Seq(S)
          <5>1. a \in Seq(P) /\ b \in P /\ g \in Seq(P) /\ k \in P BY DEF P
          <5> HIDE DEF P
          <5> QED BY <4>1, <5>1, AppendInjective, SMTT(30)
        <4> QED BY <3>1, <4>1, <4>2
      <3>2. CASE x # "/"
        <4>1. a = g /\ Append(b, x) = Append(k, y) BY <2>4, <2>8, <2>9, <3>2
        <4>2. b = k /\ x = y BY <1>2, <2>2, <2>6, <2>7, <4>1, AppendInjective
        <4> QED BY <4>1, <4>2
      <3> QED BY <3>1, <3>2
    <2>11. v = r BY <1>2, <2>2, <2>7, <2>10
    <2> QED BY <2>6, <2>10, <2>11
  <1> HIDE DEF T
  <1>3. t \in T BY <1>1, <1>2, ByAppending
  <1> QED BY <1>3 DEF T

-----------------------------------------------------------------------------
(* Shapes and names.                                                       *)

\* The segments s without their names.
ShapeOf(s) == [i \in DOMAIN s |-> Unnamed(s[i])]

\* A segment without its name is a segment.
LEMMA UnnamedType ==
  ASSUME NEW S, NEW l \in Seq(S)
  PROVE  /\ Unnamed(l) \in Seq(S) /\ Unnamed(<<>>) = <<>>
         /\ IsSpecial(l) => Unnamed(l) = <<l[1]>>
         /\ ~IsSpecial(l) => Unnamed(l) = l
  <1>1. Unnamed(<<>>) = <<>> BY DEF Unnamed, IsSpecial
  <1>2. l # <<>> => Head(l) \in S /\ Head(l) = l[1] OBVIOUS
  <1> QED BY <1>1, <1>2 DEF Unnamed, IsSpecial

\* A segment more is one more in the shape.
LEMMA ShapeGrows ==
  ASSUME NEW S
  PROVE  /\ ShapeOf(<<>>) = <<>>
         /\ \A f \in Seq(Seq(S)), l \in Seq(S) :
              /\ ShapeOf(f) \in Seq(Seq(S))
              /\ ShapeOf(Append(f, l)) = Append(ShapeOf(f), Unnamed(l))
  <1> DEFINE P == Seq(S)
  <1>1. \A l \in P : Unnamed(l) \in P BY UnnamedType
  <1>2. ShapeOf(<<>>) = <<>> BY DEF ShapeOf
  <1>3. ASSUME NEW f \in Seq(P), NEW l \in P
        PROVE  /\ ShapeOf(f) \in Seq(P)
               /\ ShapeOf(Append(f, l)) = Append(ShapeOf(f), Unnamed(l))
    <2> HIDE DEF P
    <2> DEFINE g == Append(f, l)
               n == Len(f)
    <2>1. n \in Nat /\ DOMAIN f = 1..n BY LenProperties
    <2>2. /\ g \in Seq(P) /\ Len(g) = n + 1 /\ g[n + 1] = l
          /\ \A k \in 1..n : g[k] = f[k]
      BY AppendProperties
    <2>3. DOMAIN g = 1..(n + 1) BY <2>2, LenProperties
    <2>4. \A k \in 1..n : f[k] \in P BY <2>1
    <2> HIDE DEF g, n
    <2>5. ShapeOf(f) \in Seq(P) /\ Len(ShapeOf(f)) = n
      BY <1>1, <2>1, <2>4 DEF ShapeOf
    <2>6. ShapeOf(g) \in Seq(P) /\ Len(ShapeOf(g)) = n + 1
      <3>1. \A k \in 1..(n + 1) : g[k] \in P BY <2>2, <2>3
      <3> QED BY <1>1, <2>1, <2>3, <3>1 DEF ShapeOf
    <2>7. /\ Append(ShapeOf(f), Unnamed(l)) \in Seq(P)
          /\ Len(Append(ShapeOf(f), Unnamed(l))) = n + 1
          /\ Append(ShapeOf(f), Unnamed(l))[n + 1] = Unnamed(l)
          /\ \A k \in 1..n : Append(ShapeOf(f), Unnamed(l))[k] = ShapeOf(f)[k]
      BY <1>1, <2>5, AppendProperties
    <2>8. \A k \in 1..n : ShapeOf(f)[k] = Unnamed(f[k]) BY <2>1 DEF ShapeOf
    <2>9. \A k \in 1..(n + 1) : ShapeOf(g)[k] = Unnamed(g[k]) BY <2>3 DEF ShapeOf
    <2>10. \A k \in 1..(n + 1) : k \in 1..n \/ k = n + 1 BY <2>1
    <2>11. \A k \in 1..(n + 1) :
             ShapeOf(g)[k] = Append(ShapeOf(f), Unnamed(l))[k]
      <3> TAKE k \in 1..(n + 1)
      <3>1. CASE k \in 1..n BY <2>2, <2>7, <2>8, <2>9, <3>1
      <3>2. CASE k = n + 1 BY <2>2, <2>7, <2>9, <3>2
      <3> QED BY <2>10, <3>1, <3>2
    <2>12. ShapeOf(g) = Append(ShapeOf(f), Unnamed(l))
      BY <2>6, <2>7, <2>11, SeqEqual
    <2> QED BY <2>5, <2>12 DEF g
  <1> QED BY <1>2, <1>3

\* g holds the names in the beginnings of s.
Collects(g, s, n) ==
  /\ g[0] = <<>>
  /\ \A k \in 1..n :
       /\ IsSpecial(s[k]) => g[k] = Append(g[k - 1], Tail(s[k]))
       /\ ~IsSpecial(s[k]) => g[k] = g[k - 1]

\* The recursion of NamesIn has a solution.
LEMMA NamesCollects ==
  ASSUME NEW S, NEW s \in Seq(Seq(S))
  PROVE  /\ \E g : Collects(g, s, Len(s)) /\ NamesIn(s) = g[Len(s)]
         /\ NamesIn(s) \in Seq(Seq(S))
  <1> DEFINE P == Seq(S)
             V == Seq(P)
             n == Len(s)
             More(v, k) == IF IsSpecial(s[k]) THEN Append(v, Tail(s[k])) ELSE v
             Body(g, k) == IF k = 0 THEN <<>>
                           ELSE IF IsSpecial(s[k]) THEN Append(g[k - 1], Tail(s[k]))
                           ELSE g[k - 1]
             names == CHOOSE g : g = [k \in 0..n |-> Body(g, k)]
  <1>1. NamesIn(s) = names[n] BY DEF NamesIn
  <1>2. n \in Nat OBVIOUS
  <1>3. <<>> \in V OBVIOUS
  <1>4. \A v \in V, k \in 1..n : More(v, k) \in V
    <2> TAKE v \in V, k \in 1..n
    <2>1. s[k] \in P OBVIOUS
    <2>2. IsSpecial(s[k]) => Tail(s[k]) \in P BY <2>1 DEF IsSpecial
    <2> HIDE DEF P
    <2>3. \A x \in P : Append(v, x) \in V OBVIOUS
    <2> QED BY <2>2, <2>3
  <1>5. PICK g \in [0..n -> V] : g[0] = <<>> /\ \A k \in 1..n : g[k] = More(g[k - 1], k)
    <2> DEFINE step == [x \in V \X (1..n) |-> More(x[1], x[2])]
    <2> HIDE DEF V, More, n
    <2>1. step \in [V \X (1..n) -> V] BY <1>4
    <2>2. \A v \in V, k \in 1..n : step[<<v, k>>] = More(v, k) OBVIOUS
    <2> HIDE DEF step
    <2>3. PICK g \in [0..n -> V] : Steps(g, <<>>, step, n)
      <3>1. n \in Nat BY <1>2 DEF n
      <3> QED BY <1>3, <2>1, <3>1, Recursion
    <2>4. \A k \in 1..n : g[k - 1] \in V BY <1>2, <2>3
    <2>5. \A k \in 1..n : g[k] = More(g[k - 1], k) BY <2>2, <2>3, <2>4 DEF Steps
    <2> QED BY <2>3, <2>5 DEF Steps
  <1>6. \E h : h = [k \in 0..n |-> Body(h, k)]
    <2>1. \A k \in 0..n : g[k] = Body(g, k)
      <3>1. n \in Nat BY <1>2
      <3> HIDE DEF n, V
      <3>2. \A k \in 0..n : k = 0 \/ k \in 1..n BY <3>1
      <3>3. g[0] = Body(g, 0) BY <1>5
      <3>4. \A k \in 1..n : More(g[k - 1], k) = Body(g, k) BY <3>1
      <3> HIDE DEF More, Body
      <3> QED BY <1>5, <3>2, <3>3, <3>4
    <2>2. g = [k \in 0..n |-> g[k]]
      <3> HIDE DEF n, V
      <3> QED BY <1>5
    <2> HIDE DEF Body, n, V
    <2>3. g = [k \in 0..n |-> Body(g, k)] BY <2>1, <2>2
    <2> QED BY <2>3
  <1>7. names = [k \in 0..n |-> Body(names, k)] BY <1>6
  <1> HIDE DEF names, n
  <1>8. Collects(names, s, n)
    <2>1. names[0] = <<>> BY <1>2, <1>7
    <2>2. \A k \in 1..n : names[k] = Body(names, k) /\ k # 0
      <3>1. n \in Nat BY <1>2 DEF n
      <3>2. \A k \in 1..n : k \in 0..n /\ k # 0 BY <3>1
      <3> HIDE DEF Body
      <3> QED BY <1>7, <3>2
    <2> QED BY <2>1, <2>2 DEF Collects
  <1>9. names[n] \in V
    <2> DEFINE T == {k \in 0..n : names[k] \in V}
    <2>0. n \in Nat BY <1>2 DEF n
    <2>1. 0 \in T
      <3>1. names[0] = <<>> /\ 0 \in 0..n BY <1>8, <2>0 DEF Collects
      <3> HIDE DEF V
      <3> QED BY <1>3, <3>1
    <2>2. ASSUME NEW k \in 1..n, k - 1 \in T PROVE k \in T
      <3>1. names[k - 1] \in V /\ k \in 0..n BY <2>0, <2>2
      <3>2. names[k] = More(names[k - 1], k) BY <1>8 DEF Collects
      <3>3. More(names[k - 1], k) \in V BY <1>4, <3>1
      <3> HIDE DEF More, V
      <3> QED BY <3>1, <3>2, <3>3
    <2> HIDE DEF T
    <2>3. \A k \in 0..n : k \in T BY <2>0, <2>1, <2>2, UpTo
    <2> QED BY <2>0, <2>3 DEF T
  <1> QED BY <1>1, <1>8, <1>9 DEF n

\* A special segment more is a name more.
LEMMA NamesGrow ==
  ASSUME NEW S, NEW f \in Seq(Seq(S)), NEW l \in Seq(S)
  PROVE  /\ NamesIn(<<>>) = <<>>
         /\ IsSpecial(l) => NamesIn(Append(f, l)) = Append(NamesIn(f), Tail(l))
         /\ ~IsSpecial(l) => NamesIn(Append(f, l)) = NamesIn(f)
  <1> DEFINE P == Seq(S)
             n == Len(f)
             s == Append(f, l)
  <1>1. NamesIn(<<>>) = <<>>
    <2>1. <<>> \in Seq(Seq(S)) /\ Len(<<>>) = 0 OBVIOUS
    <2> QED BY <2>1, NamesCollects DEF Collects
  <1>2. /\ s \in Seq(P) /\ Len(s) = n + 1 /\ s[n + 1] = l
        /\ \A k \in 1..n : s[k] = f[k]
    <2> HIDE DEF P
    <2>1. f \in Seq(P) /\ l \in P BY DEF P
    <2> QED BY <2>1, AppendProperties
  <1>3. n \in Nat OBVIOUS
  <1> HIDE DEF s
  <1>4. PICK g : Collects(g, f, n) /\ NamesIn(f) = g[n] BY NamesCollects
  <1>5. PICK h : Collects(h, s, n + 1) /\ NamesIn(s) = h[n + 1]
    BY <1>2, NamesCollects
  <1> DEFINE T == {k \in 0..n : g[k] = h[k]}
  <1>6. 0 \in T BY <1>3, <1>4, <1>5 DEF Collects
  <1> HIDE DEF n
  <1>7. ASSUME NEW k \in 1..n, k - 1 \in T PROVE k \in T
    <2>0. n \in Nat BY <1>3 DEF n
    <2>1. /\ k \in 1..(n + 1) /\ k \in 0..n
          /\ g[k - 1] = h[k - 1] /\ s[k] = f[k]
      <3>1. k \in 1..(n + 1) /\ k \in 0..n BY <2>0
      <3>2. g[k - 1] = h[k - 1] BY <1>7
      <3>3. s[k] = f[k] BY <1>2 DEF n
      <3> QED BY <3>1, <3>2, <3>3
    <2>2. /\ IsSpecial(s[k]) => g[k] = Append(g[k - 1], Tail(s[k]))
          /\ ~IsSpecial(s[k]) => g[k] = g[k - 1]
      BY <1>4, <2>1 DEF Collects
    <2>3. /\ IsSpecial(s[k]) => h[k] = Append(h[k - 1], Tail(s[k]))
          /\ ~IsSpecial(s[k]) => h[k] = h[k - 1]
      BY <1>5, <2>1 DEF Collects
    <2> QED BY <2>1, <2>2, <2>3
  <1> HIDE DEF T
  <1>8. \A k \in 0..n : k \in T BY <1>3, <1>6, <1>7, UpTo
  <1>9. g[n] = h[n]
    <2>1. n \in Nat BY <1>3 DEF n
    <2>2. n \in T BY <1>8, <2>1
    <2> QED BY <2>2 DEF T
  <1>10. /\ IsSpecial(l) => h[n + 1] = Append(h[n], Tail(l))
         /\ ~IsSpecial(l) => h[n + 1] = h[n]
    <2>1. n \in Nat BY <1>3 DEF n
    <2>2. n + 1 \in 1..(n + 1) /\ (n + 1) - 1 = n BY <2>1
    <2> QED BY <1>2, <1>5, <2>2 DEF Collects
  <1> QED BY <1>1, <1>4, <1>5, <1>9, <1>10 DEF s

\* The text q was read of a pattern and rest is left: u is q without the names
\* of its specials, and those are names.  A special at the end of q is complete.
Reads(S, q, u, names, rest) ==
  \E f \in Seq(Seq(S)), l \in Seq(S) :
    /\ Cut(q, f, l) /\ Cut(u, ShapeOf(f), Unnamed(l))
    /\ names = NamesIn(Append(f, l))
    /\ IsSpecial(l) => rest = <<>> \/ rest[1] = "/"

\* At first nothing was read.
LEMMA ReadsNothing ==
  ASSUME NEW S, NEW rest \in Seq(S)
  PROVE  Reads(S, <<>>, <<>>, <<>>, rest)
  <1>1. /\ <<>> \in Seq(S) /\ <<>> \in Seq(Seq(S)) BY NoneOrOne
  <1>2. ShapeOf(<<>>) = <<>> /\ Unnamed(<<>>) = <<>> BY <1>1, ShapeGrows, UnnamedType
  <1>3. ~IsSpecial(<<>>) BY DEF IsSpecial
  <1>4. NamesIn(Append(<<>>, <<>>)) = <<>> BY <1>1, <1>3, NamesGrow
  <1> QED BY <1>1, <1>2, <1>3, <1>4, CutEmpty DEF Reads

\* A segment that does not begin with a marker is not special when it grows by
\* a symbol that is none.
LEMMA StaysLiteral ==
  ASSUME NEW S, NEW l \in Seq(S), ~IsSpecial(l), NEW x \in S, x \notin Markers
  PROVE  ~IsSpecial(Append(l, x))
  <1>1. Append(l, x) \in Seq(S) /\ Head(Append(l, x)) = Append(l, x)[1]
    BY AppendProperties
  <1>2. CASE l = <<>>
    <2>1. Append(l, x)[1] = x BY <1>2
    <2> QED BY <1>1, <2>1 DEF IsSpecial
  <1>3. CASE l # <<>>
    <2>1. Append(l, x)[1] = l[1] /\ Head(l) = l[1] BY <1>3
    <2> QED BY <1>1, <1>3, <2>1 DEF IsSpecial
  <1> QED BY <1>2, <1>3

\* Literal text is read as it is.
LEMMA ReadsText ==
  ASSUME NEW S, NEW q \in Seq(S), NEW u \in Seq(S), NEW names,
         NEW v \in Seq(S), \A i \in 1..Len(v) : v[i] \notin Markers,
         v # <<>>, Reads(S, q, u, names, v),
         NEW rest
  PROVE  Reads(S, q \o v, u \o v, names, rest)
  <1>1. PICK f \in Seq(Seq(S)), l \in Seq(S) :
          /\ Cut(q, f, l) /\ Cut(u, ShapeOf(f), Unnamed(l))
          /\ names = NamesIn(Append(f, l))
          /\ IsSpecial(l) => v = <<>> \/ v[1] = "/"
    BY DEF Reads
  <1> DEFINE Literal(w) == \A i \in 1..Len(w) : w[i] \notin Markers
             Open(w) == IsSpecial(l) => w = <<>> \/ w[1] = "/"
             Read(w) == \E h \in Seq(Seq(S)), m \in Seq(S) :
                          /\ Cut(q \o w, h, m) /\ Cut(u \o w, ShapeOf(h), Unnamed(m))
                          /\ NamesIn(Append(h, m)) = names
                          /\ w # <<>> => ~IsSpecial(m)
                          /\ w = <<>> => m = l
             T == {w \in Seq(S) : Literal(w) /\ Open(w) => Read(w)}
  <1>2. <<>> \in T
    <2>1. q \o <<>> = q /\ u \o <<>> = u /\ <<>> \in Seq(S) BY ConcatEmptySeq, EmptySeq
    <2>2. Read(<<>>) BY <1>1, <2>1
    <2> HIDE DEF Read
    <2> QED BY <2>1, <2>2
  <1>3. ASSUME NEW w \in Seq(S), NEW x \in S, w \in T PROVE Append(w, x) \in T
    <2> DEFINE a == Append(w, x)
    <2>1. /\ a \in Seq(S) /\ a # <<>> /\ Len(w) \in Nat /\ Len(a) = Len(w) + 1
          /\ a[Len(w) + 1] = x /\ \A i \in 1..Len(w) : a[i] = w[i]
      <3>1. Len(w) \in Nat OBVIOUS
      <3>2. Append(w, x) # <<>> /\ Append(w, x) \in Seq(S) BY AppendTypes, NoneOrOne
      <3>3. /\ Len(Append(w, x)) = Len(w) + 1 /\ Append(w, x)[Len(w) + 1] = x
            /\ \A i \in 1..Len(w) : Append(w, x)[i] = w[i]
        BY AppendProperties
      <3> HIDE DEF T, Read
      <3> QED BY <3>1, <3>2, <3>3
    <2>2. q \o a = Append(q \o w, x) /\ u \o a = Append(u \o w, x) BY ConcatAppend, SMTT(30)
    <2> HIDE DEF a
    <2> SUFFICES ASSUME Literal(a), Open(a) PROVE Read(a)
      BY <2>1 DEF a
    <2>3. x \notin Markers /\ Literal(w) BY <2>1
    <2>4. w # <<>> => a[1] = w[1] BY <2>1
    <2>5. w = <<>> => a[1] = x BY <2>1
    <2>6. Open(w) BY <2>4, <2>1
    <2>7. Read(w)
      <3> HIDE DEF Read, Open, Literal
      <3> QED BY <1>3, <2>3, <2>6
    <2>8. PICK h \in Seq(Seq(S)), m \in Seq(S) :
            /\ Cut(q \o w, h, m) /\ Cut(u \o w, ShapeOf(h), Unnamed(m))
            /\ NamesIn(Append(h, m)) = names
            /\ w # <<>> => ~IsSpecial(m)
            /\ w = <<>> => m = l
      BY <2>7
    <2>9. q \o w \in Seq(S) /\ u \o w \in Seq(S) BY ConcatProperties
    <2>10. /\ ShapeOf(h) \in Seq(Seq(S)) /\ Unnamed(m) \in Seq(S)
           /\ Append(h, m) \in Seq(Seq(S)) /\ Append(m, x) \in Seq(S)
           /\ <<>> \in Seq(S)
      BY <2>1, <2>8, ShapeGrows, UnnamedType, AppendTypes, NoneOrOne
    <2>11. CASE x = "/"
      <3>1. Cut(q \o a, Append(h, m), <<>>) BY <2>2, <2>8, <2>9, <2>11, CutGrows
      <3>2. Cut(u \o a, Append(ShapeOf(h), Unnamed(m)), <<>>)
        BY <2>2, <2>8, <2>9, <2>10, <2>11, CutGrows
      <3>3. ShapeOf(Append(h, m)) = Append(ShapeOf(h), Unnamed(m)) BY ShapeGrows
      <3>4. Unnamed(<<>>) = <<>> /\ ~IsSpecial(<<>>)
        BY <2>10, UnnamedType DEF IsSpecial
      <3>5. NamesIn(Append(Append(h, m), <<>>)) = NamesIn(Append(h, m))
        BY <2>10, <3>4, NamesGrow
      <3>6. /\ Cut(u \o a, ShapeOf(Append(h, m)), Unnamed(<<>>))
            /\ NamesIn(Append(Append(h, m), <<>>)) = names
        BY <2>8, <3>2, <3>3, <3>4, <3>5
      <3> QED BY <2>1, <2>10, <3>1, <3>4, <3>6
    <2>12. CASE x # "/"
      <3>1. ~IsSpecial(m)
        <4>1. CASE w # <<>> BY <2>8, <4>1
        <4>2. CASE w = <<>> BY <2>1, <2>5, <2>8, <2>12, <4>2
        <4> QED BY <4>1, <4>2
      <3>2. ~IsSpecial(Append(m, x)) BY <2>3, <3>1, StaysLiteral
      <3>3. Unnamed(m) = m /\ Unnamed(Append(m, x)) = Append(m, x)
        BY <2>10, <3>1, <3>2, UnnamedType
      <3>4. Cut(q \o a, h, Append(m, x)) BY <2>2, <2>8, <2>9, <2>12, CutGrows
      <3>5. Cut(u \o a, ShapeOf(h), Append(m, x))
        BY <2>2, <2>8, <2>9, <2>10, <2>12, <3>3, CutGrows
      <3>6. NamesIn(Append(h, Append(m, x))) = NamesIn(Append(h, m))
        <4>1. NamesIn(Append(h, m)) = NamesIn(h) BY <3>1, NamesGrow
        <4>2. NamesIn(Append(h, Append(m, x))) = NamesIn(h) BY <2>10, <3>2, NamesGrow
        <4> QED BY <4>1, <4>2
      <3>7. /\ Cut(u \o a, ShapeOf(h), Unnamed(Append(m, x)))
            /\ NamesIn(Append(h, Append(m, x))) = names
        BY <2>8, <3>3, <3>5, <3>6
      <3> QED BY <2>1, <2>10, <3>2, <3>4, <3>7
    <2> QED BY <2>11, <2>12
  <1> HIDE DEF T
  <1>4. v \in T BY <1>2, <1>3, ByAppending
  <1>5. Read(v) BY <1>1, <1>4 DEF T
  <1> QED BY <1>5 DEF Reads

\* A special that starts a segment is read without its name.
LEMMA ReadsSpecial ==
  ASSUME NEW S, NEW q \in Seq(S), NEW u \in Seq(S), NEW names, NEW old,
         Reads(S, q, u, names, old),
         q # <<>>, q[Len(q)] = "/",
         NEW w \in Seq(S), w # <<>>, w[1] \in Markers,
         \A i \in 1..Len(w) : w[i] # "/",
         NEW rest, rest = <<>> \/ rest[1] = "/"
  PROVE  Reads(S, q \o w, u \o <<w[1]>>, Append(names, Tail(w)), rest)
  <1>1. PICK f \in Seq(Seq(S)), l \in Seq(S) :
          /\ Cut(q, f, l) /\ Cut(u, ShapeOf(f), Unnamed(l))
          /\ names = NamesIn(Append(f, l))
    BY DEF Reads
  <1>2. l = <<>> BY <1>1, CutLast
  <1>3. <<>> \in Seq(S) /\ Unnamed(l) = <<>> /\ ~IsSpecial(l)
    BY <1>2, NoneOrOne, UnnamedType DEF IsSpecial
  <1> DEFINE c == <<w[1]>>
  <1>4. c \in Seq(S) /\ Len(c) = 1 /\ c[1] = w[1] /\ Head(w) = w[1] OBVIOUS
  <1>5. \A i \in 1..Len(c) : c[i] # "/" BY <1>4
  <1> HIDE DEF c
  <1>6. <<>> \o w = w /\ <<>> \o c = c BY <1>4, ConcatEmptySeq
  <1>7. Cut(q \o w, f, w)
    <2>1. Cut(q \o w, f, l \o w) BY <1>1, CutJoined
    <2> QED BY <1>2, <1>6, <2>1
  <1>8. Cut(u \o c, ShapeOf(f), c)
    <2>1. ShapeOf(f) \in Seq(Seq(S)) BY ShapeGrows
    <2>2. Cut(u \o c, ShapeOf(f), <<>> \o c)
      BY <1>1, <1>3, <1>4, <1>5, <2>1, CutJoined
    <2> QED BY <1>6, <2>2
  <1>9. IsSpecial(w) /\ Unnamed(w) = c
    <2>1. IsSpecial(w) BY <1>4 DEF IsSpecial
    <2> QED BY <2>1, UnnamedType DEF c
  <1>10. NamesIn(Append(f, w)) = Append(names, Tail(w))
    BY <1>1, <1>3, <1>9, NamesGrow
  <1>11. Reads(S, q \o w, u \o c, Append(names, Tail(w)), rest)
    BY <1>7, <1>8, <1>9, <1>10 DEF Reads
  <1> QED BY <1>11 DEF c

\* All of a pattern is read: its shape and its names.
LEMMA ReadsAll ==
  ASSUME NEW S, NEW p \in Seq(S), NEW u \in Seq(S), NEW names, NEW rest,
         Reads(S, p, u, names, rest)
  PROVE  Segments(u) = Shape(p) /\ names = Names(p)
  <1>1. PICK f \in Seq(Seq(S)), l \in Seq(S) :
          /\ Cut(p, f, l) /\ Cut(u, ShapeOf(f), Unnamed(l))
          /\ names = NamesIn(Append(f, l))
    BY DEF Reads
  <1>2. Segments(p) = Append(f, l) /\ Segments(u) = Append(ShapeOf(f), Unnamed(l))
    BY <1>1 DEF Cut
  <1>3. ShapeOf(Append(f, l)) = Append(ShapeOf(f), Unnamed(l)) BY ShapeGrows
  <1>4. Shape(p) = ShapeOf(Segments(p)) BY DEF Shape, ShapeOf
  <1> QED BY <1>1, <1>2, <1>3, <1>4 DEF Names

-----------------------------------------------------------------------------
(* Where the segments of a text lie in it.                                 *)

\* Segment i of the text p lies behind position at[i], where a slash is, or at
\* the start.  Between two segments there is nothing but that slash.
Lays(p, s, at) ==
  /\ at[1] = 0
  /\ at[Len(s)] + Len(s[Len(s)]) = Len(p)
  /\ \A i \in 1..(Len(s) - 1) : at[i + 1] = at[i] + Len(s[i]) + 1
  /\ \A i \in 2..Len(s) : at[i] \in 1..Len(p) /\ p[at[i]] = "/"
  /\ \A i \in 1..Len(s) : \A j \in 1..Len(s[i]) :
       /\ at[i] + j \in 1..Len(p)
       /\ p[at[i] + j] = s[i][j] /\ s[i][j] # "/"
  /\ \A k \in 1..Len(p) : \E i \in 1..Len(s) : at[i] <= k /\ k <= at[i] + Len(s[i])

\* A slash more.
LEMMA LaysSlash ==
  ASSUME NEW S, NEW p \in Seq(S), NEW x \in S, x = "/",
         NEW P, P = Seq(S), NEW s \in Seq(P), NEW n \in Nat \ {0}, n = Len(s),
         NEW at \in [1..n -> Nat], Lays(p, s, at)
  PROVE  \E to \in [1..(n + 1) -> Nat] : Lays(Append(p, x), Append(s, <<>>), to)
  <1> DEFINE N == Len(p)
             q == Append(p, x)
             t == Append(s, <<>>)
             to == [i \in 1..(n + 1) |-> IF i = n + 1 THEN N + 1 ELSE at[i]]
  <1>1. N \in Nat /\ \A i \in 1..n : Len(s[i]) \in Nat OBVIOUS
  <1>2. Len(q) = N + 1 /\ q[N + 1] = "/" /\ \A k \in 1..N : q[k] = p[k]
    BY AppendProperties
  <1>3. Len(t) = n + 1 /\ t[n + 1] = <<>> /\ \A i \in 1..n : t[i] = s[i]
    <2>1. <<>> \in P OBVIOUS
    <2> QED BY <2>1, AppendProperties
  <1>4. Len(<<>>) = 0 OBVIOUS
  <1>5. /\ to \in [1..(n + 1) -> Nat] /\ to[n + 1] = N + 1
        /\ \A i \in 1..n : to[i] = at[i]
    BY <1>1
  <1>6. /\ at[1] = 0 /\ at[n] + Len(s[n]) = N
        /\ \A i \in 1..(n - 1) : at[i + 1] = at[i] + Len(s[i]) + 1
    BY DEF Lays
  <1>7. \A i \in 2..n : at[i] \in 1..N /\ p[at[i]] = "/" BY DEF Lays
  <1>8. \A i \in 1..n : \A j \in 1..Len(s[i]) :
          /\ at[i] + j \in 1..N /\ p[at[i] + j] = s[i][j] /\ s[i][j] # "/"
    BY DEF Lays
  <1>9. \A k \in 1..N : \E i \in 1..n : at[i] <= k /\ k <= at[i] + Len(s[i])
    BY DEF Lays
  <1>10. 1 \in 1..n /\ n \in 1..n /\ n + 1 \in 1..(n + 1)
         /\ \A i \in 1..(n + 1) : i \in 1..n \/ i = n + 1
    <2>1. 1 \in 1..n /\ n \in 1..n /\ n + 1 \in 1..(n + 1) OBVIOUS
    <2>2. \A k \in Nat : \A i \in 1..(k + 1) : i \in 1..k \/ i = k + 1 OBVIOUS
    <2> QED BY <2>1, <2>2
  <1> HIDE DEF N, q, t, to
  <1>11. to[1] = 0 /\ to[n + 1] + Len(t[n + 1]) = N + 1
    BY <1>1, <1>3, <1>4, <1>5, <1>6, <1>10
  <1>12. ASSUME NEW i \in 1..n PROVE to[i + 1] = to[i] + Len(t[i]) + 1
    <2>1. CASE i = n BY <1>3, <1>5, <1>6, <1>10, <2>1
    <2>2. CASE i # n
      <3>1. i \in 1..(n - 1) /\ i + 1 \in 1..n BY <2>2
      <3> QED BY <1>3, <1>5, <1>6, <3>1
    <2> QED BY <2>1, <2>2
  <1>13. ASSUME NEW i \in 2..(n + 1) PROVE to[i] \in 1..(N + 1) /\ q[to[i]] = "/"
    <2>1. CASE i = n + 1 BY <1>1, <1>2, <1>5, <2>1
    <2>2. CASE i # n + 1
      <3>1. i \in 2..n /\ i \in 1..n BY <2>2
      <3>2. at[i] \in 1..N /\ p[at[i]] = "/" BY <1>7, <3>1
      <3> QED BY <1>1, <1>2, <1>5, <3>1, <3>2
    <2> QED BY <2>1, <2>2
  <1>14. ASSUME NEW i \in 1..(n + 1), NEW j \in 1..Len(t[i])
         PROVE  /\ to[i] + j \in 1..(N + 1)
                /\ q[to[i] + j] = t[i][j] /\ t[i][j] # "/"
    <2>1. i # n + 1 BY <1>3, <1>4
    <2>2. i \in 1..n BY <1>10, <2>1
    <2>3. t[i] = s[i] /\ to[i] = at[i] BY <1>3, <1>5, <2>2
    <2>4. at[i] + j \in 1..N /\ p[at[i] + j] = s[i][j] /\ s[i][j] # "/"
      BY <1>8, <2>2, <2>3
    <2>5. q[at[i] + j] = p[at[i] + j] /\ at[i] + j \in 1..(N + 1)
      BY <1>1, <1>2, <2>4
    <2> QED BY <2>3, <2>4, <2>5
  <1>15. ASSUME NEW k \in 1..(N + 1)
         PROVE  \E i \in 1..(n + 1) : to[i] <= k /\ k <= to[i] + Len(t[i])
    <2>1. CASE k = N + 1
      <3>1. to[n + 1] <= k /\ k <= to[n + 1] + 0 BY <1>1, <1>5, <2>1
      <3> QED BY <1>3, <1>4, <1>10, <3>1
    <2>2. CASE k # N + 1
      <3>1. k \in 1..N BY <1>1, <2>2
      <3>2. PICK i \in 1..n : at[i] <= k /\ k <= at[i] + Len(s[i]) BY <1>9, <3>1
      <3>3. i \in 1..(n + 1) /\ to[i] = at[i] /\ t[i] = s[i] BY <1>3, <1>5
      <3> QED BY <3>2, <3>3
    <2> QED BY <2>1, <2>2
  <1>16. Lays(q, t, to)
    <2>1. (n + 1) - 1 = n OBVIOUS
    <2> QED BY <1>2, <1>3, <1>11, <1>12, <1>13, <1>14, <1>15, <2>1 DEF Lays
  <1> QED BY <1>5, <1>16 DEF q, t

\* A symbol more in the last segment.
LEMMA LaysSymbol ==
  ASSUME NEW S, NEW p \in Seq(S), NEW x \in S, x # "/",
         NEW P, P = Seq(S), NEW s \in Seq(P), NEW n \in Nat \ {0}, n = Len(s),
         NEW at \in [1..n -> Nat], Lays(p, s, at)
  PROVE  Lays(Append(p, x), [s EXCEPT ![n] = Append(@, x)], at)
  <1> DEFINE N == Len(p)
             l == Len(s[n])
             q == Append(p, x)
             e == Append(s[n], x)
             t == [s EXCEPT ![n] = e]
  <1>0. s[n] \in P /\ s[n] \in Seq(S) OBVIOUS
  <1>1. N \in Nat /\ l \in Nat /\ \A i \in 1..n : Len(s[i]) \in Nat OBVIOUS
  <1>2. Len(q) = N + 1 /\ q[N + 1] = x /\ \A k \in 1..N : q[k] = p[k]
    BY AppendProperties
  <1>3. e \in P /\ Len(e) = l + 1 /\ e[l + 1] = x /\ \A j \in 1..l : e[j] = s[n][j]
    BY <1>0, AppendProperties
  <1> HIDE DEF e
  <1>4. Len(t) = n /\ t[n] = e /\ \A i \in 1..n : i # n => t[i] = s[i]
    <2>1. n \in 1..n /\ n \in 1..Len(s) OBVIOUS
    <2> QED BY <1>3, <2>1, ExceptSeq
  <1>6. /\ at[1] = 0 /\ at[n] + l = N
        /\ \A i \in 1..(n - 1) : at[i + 1] = at[i] + Len(s[i]) + 1
    BY DEF Lays
  <1>7. \A i \in 2..n : at[i] \in 1..N /\ p[at[i]] = "/" BY DEF Lays
  <1>8. \A i \in 1..n : \A j \in 1..Len(s[i]) :
          /\ at[i] + j \in 1..N /\ p[at[i] + j] = s[i][j] /\ s[i][j] # "/"
    BY DEF Lays
  <1>9. \A k \in 1..N : \E i \in 1..n : at[i] <= k /\ k <= at[i] + Len(s[i])
    BY DEF Lays
  <1>10. n \in 1..n /\ at[n] \in Nat OBVIOUS
  <1>11. \A j \in 1..l : /\ at[n] + j \in 1..N
                         /\ p[at[n] + j] = s[n][j] /\ s[n][j] # "/"
    BY <1>8, <1>10
  <1> HIDE DEF N, q, t, l
  <1>12. at[1] = 0 /\ at[n] + Len(t[n]) = N + 1
    <2>1. at[n] + l = N BY <1>6
    <2>2. at[n] + (l + 1) = N + 1 BY <1>1, <1>10, <2>1
    <2> QED BY <1>3, <1>4, <1>6, <2>2
  <1>13. ASSUME NEW i \in 1..(n - 1) PROVE at[i + 1] = at[i] + Len(t[i]) + 1
    <2>1. i \in 1..n /\ i # n OBVIOUS
    <2> QED BY <1>4, <1>6, <2>1
  <1>14. ASSUME NEW i \in 2..n PROVE at[i] \in 1..(N + 1) /\ q[at[i]] = "/"
    <2>1. at[i] \in 1..N /\ p[at[i]] = "/" BY <1>7
    <2> QED BY <1>1, <1>2, <2>1
  <1>15. ASSUME NEW i \in 1..n, NEW j \in 1..Len(t[i])
         PROVE  /\ at[i] + j \in 1..(N + 1)
                /\ q[at[i] + j] = t[i][j] /\ t[i][j] # "/"
    <2>1. CASE i # n
      <3>1. t[i] = s[i] BY <1>4, <2>1
      <3>2. at[i] + j \in 1..N /\ p[at[i] + j] = s[i][j] /\ s[i][j] # "/"
        BY <1>8, <3>1
      <3>3. q[at[i] + j] = p[at[i] + j] /\ at[i] + j \in 1..(N + 1)
        BY <1>1, <1>2, <3>2
      <3> QED BY <3>1, <3>2, <3>3
    <2>2. CASE i = n
      <3>1. t[i] = e /\ j \in 1..(l + 1) BY <1>3, <1>4, <2>2
      <3>2. CASE j = l + 1
        <4>1. at[n] + j = N + 1 BY <1>3, <1>4, <1>12, <3>2
        <4> QED BY <1>1, <1>2, <1>3, <2>2, <3>1, <3>2, <4>1
      <3>3. CASE j # l + 1
        <4>1. j \in 1..l BY <1>1, <3>1, <3>3
        <4>2. at[n] + j \in 1..N /\ p[at[n] + j] = s[n][j] /\ s[n][j] # "/"
          BY <1>11, <4>1
        <4>3. q[at[n] + j] = p[at[n] + j] /\ at[n] + j \in 1..(N + 1)
          BY <1>1, <1>2, <4>2
        <4>4. e[j] = s[n][j] BY <1>3, <4>1
        <4> QED BY <2>2, <3>1, <4>2, <4>3, <4>4
      <3> QED BY <3>2, <3>3
    <2> QED BY <2>1, <2>2
  <1>16. ASSUME NEW k \in 1..(N + 1)
         PROVE  \E i \in 1..n : at[i] <= k /\ k <= at[i] + Len(t[i])
    <2>1. CASE k = N + 1
      <3>1. Len(t[n]) \in Nat BY <1>1, <1>3, <1>4
      <3>2. at[n] <= k /\ k <= at[n] + Len(t[n])
        BY <1>10, <1>12, <2>1, <3>1
      <3> QED BY <1>10, <3>2
    <2>2. CASE k # N + 1
      <3>1. k \in 1..N BY <1>1, <2>2
      <3>2. PICK i \in 1..n : at[i] <= k /\ k <= at[i] + Len(s[i]) BY <1>9, <3>1
      <3>3. CASE i # n BY <1>4, <3>2, <3>3
      <3>4. CASE i = n
        <4>1. Len(t[n]) = l + 1 BY <1>3, <1>4
        <4>2. k <= at[n] + l BY <3>2, <3>4 DEF l
        <4>3. k <= at[n] + Len(t[n]) BY <1>1, <1>10, <4>1, <4>2
        <4> QED BY <3>2, <3>4, <4>3
      <3> QED BY <3>3, <3>4
    <2> QED BY <2>1, <2>2
  <1>17. Lays(q, t, at)
    BY <1>2, <1>4, <1>12, <1>13, <1>14, <1>15, <1>16 DEF Lays
  <1> QED BY <1>17 DEF q, t, e

\* The segments of every text lie in it one behind the other.
LEMMA SegmentsLay ==
  ASSUME NEW S, NEW p \in Seq(S)
  PROVE  \E at \in [1..Len(Segments(p)) -> Nat] : Lays(p, Segments(p), at)
  <1> DEFINE P == Seq(S)
             Lies(t) == \E at \in [1..Len(Segments(t)) -> Nat] :
                          Lays(t, Segments(t), at)
             T == {t \in Seq(S) : Lies(t)}
  <1>1. <<>> \in T
    <2> DEFINE s == << <<>> >>
               at == [i \in 1..1 |-> 0]
    <2>1. Segments(<<>>) = s BY SegmentsGrow
    <2>2. Len(s) = 1 /\ s[1] = <<>> /\ Len(<<>>) = 0 OBVIOUS
    <2>3. at \in [1..1 -> Nat] /\ at[1] = 0 OBVIOUS
    <2> HIDE DEF s, at
    <2>4. \A i \in 1..1 : i = 1 OBVIOUS
    <2>5. Lays(<<>>, s, at)
      <3>1. \A i \in 1..1 : 1..Len(s[i]) = {} BY <2>2, <2>4
      <3> QED BY <2>2, <2>3, <3>1 DEF Lays
    <2>6. Lies(<<>>) BY <2>1, <2>2, <2>3, <2>5
    <2> HIDE DEF Lies
    <2> QED BY <2>6, NoneOrOne
  <1>2. ASSUME NEW t \in Seq(S), NEW x \in S, t \in T PROVE Append(t, x) \in T
    <2>1. PICK s : s = Segments(t) OBVIOUS
    <2>2. s \in Seq(P) /\ s # <<>> BY <2>1, SegmentsType
    <2>3. PICK n : n = Len(s) OBVIOUS
    <2>4. n \in Nat \ {0} BY <2>2, <2>3
    <2>5. PICK at \in [1..n -> Nat] : Lays(t, s, at) BY <1>2, <2>1, <2>3
    <2>6. Segments(Append(t, x)) = Scan(s, x) BY <2>1, SegmentsGrow
    <2>7. Append(t, x) \in Seq(S) BY AppendProperties
    <2>8. CASE x = "/"
      <3>1. Segments(Append(t, x)) = Append(s, <<>>) BY <2>6, <2>8 DEF Scan
      <3>2. Len(Append(s, <<>>)) = n + 1
        <4>1. <<>> \in P OBVIOUS
        <4> HIDE DEF P
        <4> QED BY <2>2, <2>3, <4>1, AppendProperties
      <3>3. \E to \in [1..(n + 1) -> Nat] : Lays(Append(t, x), Append(s, <<>>), to)
        BY <2>2, <2>3, <2>4, <2>5, <2>8, LaysSlash
      <3>4. Lies(Append(t, x)) BY <3>1, <3>2, <3>3
      <3> HIDE DEF Lies
      <3> QED BY <2>7, <3>4
    <2>9. CASE x # "/"
      <3>1. Segments(Append(t, x)) = [s EXCEPT ![n] = Append(@, x)]
        BY <2>3, <2>6, <2>9 DEF Scan
      <3>2. Len([s EXCEPT ![n] = Append(@, x)]) = n
        <4>1. n \in 1..Len(s) /\ s[n] \in P BY <2>2, <2>3, <2>4
        <4>2. Append(s[n], x) \in P BY <4>1, AppendProperties
        <4> HIDE DEF P
        <4> QED BY <2>2, <2>3, <4>1, <4>2, ExceptSeq
      <3>3. Lays(Append(t, x), [s EXCEPT ![n] = Append(@, x)], at)
        BY <2>2, <2>3, <2>4, <2>5, <2>9, LaysSymbol
      <3>4. Lies(Append(t, x)) BY <3>1, <3>2, <3>3
      <3> HIDE DEF Lies
      <3> QED BY <2>7, <3>4
    <2> QED BY <2>8, <2>9
  <1> HIDE DEF T
  <1>3. p \in T BY <1>1, <1>2, ByAppending
  <1> QED BY <1>3 DEF T

-----------------------------------------------------------------------------
(* Reading a target along the text of a route.                             *)

\* What is left of a target, and the values taken of it so far.
States(S) == [rest : Seq(S), values : Seq(Seq(S))]

\* A symbol of a route's text takes a to b: a parameter takes what is left up
\* to a slash, a catch-all everything that is left.
Takes(S, x, a, b) ==
  CASE x = ":" ->
         \E q \in Seq(S) :
           /\ q # <<>> /\ \A i \in 1..Len(q) : q[i] # "/"
           /\ a.rest = q \o b.rest
           /\ b.rest = <<>> \/ b.rest[1] = "/"
           /\ b.values = Append(a.values, q)
    [] x = "*" -> /\ a.rest \notin {<<>>, <<"/">>}
                  /\ b.rest = <<>> /\ b.values = Append(a.values, a.rest)
    [] OTHER -> a.rest = <<x>> \o b.rest /\ b.values = a.values

\* The text u takes a to b from position k on.
Leads(S, u, k, a, b) ==
  \E run \in [k..Len(u) -> States(S)] :
    /\ run[k] = a /\ run[Len(u)] = b
    /\ \A j \in (k + 1)..Len(u) : Takes(S, u[j], run[j - 1], run[j])

\* States are the same when their parts are.
LEMMA StateIs ==
  ASSUME NEW S
  PROVE  /\ \A a \in States(S) : a.rest \in Seq(S) /\ a.values \in Seq(Seq(S))
         /\ \A a \in States(S) : [rest |-> a.rest, values |-> a.values] = a
         /\ \A a, b \in States(S) : a.rest = b.rest /\ a.values = b.values => a = b
         /\ \A r \in Seq(S), v \in Seq(Seq(S)) :
              /\ [rest |-> r, values |-> v] \in States(S)
              /\ [rest |-> r, values |-> v].rest = r
              /\ [rest |-> r, values |-> v].values = v
  BY DEF States

\* The elements of a joined sequence.
LEMMA JoinedAt ==
  ASSUME NEW S, NEW q \in Seq(S), NEW r \in Seq(S)
  PROVE  /\ q \o r \in Seq(S) /\ Len(q \o r) = Len(q) + Len(r)
         /\ \A i \in 1..Len(q) : (q \o r)[i] = q[i]
         /\ \A i \in 1..Len(r) : (q \o r)[Len(q) + i] = r[i]
  <1>1. Len(q) \in Nat /\ Len(r) \in Nat OBVIOUS
  <1>2. /\ q \o r \in Seq(S) /\ Len(q \o r) = Len(q) + Len(r)
        /\ \A i \in 1..(Len(q) + Len(r)) :
             (q \o r)[i] = IF i <= Len(q) THEN q[i] ELSE r[i - Len(q)]
    BY ConcatProperties
  <1>3. \A i \in 1..Len(q) : i \in 1..(Len(q) + Len(r)) /\ i <= Len(q) BY <1>1
  <1>4. \A i \in 1..Len(r) : /\ Len(q) + i \in 1..(Len(q) + Len(r))
                             /\ ~(Len(q) + i <= Len(q)) /\ (Len(q) + i) - Len(q) = i
    BY <1>1
  <1> QED BY <1>2, <1>3, <1>4

\* A sequence that is put together of two.
Joins(z, d, h) == z = d \o h

\* Its length and its elements.
LEMMA JoinedOf ==
  ASSUME NEW S, NEW q \in Seq(S), NEW r \in Seq(S), NEW z, Joins(z, q, r)
  PROVE  /\ Len(z) = Len(q) + Len(r)
         /\ \A i \in 1..Len(q) : z[i] = q[i]
         /\ \A i \in 1..Len(r) : z[Len(q) + i] = r[i]
  <1>1. /\ Len(q \o r) = Len(q) + Len(r)
        /\ \A i \in 1..Len(q) : (q \o r)[i] = q[i]
        /\ \A i \in 1..Len(r) : (q \o r)[Len(q) + i] = r[i]
    BY JoinedAt
  <1>2. z = q \o r BY DEF Joins
  <1> QED BY <1>1, <1>2

\* What goes in front of a slash can be told from the whole.
LEMMA FrontOne ==
  ASSUME NEW S, NEW q \in Seq(S), NEW r \in Seq(S), NEW p \in Seq(S), NEW s \in Seq(S),
         NEW z, Joins(z, q, r), Joins(z, p, s),
         \A i \in 1..Len(q) : q[i] # "/", \A i \in 1..Len(p) : p[i] # "/",
         r = <<>> \/ r[1] = "/", s = <<>> \/ s[1] = "/"
  PROVE  q = p /\ r = s
  <1>1. /\ Len(z) = Len(q) + Len(r)
        /\ \A i \in 1..Len(q) : z[i] = q[i]
        /\ \A i \in 1..Len(r) : z[Len(q) + i] = r[i]
    BY JoinedOf
  <1>2. /\ Len(z) = Len(p) + Len(s)
        /\ \A i \in 1..Len(p) : z[i] = p[i]
        /\ \A i \in 1..Len(s) : z[Len(p) + i] = s[i]
    BY JoinedOf
  <1>8. Len(q) \in Nat /\ Len(p) \in Nat /\ Len(r) \in Nat /\ Len(s) \in Nat
    OBVIOUS
  <1>3. ~(Len(q) < Len(p))
    <2> SUFFICES ASSUME Len(q) < Len(p) PROVE FALSE OBVIOUS
    <2>1. Len(q) + 1 \in 1..Len(p) /\ 1 \in 1..Len(r) BY <1>1, <1>2, <1>8
    <2>2. r # <<>> BY <2>1
    <2>3. z[Len(q) + 1] = r[1] /\ z[Len(q) + 1] = p[Len(q) + 1]
      BY <1>1, <1>2, <2>1
    <2> QED BY <2>1, <2>2, <2>3
  <1>4. ~(Len(p) < Len(q))
    <2> SUFFICES ASSUME Len(p) < Len(q) PROVE FALSE OBVIOUS
    <2>1. Len(p) + 1 \in 1..Len(q) /\ 1 \in 1..Len(s) BY <1>1, <1>2, <1>8
    <2>2. s # <<>> BY <2>1
    <2>3. z[Len(p) + 1] = q[Len(p) + 1] /\ z[Len(p) + 1] = s[1]
      BY <1>1, <1>2, <2>1
    <2> QED BY <2>1, <2>2, <2>3
  <1>5. Len(q) = Len(p) /\ Len(r) = Len(s) BY <1>1, <1>2, <1>3, <1>4, <1>8
  <1>6. \A i \in 1..Len(q) : q[i] = p[i] BY <1>1, <1>2, <1>5
  <1>7. \A i \in 1..Len(r) : r[i] = s[i] BY <1>1, <1>2, <1>5
  <1>9. q = p BY <1>5, <1>6, SeqEqual
  <1>10. r = s BY <1>5, <1>7, SeqEqual
  <1> QED BY <1>9, <1>10

\* A symbol takes a state to one other at most.
LEMMA TakesOne ==
  ASSUME NEW S, NEW x \in S, NEW a \in States(S), NEW b \in States(S),
         NEW c \in States(S), Takes(S, x, a, b), Takes(S, x, a, c)
  PROVE  b = c
  <1> SUFFICES b.rest = c.rest /\ b.values = c.values BY StateIs
  <1>1. /\ a.rest \in Seq(S) /\ b.rest \in Seq(S) /\ c.rest \in Seq(S)
        /\ a.values \in Seq(Seq(S))
    BY StateIs
  <1>2. CASE x = ":"
    <2>1. PICK q \in Seq(S) :
            /\ q # <<>> /\ \A i \in 1..Len(q) : q[i] # "/"
            /\ a.rest = q \o b.rest
            /\ b.rest = <<>> \/ b.rest[1] = "/"
            /\ b.values = Append(a.values, q)
      BY <1>2 DEF Takes
    <2>2. PICK p \in Seq(S) :
            /\ p # <<>> /\ \A i \in 1..Len(p) : p[i] # "/"
            /\ a.rest = p \o c.rest
            /\ c.rest = <<>> \/ c.rest[1] = "/"
            /\ c.values = Append(a.values, p)
      BY <1>2 DEF Takes
    <2>3. PICK r \in Seq(S), s \in Seq(S) : r = b.rest /\ s = c.rest BY <1>1
    <2>6. Joins(a.rest, q, r) /\ Joins(a.rest, p, s)
      BY <2>1, <2>2, <2>3 DEF Joins
    <2>4. /\ Joins(a.rest, q, r) /\ Joins(a.rest, p, s)
          /\ \A i \in 1..Len(q) : q[i] # "/"
          /\ \A i \in 1..Len(p) : p[i] # "/"
          /\ r = <<>> \/ r[1] = "/"
          /\ s = <<>> \/ s[1] = "/"
      BY <2>1, <2>2, <2>3, <2>6
    <2>5. q = p /\ r = s BY <2>4, FrontOne
    <2> QED BY <2>1, <2>2, <2>3, <2>5
  <1>3. CASE x = "*" BY <1>3 DEF Takes
  <1>4. CASE x \notin Markers
    <2>1. <<x>> \o b.rest = <<x>> \o c.rest /\ b.values = c.values
      BY <1>4 DEF Takes, Markers
    <2>2. \A r \in Seq(S) : Tail(<<x>> \o r) = r OBVIOUS
    <2> QED BY <1>1, <2>1, <2>2
  <1> QED BY <1>2, <1>3, <1>4 DEF Markers

\* No symbol leads to where nothing is.
LEMMA LeadsEnds ==
  ASSUME NEW S, NEW u \in Seq(S), NEW a \in States(S), NEW b
  PROVE  Leads(S, u, Len(u), a, b) <=> a = b
  <1> DEFINE n == Len(u)
  <1>1. n \in Nat OBVIOUS
  <1>2. n..n = {n} /\ (n + 1)..n = {} BY <1>1
  <1>3. ASSUME Leads(S, u, n, a, b) PROVE a = b BY <1>3 DEF Leads
  <1>4. ASSUME a = b PROVE Leads(S, u, n, a, b)
    <2> DEFINE run == [j \in n..n |-> a]
    <2>1. run \in [n..n -> States(S)] /\ run[n] = a BY <1>2
    <2> HIDE DEF run
    <2> QED BY <1>2, <1>4, <2>1 DEF Leads
  <1> QED BY <1>3, <1>4

\* The first symbol, and what the others do.
LEMMA LeadsFirst ==
  ASSUME NEW S, NEW u \in Seq(S), NEW k \in Nat, k < Len(u),
         NEW a \in States(S), NEW b
  PROVE  Leads(S, u, k, a, b) <=>
           \E c \in States(S) : Takes(S, u[k + 1], a, c) /\ Leads(S, u, k + 1, c, b)
  <1> DEFINE n == Len(u)
  <1>1. n \in Nat OBVIOUS
  <1>2. ASSUME Leads(S, u, k, a, b)
        PROVE  \E c \in States(S) : Takes(S, u[k + 1], a, c) /\ Leads(S, u, k + 1, c, b)
    <2>1. PICK run \in [k..n -> States(S)] :
            /\ run[k] = a /\ run[n] = b
            /\ \A j \in (k + 1)..n : Takes(S, u[j], run[j - 1], run[j])
      BY <1>2 DEF Leads
    <2> DEFINE rest == [j \in (k + 1)..n |-> run[j]]
    <2>2. /\ k + 1 \in (k + 1)..n /\ n \in (k + 1)..n /\ k + 1 \in k..n
          /\ (k + 1) - 1 = k
      BY <1>1
    <2>3. \A j \in (k + 1 + 1)..n : j \in (k + 1)..n /\ j - 1 \in (k + 1)..n
      BY <1>1
    <2>4. rest \in [(k + 1)..n -> States(S)]
      <3>1. \A j \in (k + 1)..n : run[j] \in States(S) BY <1>1, <2>1
      <3> QED BY <3>1
    <2>5. \A j \in (k + 1)..n : rest[j] = run[j] OBVIOUS
    <2> HIDE DEF rest, n
    <2>6. \A j \in (k + 1 + 1)..n : Takes(S, u[j], rest[j - 1], rest[j])
      BY <2>1, <2>3, <2>5
    <2>7. rest[k + 1] = run[k + 1] /\ rest[n] = b BY <2>1, <2>2, <2>5
    <2>8. Takes(S, u[k + 1], a, run[k + 1]) /\ run[k + 1] \in States(S)
      BY <2>1, <2>2
    <2>9. Leads(S, u, k + 1, run[k + 1], b)
      BY <2>4, <2>6, <2>7 DEF Leads, n
    <2> QED BY <2>8, <2>9
  <1>3. ASSUME NEW c \in States(S), Takes(S, u[k + 1], a, c), Leads(S, u, k + 1, c, b)
        PROVE  Leads(S, u, k, a, b)
    <2>1. PICK rest \in [(k + 1)..n -> States(S)] :
            /\ rest[k + 1] = c /\ rest[n] = b
            /\ \A j \in (k + 1 + 1)..n : Takes(S, u[j], rest[j - 1], rest[j])
      BY <1>3 DEF Leads
    <2> DEFINE run == [j \in k..n |-> IF j = k THEN a ELSE rest[j]]
    <2>2. /\ k \in k..n /\ n \in k..n /\ n # k /\ k + 1 # k /\ k + 1 \in k..n
          /\ (k + 1) - 1 = k
      BY <1>1
    <2>3. \A j \in (k + 1)..n :
            /\ j \in k..n /\ j # k
            /\ j # k + 1 => j \in (k + 1 + 1)..n /\ j - 1 \in k..n /\ j - 1 # k
      BY <1>1
    <2>4. run \in [k..n -> States(S)]
      <3>1. \A j \in k..n : j # k => j \in (k + 1)..n BY <1>1
      <3> QED BY <2>1, <3>1
    <2>5. run[k] = a /\ \A j \in k..n : j # k => run[j] = rest[j] BY <2>2
    <2> HIDE DEF run, n
    <2>6. ASSUME NEW j \in (k + 1)..n PROVE Takes(S, u[j], run[j - 1], run[j])
      <3>1. CASE j = k + 1 BY <1>3, <2>1, <2>2, <2>5, <3>1
      <3>2. CASE j # k + 1 BY <2>1, <2>3, <2>5, <3>2
      <3> QED BY <3>1, <3>2
    <2>7. run[n] = b BY <2>1, <2>2, <2>5
    <2> QED BY <2>4, <2>5, <2>6, <2>7 DEF Leads, n
  <1> QED BY <1>2, <1>3

\* A text that grows by a symbol.
LEMMA LeadsLast ==
  ASSUME NEW S, NEW u \in Seq(S), NEW x \in S, NEW k \in 0..Len(u),
         NEW a \in States(S), NEW b \in States(S)
  PROVE  Leads(S, Append(u, x), k, a, b) <=>
           \E c \in States(S) : Leads(S, u, k, a, c) /\ Takes(S, x, c, b)
  <1> DEFINE n == Len(u)
             w == Append(u, x)
  <1>1. /\ n \in Nat /\ k \in 0..n /\ Len(w) = n + 1
        /\ w[n + 1] = x /\ \A j \in 1..n : w[j] = u[j]
    BY AppendProperties
  <1>2. /\ n + 1 \in (k + 1)..(n + 1) /\ k \in k..n /\ n \in k..n /\ k \in k..(n + 1)
        /\ n + 1 \in k..(n + 1) /\ n \in k..(n + 1) /\ (n + 1) - 1 = n
        /\ n + 1 \notin k..n
    BY <1>1
  <1>3. \A j \in (k + 1)..n :
          /\ j \in (k + 1)..(n + 1) /\ j \in 1..n /\ j \in k..n /\ j - 1 \in k..n
    BY <1>1
  <1>4. \A j \in (k + 1)..(n + 1) : j = n + 1 \/ j \in (k + 1)..n BY <1>1
  <1>5. \A j \in k..(n + 1) : j = n + 1 \/ j \in k..n BY <1>1
  <1>6. \A j \in k..n : j \in k..(n + 1) BY <1>1
  <1> HIDE DEF n, w
  <1>8. ASSUME Leads(S, w, k, a, b)
        PROVE  \E c \in States(S) : Leads(S, u, k, a, c) /\ Takes(S, x, c, b)
    <2>1. PICK run \in [k..(n + 1) -> States(S)] :
            /\ run[k] = a /\ run[n + 1] = b
            /\ \A j \in (k + 1)..(n + 1) : Takes(S, w[j], run[j - 1], run[j])
      BY <1>1, <1>8 DEF Leads
    <2> DEFINE front == [j \in k..n |-> run[j]]
    <2>2. front \in [k..n -> States(S)]
      <3>1. \A j \in k..n : run[j] \in States(S) BY <1>6, <2>1
      <3> QED BY <3>1
    <2>3. \A j \in k..n : front[j] = run[j] OBVIOUS
    <2> HIDE DEF front
    <2>4. \A j \in (k + 1)..n : Takes(S, u[j], front[j - 1], front[j])
      BY <1>1, <1>3, <2>1, <2>3
    <2>5. front[k] = a /\ front[n] = run[n] BY <1>2, <2>1, <2>3
    <2>6. Leads(S, u, k, a, run[n]) BY <2>2, <2>4, <2>5 DEF Leads, n
    <2>7. run[n] \in States(S) BY <1>2, <2>1
    <2>8. Takes(S, x, run[n], b) BY <1>1, <1>2, <2>1
    <2> QED BY <2>6, <2>7, <2>8
  <1>9. ASSUME NEW c \in States(S), Leads(S, u, k, a, c), Takes(S, x, c, b)
        PROVE  Leads(S, w, k, a, b)
    <2>1. PICK front \in [k..n -> States(S)] :
            /\ front[k] = a /\ front[n] = c
            /\ \A j \in (k + 1)..n : Takes(S, u[j], front[j - 1], front[j])
      BY <1>9 DEF Leads, n
    <2> DEFINE run == [j \in k..(n + 1) |-> IF j = n + 1 THEN b ELSE front[j]]
    <2>2. run \in [k..(n + 1) -> States(S)] BY <1>5, <2>1
    <2>3. run[n + 1] = b /\ \A j \in k..n : run[j] = front[j]
      BY <1>2, <1>6
    <2> HIDE DEF run
    <2>4. ASSUME NEW j \in (k + 1)..(n + 1) PROVE Takes(S, w[j], run[j - 1], run[j])
      <3>1. CASE j = n + 1 BY <1>1, <1>2, <1>9, <2>1, <2>3, <3>1
      <3>2. CASE j # n + 1
        <4>1. j \in (k + 1)..n BY <1>4, <3>2
        <4>2. w[j] = u[j] /\ run[j - 1] = front[j - 1] /\ run[j] = front[j]
          BY <1>1, <1>3, <2>3, <4>1
        <4> QED BY <2>1, <4>1, <4>2
      <3> QED BY <3>1, <3>2
    <2>5. run[k] = a BY <1>2, <2>1, <2>3
    <2> QED BY <1>1, <2>2, <2>3, <2>4, <2>5 DEF Leads
  <1> QED BY <1>8, <1>9 DEF w

\* A text leads to one state at most.
LEMMA LeadsOne ==
  ASSUME NEW S, NEW u \in Seq(S), NEW k \in 0..Len(u), NEW a \in States(S),
         NEW b, NEW c, Leads(S, u, k, a, b), Leads(S, u, k, a, c)
  PROVE  b = c
  <1> DEFINE n == Len(u)
  <1>1. n \in Nat /\ k \in 0..n OBVIOUS
  <1>2. \A j \in 1..n : u[j] \in S OBVIOUS
  <1>3. PICK run \in [k..n -> States(S)] :
          /\ run[k] = a /\ run[n] = b
          /\ \A j \in (k + 1)..n : Takes(S, u[j], run[j - 1], run[j])
    BY DEF Leads
  <1>4. PICK way \in [k..n -> States(S)] :
          /\ way[k] = a /\ way[n] = c
          /\ \A j \in (k + 1)..n : Takes(S, u[j], way[j - 1], way[j])
    BY DEF Leads
  <1> HIDE DEF n
  <1> DEFINE T == {i \in 0..(n - k) : run[k + i] = way[k + i]}
  <1>5. n - k \in Nat BY <1>1
  <1>6. 0 \in T BY <1>1, <1>3, <1>4
  <1>7. ASSUME NEW i \in 1..(n - k), i - 1 \in T PROVE i \in T
    <2>1. PICK j : j = k + i OBVIOUS
    <2>2. /\ j \in (k + 1)..n /\ j \in 1..n /\ j \in k..n /\ j - 1 \in k..n
          /\ k + (i - 1) = j - 1 /\ i \in 0..(n - k)
      BY <1>1, <2>1
    <2>3. run[j - 1] = way[j - 1] BY <1>7, <2>2
    <2>4. PICK s \in States(S), r \in States(S), w \in States(S) :
            s = run[j - 1] /\ r = run[j] /\ w = way[j]
      BY <1>3, <1>4, <2>2
    <2>5. Takes(S, u[j], s, r) /\ Takes(S, u[j], s, w)
      BY <1>3, <1>4, <2>2, <2>3, <2>4
    <2>6. r = w BY <1>2, <2>2, <2>5, TakesOne
    <2> QED BY <2>1, <2>2, <2>4, <2>6
  <1> HIDE DEF T
  <1>8. \A i \in 0..(n - k) : i \in T BY <1>5, <1>6, <1>7, UpTo
  <1>10. n - k \in 0..(n - k) BY <1>5
  <1>9. k + (n - k) = n BY <1>1
  <1> QED BY <1>3, <1>4, <1>8, <1>9, <1>10 DEF T

\* The text w stands in u behind position k.
Stands(w, u, k) ==
  k + Len(w) <= Len(u) /\ \A i \in 1..Len(w) : u[k + i] = w[i]

\* Literal text takes itself off what is left.
LEMMA LeadsText ==
  ASSUME NEW S, NEW u \in Seq(S), NEW k \in Nat, NEW a \in States(S), NEW b,
         NEW t \in Seq(S), Stands(t, u, k), \A i \in 1..Len(t) : t[i] \notin Markers
  PROVE  Leads(S, u, k, a, b) <=>
           \E r \in Seq(S) :
             /\ a.rest = t \o r
             /\ Leads(S, u, k + Len(t), [rest |-> r, values |-> a.values], b)
  <1> DEFINE Literal(w) == \A i \in 1..Len(w) : w[i] \notin Markers
             Off(w) == \E r \in Seq(S) :
               /\ a.rest = w \o r
               /\ Leads(S, u, k + Len(w), [rest |-> r, values |-> a.values], b)
             T == {w \in Seq(S) : Stands(w, u, k) /\ Literal(w) =>
                                    (Leads(S, u, k, a, b) <=> Off(w))}
  <1>1. a.rest \in Seq(S) /\ a.values \in Seq(Seq(S)) BY StateIs
  <1>2. <<>> \in T
    <2>1. \A r \in Seq(S) : a.rest = <<>> \o r <=> a.rest = r BY ConcatEmptySeq
    <2>2. [rest |-> a.rest, values |-> a.values] = a BY <1>1, StateIs
    <2>3. k + Len(<<>>) = k OBVIOUS
    <2>4. Off(<<>>) <=> Leads(S, u, k, a, b)
      BY <1>1, <2>1, <2>2, <2>3
    <2> HIDE DEF Off, Literal
    <2>5. <<>> \in Seq(S) OBVIOUS
    <2> QED BY <2>4, <2>5
  <1>3. ASSUME NEW w \in Seq(S), NEW x \in S, w \in T PROVE Append(w, x) \in T
    <2> DEFINE z == Append(w, x)
               m == Len(w)
    <2>1. /\ z \in Seq(S) /\ m \in Nat /\ Len(z) = m + 1
          /\ z[m + 1] = x /\ \A i \in 1..m : z[i] = w[i]
      BY AppendProperties
    <2> HIDE DEF z, m
    <2> SUFFICES ASSUME Stands(z, u, k), Literal(z)
                 PROVE  Leads(S, u, k, a, b) <=> Off(z)
      BY <2>1 DEF z
    <2>2. /\ Len(u) \in Nat /\ k + m < Len(u) /\ u[(k + m) + 1] = x /\ x \notin Markers
          /\ m + 1 \in 1..(m + 1) /\ k + m \in Nat /\ (k + m) + 1 = k + (m + 1)
      <3>1. Len(u) \in Nat OBVIOUS
      <3>2. k + (m + 1) <= Len(u) BY <2>1 DEF Stands
      <3>3. m + 1 \in 1..(m + 1) /\ k + (m + 1) = (k + m) + 1
        <4>1. m \in Nat /\ k \in Nat BY <2>1
        <4> QED BY <4>1
      <3>4. u[k + (m + 1)] = x BY <2>1, <3>3 DEF Stands
      <3>5. x \notin Markers BY <2>1, <3>3
      <3> QED BY <2>1, <3>1, <3>2, <3>3, <3>4, <3>5
    <2>3. Stands(w, u, k) /\ Literal(w)
      <3>1. \A i \in 1..m : i \in 1..(m + 1) BY <2>1
      <3>2. k + m <= Len(u) BY <2>1, <2>2
      <3> QED BY <2>1, <3>1, <3>2 DEF Stands, m
    <2>4. Leads(S, u, k, a, b) <=> Off(w) BY <1>3, <2>3
    <2>5. ASSUME NEW r \in Seq(S)
          PROVE  Leads(S, u, k + m, [rest |-> r, values |-> a.values], b) <=>
                   \E q \in Seq(S) :
                     /\ r = <<x>> \o q
                     /\ Leads(S, u, k + (m + 1), [rest |-> q, values |-> a.values], b)
      <3>1. PICK c \in States(S) : c = [rest |-> r, values |-> a.values]
                                   /\ c.rest = r /\ c.values = a.values
        <4>1. PICK v \in Seq(Seq(S)) : v = a.values BY <1>1
        <4>2. PICK c : c = [rest |-> r, values |-> v] OBVIOUS
        <4>3. c \in States(S) /\ c.rest = r /\ c.values = v BY <4>2, StateIs
        <4> QED BY <4>1, <4>2, <4>3
      <3>2. Leads(S, u, k + m, c, b) <=>
              \E d \in States(S) : Takes(S, x, c, d) /\ Leads(S, u, k + (m + 1), d, b)
        BY <2>2, LeadsFirst
      <3>3. \A d \in States(S) :
              Takes(S, x, c, d) <=> r = <<x>> \o d.rest /\ d.values = a.values
        BY <2>2, <3>1 DEF Takes, Markers
      <3>4. \A d \in States(S) :
              d.values = a.values => d = [rest |-> d.rest, values |-> a.values]
        <4> TAKE d \in States(S)
        <4>1. [rest |-> d.rest, values |-> d.values] = d BY StateIs
        <4> QED BY <4>1
      <3>5. \A q \in Seq(S) :
              /\ [rest |-> q, values |-> a.values] \in States(S)
              /\ [rest |-> q, values |-> a.values].rest = q
              /\ [rest |-> q, values |-> a.values].values = a.values
        BY <1>1, StateIs
      <3>6. \A d \in States(S) : d.rest \in Seq(S) BY StateIs
      <3>7. ASSUME NEW d \in States(S), Takes(S, x, c, d), Leads(S, u, k + (m + 1), d, b)
            PROVE  /\ d.rest \in Seq(S) /\ r = <<x>> \o d.rest
                   /\ Leads(S, u, k + (m + 1), [rest |-> d.rest, values |-> a.values], b)
        BY <3>3, <3>4, <3>6, <3>7
      <3>8. ASSUME NEW q \in Seq(S), r = <<x>> \o q,
                   Leads(S, u, k + (m + 1), [rest |-> q, values |-> a.values], b)
            PROVE  \E d \in States(S) : Takes(S, x, c, d) /\ Leads(S, u, k + (m + 1), d, b)
        BY <3>3, <3>5, <3>8
      <3> QED BY <3>1, <3>2, <3>7, <3>8
    <2>6. \A q \in Seq(S) : <<x>> \o q \in Seq(S) /\ w \o (<<x>> \o q) = z \o q
      <3> TAKE q \in Seq(S)
      <3>1. <<x>> \in Seq(S) /\ z = w \o <<x>> BY AppendIsConcat DEF z
      <3>2. \A v \in Seq(S) : w \o (v \o q) = (w \o v) \o q
        BY ConcatAssociative, SMTT(30)
      <3>3. <<x>> \o q \in Seq(S) BY <3>1, ConcatProperties
      <3> QED BY <3>1, <3>2, <3>3
    <2>7. ASSUME Off(w) PROVE Off(z)
      <3>1. PICK r \in Seq(S) :
              /\ a.rest = w \o r
              /\ Leads(S, u, k + m, [rest |-> r, values |-> a.values], b)
        BY <2>7 DEF m
      <3>2. PICK q \in Seq(S) :
              /\ r = <<x>> \o q
              /\ Leads(S, u, k + (m + 1), [rest |-> q, values |-> a.values], b)
        BY <2>5, <3>1
      <3>3. a.rest = z \o q BY <2>6, <3>1, <3>2
      <3> QED BY <2>1, <3>2, <3>3
    <2>8. ASSUME Off(z) PROVE Off(w)
      <3>1. PICK q \in Seq(S) :
              /\ a.rest = z \o q
              /\ Leads(S, u, k + (m + 1), [rest |-> q, values |-> a.values], b)
        BY <2>1, <2>8
      <3>2. PICK r \in Seq(S) : r = <<x>> \o q BY <2>6
      <3>3. a.rest = w \o r BY <2>6, <3>1, <3>2
      <3>4. Leads(S, u, k + m, [rest |-> r, values |-> a.values], b)
        BY <2>5, <3>1, <3>2
      <3> QED BY <3>3, <3>4 DEF m
    <2> HIDE DEF Off
    <2> QED BY <2>4, <2>7, <2>8
  <1> HIDE DEF T
  <1>4. t \in T BY <1>2, <1>3, ByAppending
  <1> QED BY <1>4 DEF T

-----------------------------------------------------------------------------
(* Sequences.                                                              *)

\* What stands behind q in q \o r.
LEMMA BehindIs ==
  ASSUME NEW S, NEW q \in Seq(S), NEW r \in Seq(S)
  PROVE  SubSeq(q \o r, Len(q) + 1, Len(q \o r)) = r
  <1>1. Len(q) \in Nat /\ Len(r) \in Nat OBVIOUS
  <1>2. Len(q \o r) = Len(q) + Len(r) BY ConcatProperties
  <1>3. CASE r = <<>>
    <2>1. Len(q) + 1 \in Int /\ Len(q) + 0 \in Int /\ Len(q) + 0 < Len(q) + 1
      BY <1>1
    <2>2. Len(r) = 0 BY <1>3
    <2> QED BY <1>1, <1>2, <1>3, <2>1, <2>2, SubSeqEmpty
  <1>4. CASE r # <<>>
    <2>1. Len(r) # 0 BY <1>4
    <2>2. /\ Len(q) + 1 \in (Len(q) + 1)..(Len(q) + Len(r))
          /\ Len(q) + Len(r) \in (Len(q) + 1)..(Len(q) + Len(r))
          /\ (Len(q) + 1) - Len(q) = 1 /\ (Len(q) + Len(r)) - Len(q) = Len(r)
      BY <1>1, <2>1
    <2>3. SubSeq(q \o r, Len(q) + 1, Len(q) + Len(r)) = SubSeq(r, 1, Len(r))
      BY <2>2, SubSeqOfConcat2
    <2> QED BY <1>2, <2>3, SubSeqFull
  <1> QED BY <1>3, <1>4

\* A sequence parted behind n elements.
SplitsAt(S, s, n) ==
  \E q \in Seq(S), r \in Seq(S) :
    Joins(s, q, r) /\ Len(q) = n /\ SubSeq(s, n + 1, Len(s)) = r

\* A sequence is its first n elements and what stands behind them.
LEMMA PartedAt ==
  ASSUME NEW S, NEW s \in Seq(S), NEW n \in 0..Len(s)
  PROVE  SplitsAt(S, s, n)
  <1>1. Len(s) \in Nat /\ n \in Nat OBVIOUS
  <1>2. PICK q, r : q = SubSeq(s, 1, n) /\ r = SubSeq(s, n + 1, Len(s)) OBVIOUS
  <1>3. q \in Seq(S) /\ Len(q) = n
    <2>1. \A i \in 1..n : s[i] \in S BY <1>1
    <2>2. 1 \in Int /\ n \in Int BY <1>1
    <2>3. /\ SubSeq(s, 1, n) \in Seq(S)
          /\ Len(SubSeq(s, 1, n)) = IF 1 <= n THEN n - 1 + 1 ELSE 0
      BY <2>1, <2>2, SubSeqProperties
    <2> QED BY <1>1, <1>2, <2>3
  <1>4. r \in Seq(S)
    <2>1. \A i \in (n + 1)..Len(s) : s[i] \in S BY <1>1
    <2>2. n + 1 \in Int /\ Len(s) \in Int BY <1>1
    <2>3. SubSeq(s, n + 1, Len(s)) \in Seq(S) BY <2>1, <2>2, SubSeqProperties
    <2> QED BY <1>2, <2>3
  <1>5. q \o r = s
    <2>1. /\ 1 \in 1..(Len(s) + 1) /\ n \in (1 - 1)..Len(s) /\ Len(s) \in n..Len(s)
      BY <1>1
    <2>2. SubSeq(s, 1, n) \o SubSeq(s, n + 1, Len(s)) = SubSeq(s, 1, Len(s))
      BY <2>1, ConcatAdjacentSubSeq
    <2> QED BY <1>2, <2>2, SubSeqFull
  <1> QED BY <1>2, <1>3, <1>4, <1>5 DEF Joins, SplitsAt

-----------------------------------------------------------------------------
(* Texts put together at a slash.                                          *)

\* A segment has no slash.
LEMMA NoSlashInside ==
  ASSUME NEW S, NEW t \in Seq(S), NEW f \in Seq(Seq(S)), NEW l \in Seq(S), Cut(t, f, l)
  PROVE  \A i \in 1..Len(l) : l[i] # "/"
  <1> DEFINE T == {u \in Seq(S) : \A h \in Seq(Seq(S)), m \in Seq(S) :
                                     Cut(u, h, m) => \A i \in 1..Len(m) : m[i] # "/"}
  <1>0. \A v : \A h, g \in Seq(Seq(S)), m, k \in Seq(S) :
          Cut(v, h, m) /\ Cut(v, g, k) => h = g /\ m = k
    BY CutUnique
  <1>1. <<>> \in T
    <2>1. \A h \in Seq(Seq(S)), m \in Seq(S) : Cut(<<>>, h, m) => m = <<>>
      BY <1>0, CutEmpty, NoneOrOne
    <2>2. <<>> \in Seq(S) /\ Len(<<>>) = 0 OBVIOUS
    <2> QED BY <2>1, <2>2
  <1>2. ASSUME NEW u \in Seq(S), NEW x \in S, u \in T PROVE Append(u, x) \in T
    <2>1. PICK h \in Seq(Seq(S)), m \in Seq(S) : Cut(u, h, m) BY CutExists
    <2>2. \A i \in 1..Len(m) : m[i] # "/" BY <1>2, <2>1
    <2>3. PICK g \in Seq(Seq(S)), k \in Seq(S) :
            Cut(Append(u, x), g, k) /\ \A i \in 1..Len(k) : k[i] # "/"
      <3>1. CASE x = "/"
        <4>1. Cut(Append(u, x), Append(h, m), <<>>) BY <2>1, <3>1, CutGrows
        <4>2. Append(h, m) \in Seq(Seq(S)) /\ <<>> \in Seq(S) /\ Len(<<>>) = 0
          BY AppendTypes
        <4>3. \A i \in 1..Len(<<>>) : <<>>[i] # "/" OBVIOUS
        <4> QED BY <4>1, <4>2, <4>3
      <3>2. CASE x # "/"
        <4>1. Cut(Append(u, x), h, Append(m, x)) BY <2>1, <3>2, CutGrows
        <4>2. /\ Append(m, x) \in Seq(S) /\ Len(Append(m, x)) = Len(m) + 1
              /\ \A i \in 1..Len(m) : Append(m, x)[i] = m[i]
              /\ Append(m, x)[Len(m) + 1] = x
          BY AppendProperties
        <4>3. Len(m) \in Nat OBVIOUS
        <4>5. \A i \in 1..(Len(m) + 1) : i \in 1..Len(m) \/ i = Len(m) + 1 BY <4>3
        <4>4. \A i \in 1..(Len(m) + 1) : Append(m, x)[i] # "/" BY <2>2, <3>2, <4>2, <4>5
        <4> QED BY <4>1, <4>2, <4>4
      <3> QED BY <3>1, <3>2
    <2>4. Append(u, x) \in Seq(S) BY AppendProperties
    <2>5. \A e \in Seq(Seq(S)), j \in Seq(S) : Cut(Append(u, x), e, j) => j = k
      BY <1>0, <2>3
    <2> QED BY <2>3, <2>4, <2>5
  <1> HIDE DEF T
  <1>3. t \in T BY <1>1, <1>2, ByAppending
  <1> QED BY <1>3 DEF T

\* A text without a slash is a segment.
LEMMA SegmentItself ==
  ASSUME NEW S, NEW q \in Seq(S), \A i \in 1..Len(q) : q[i] # "/"
  PROVE  Cut(q, <<>>, q) /\ Segments(q) = <<q>>
  <1>1. Cut(<<>> \o q, <<>>, <<>> \o q) BY CutEmpty, CutJoined, NoneOrOne
  <1>2. <<>> \o q = q BY ConcatEmptySeq
  <1>3. Append(<<>>, q) = <<q>> OBVIOUS
  <1> QED BY <1>1, <1>2, <1>3 DEF Cut

\* The segments of what is put behind a slash come behind those in front of it.
LEMMA CutPut ==
  ASSUME NEW S, NEW w \in Seq(S), NEW g \in Seq(Seq(S)), Cut(w, g, <<>>),
         NEW r \in Seq(S), NEW e \in Seq(Seq(S)), NEW l \in Seq(S), Cut(r, e, l)
  PROVE  Cut(w \o r, g \o e, l)
  <1> DEFINE P == Seq(S)
             T == {u \in Seq(S) : \A h \in Seq(Seq(S)), m \in Seq(S) :
                                     Cut(u, h, m) => Cut(w \o u, g \o h, m)}
  <1>0. \A v : \A h, d \in Seq(Seq(S)), m, k \in Seq(S) :
          Cut(v, h, m) /\ Cut(v, d, k) => h = d /\ m = k
    BY CutUnique
  <1>01. /\ \A h \in Seq(Seq(S)), m \in Seq(S) :
              g \o h \in Seq(Seq(S)) /\ g \o Append(h, m) = Append(g \o h, m)
         /\ g \o <<>> = g
    <2>1. g \in Seq(P) BY DEF P
    <2> HIDE DEF P
    <2>2. \A h \in Seq(P), m \in P : g \o h \in Seq(P) /\ g \o Append(h, m) = Append(g \o h, m)
      BY <2>1, ConcatProperties, ConcatAppend
    <2>3. g \o <<>> = g BY <2>1, ConcatEmptySeq
    <2> QED BY <2>2, <2>3 DEF P
  <1>1. <<>> \in T
    <2>1. \A h \in Seq(Seq(S)), m \in Seq(S) : Cut(<<>>, h, m) => h = <<>> /\ m = <<>>
      BY <1>0, CutEmpty, NoneOrOne
    <2>2. <<>> \in Seq(S) /\ w \o <<>> = w BY ConcatEmptySeq, EmptySeq
    <2> QED BY <1>01, <2>1, <2>2
  <1>2. ASSUME NEW u \in Seq(S), NEW x \in S, u \in T PROVE Append(u, x) \in T
    <2>1. PICK h \in Seq(Seq(S)), m \in Seq(S) : Cut(u, h, m) BY CutExists
    <2>2. Cut(w \o u, g \o h, m) BY <1>2, <2>1
    <2>3. w \o u \in Seq(S) /\ Append(u, x) \in Seq(S) /\ w \o Append(u, x) = Append(w \o u, x)
      BY ConcatProperties, AppendProperties, ConcatAppend
    <2>4. g \o h \in Seq(Seq(S)) /\ g \o Append(h, m) = Append(g \o h, m) BY <1>01
    <2>5. Append(h, m) \in Seq(Seq(S)) /\ Append(m, x) \in Seq(S) /\ <<>> \in Seq(S)
      BY AppendTypes, NoneOrOne
    <2>6. PICK d \in Seq(Seq(S)), k \in Seq(S) :
            Cut(Append(u, x), d, k) /\ Cut(w \o Append(u, x), g \o d, k)
      <3>1. CASE x = "/"
        <4>1. Cut(Append(u, x), Append(h, m), <<>>) BY <2>1, <3>1, CutGrows
        <4>2. Cut(Append(w \o u, x), Append(g \o h, m), <<>>)
          BY <2>2, <2>3, <2>4, <3>1, CutGrows
        <4> QED BY <2>3, <2>4, <2>5, <4>1, <4>2
      <3>2. CASE x # "/"
        <4>1. Cut(Append(u, x), h, Append(m, x)) BY <2>1, <3>2, CutGrows
        <4>2. Cut(Append(w \o u, x), g \o h, Append(m, x))
          BY <2>2, <2>3, <2>4, <3>2, CutGrows
        <4> QED BY <2>3, <2>5, <4>1, <4>2
      <3> QED BY <3>1, <3>2
    <2>7. \A c \in Seq(Seq(S)), j \in Seq(S) : Cut(Append(u, x), c, j) => c = d /\ j = k
      BY <1>0, <2>6
    <2> QED BY <2>3, <2>6, <2>7
  <1> HIDE DEF T
  <1>3. r \in T BY <1>1, <1>2, ByAppending
  <1> QED BY <1>3 DEF T

\* What is joined of segments.
LEMMA JoinsIs ==
  ASSUME NEW S, NEW d \in Seq(Seq(S)), NEW h \in Seq(Seq(S)), NEW z, Joins(z, d, h)
  PROVE  /\ z \in Seq(Seq(S))
         /\ z = <<>> => d = <<>> /\ h = <<>>
         /\ h = <<>> => z = d
  <1> DEFINE P == Seq(S)
  <1>1. d \in Seq(P) /\ h \in Seq(P) /\ z = d \o h BY DEF P, Joins
  <1> HIDE DEF P
  <1>2. z \in Seq(P) BY <1>1, ConcatProperties
  <1>3. z = <<>> => d = <<>> /\ h = <<>>
    <2>1. d \in Seq(P) /\ h \in Seq(P) BY <1>1
    <2>2. d \o h = <<>> <=> d = <<>> /\ h = <<>> BY <2>1, ConcatEqualIffEmpty
    <2> QED BY <1>1, <2>2
  <1>4. h = <<>> => z = d BY <1>1, ConcatEmptySeq
  <1> QED BY <1>2, <1>3, <1>4 DEF P

\* The last of what is joined is the last of the second part.
LEMMA JoinsEnds ==
  ASSUME NEW S, NEW d \in Seq(Seq(S)), NEW h \in Seq(Seq(S)),
         NEW c \in Seq(Seq(S)), NEW j \in Seq(S), Joins(Append(c, j), d, h), h # <<>>
  PROVE  \E k \in Seq(Seq(S)) : h = Append(k, j) /\ Joins(c, d, k)
  <1> DEFINE P == Seq(S)
  <1>1. d \in Seq(P) /\ h \in Seq(P) /\ Append(c, j) = d \o h /\ c \in Seq(P) /\ j \in P
    BY DEF P, Joins
  <1> HIDE DEF P
  <1>7. \A k \in Seq(P), i \in P : d \o Append(k, i) = Append(d \o k, i)
    BY <1>1, ConcatAppend, SMTT(30)
  <1>2. PICK k \in Seq(P), i \in P : h = Append(k, i)
    BY <1>1, SequenceEmptyOrAppend
  <1>3. d \o Append(k, i) = Append(d \o k, i) BY <1>2, <1>7
  <1>4. PICK o \in Seq(P) : o = d \o k BY <1>1, <1>2, ConcatProperties
  <1>5. Append(o, i) = Append(c, j) BY <1>1, <1>2, <1>3, <1>4
  <1>6. o \in Seq(P) /\ i \in P /\ c \in Seq(P) /\ j \in P BY <1>1, <1>2, <1>4
  <1>8. o = c /\ i = j BY <1>5, <1>6, AppendInjective
  <1> QED BY <1>2, <1>4, <1>8 DEF Joins, P

\* A text parted in front of the segments h.
Parted(S, u, d, h, m) ==
  \E w \in Seq(S), r \in Seq(S) :
    u = w \o r /\ Cut(w, d, <<>>) /\ Cut(r, h, m)

\* A text that grows by a symbol stays parted.
LEMMA PartedFurther ==
  ASSUME NEW S, NEW u \in Seq(S), NEW x \in S, NEW d \in Seq(Seq(S)),
         NEW h \in Seq(Seq(S)), NEW m \in Seq(S), Parted(S, u, d, h, m)
  PROVE  /\ x = "/" => Parted(S, Append(u, x), d, Append(h, m), <<>>)
         /\ x # "/" => Parted(S, Append(u, x), d, h, Append(m, x))
  <1>1. PICK w \in Seq(S), r \in Seq(S) : u = w \o r /\ Cut(w, d, <<>>) /\ Cut(r, h, m)
    BY DEF Parted
  <1>2. Append(r, x) \in Seq(S) /\ Append(u, x) = w \o Append(r, x)
    <2>1. Append(r, x) \in Seq(S) BY AppendProperties
    <2>2. w \o Append(r, x) = Append(w \o r, x) BY ConcatAppend
    <2> QED BY <1>1, <2>1, <2>2
  <1>3. /\ x = "/" => Cut(Append(r, x), Append(h, m), <<>>)
        /\ x # "/" => Cut(Append(r, x), h, Append(m, x))
    BY <1>1, CutGrows
  <1> QED BY <1>1, <1>2, <1>3 DEF Parted

\* A text can be parted where a segment starts.
LEMMA CutParted ==
  ASSUME NEW S, NEW t \in Seq(S), NEW g \in Seq(Seq(S)), NEW e \in Seq(Seq(S)),
         NEW l \in Seq(S), NEW a, Cut(t, a, l), Joins(a, g, e)
  PROVE  Parted(S, t, g, e, l)
  <1> DEFINE T == {u \in Seq(S) : \A d, h, z \in Seq(Seq(S)) : \A m \in Seq(S) :
                     Cut(u, z, m) /\ Joins(z, d, h) => Parted(S, u, d, h, m)}
  <1>0. \A v : \A h, d \in Seq(Seq(S)), m, k \in Seq(S) :
          Cut(v, h, m) /\ Cut(v, d, k) => h = d /\ m = k
    BY CutUnique
  <1>02. <<>> \in Seq(S) /\ <<>> \in Seq(Seq(S)) /\ <<>> \o <<>> = <<>> OBVIOUS
  <1>1. <<>> \in T
    <2> SUFFICES ASSUME NEW d \in Seq(Seq(S)), NEW h \in Seq(Seq(S)), NEW m \in Seq(S),
                        NEW z \in Seq(Seq(S)), Cut(<<>>, z, m), Joins(z, d, h)
                 PROVE  Parted(S, <<>>, d, h, m)
      BY <1>02
    <2>1. z = <<>> /\ m = <<>> BY <1>0, <1>02, CutEmpty
    <2>2. d = <<>> /\ h = <<>> BY <2>1, JoinsIs
    <2> QED BY <1>02, <2>1, <2>2, CutEmpty DEF Parted
  <1>2. ASSUME NEW u \in Seq(S), NEW x \in S, u \in T PROVE Append(u, x) \in T
    <2>0. Append(u, x) \in Seq(S) BY AppendProperties
    <2> SUFFICES ASSUME NEW d \in Seq(Seq(S)), NEW h \in Seq(Seq(S)), NEW m \in Seq(S),
                        NEW z \in Seq(Seq(S)), Cut(Append(u, x), z, m), Joins(z, d, h)
                 PROVE  Parted(S, Append(u, x), d, h, m)
      BY <2>0
    <2>1. PICK c \in Seq(Seq(S)), j \in Seq(S) : Cut(u, c, j) BY CutExists
    <2>2. Append(c, j) \in Seq(Seq(S)) /\ Append(j, x) \in Seq(S) BY AppendTypes
    <2>4. CASE x # "/"
      <3>1. Cut(Append(u, x), c, Append(j, x)) BY <2>1, <2>4, CutGrows
      <3>2. z = c /\ m = Append(j, x) BY <1>0, <2>2, <3>1
      <3>3. Parted(S, u, d, h, j) BY <1>2, <2>1, <3>2
      <3> QED BY <2>4, <3>2, <3>3, PartedFurther
    <2>5. CASE x = "/"
      <3>1. Cut(Append(u, x), Append(c, j), <<>>) BY <2>1, <2>5, CutGrows
      <3>5. PICK y \in Seq(Seq(S)) : y = Append(c, j) BY <2>2
      <3>6. Cut(Append(u, x), y, <<>>) BY <3>1, <3>5
      <3>8. y \in Seq(Seq(S)) BY <3>5
      <3>7. z = y /\ m = <<>> BY <1>0, <1>02, <3>6, <3>8
      <3>2. z = Append(c, j) /\ m = <<>> BY <3>5, <3>7
      <3>3. CASE h = <<>>
        <4>3. z = d BY <3>3, JoinsIs
        <4>1. d = Append(c, j) BY <3>2, <4>3
        <4>2. Append(u, x) \o <<>> = Append(u, x) BY <2>0, ConcatEmptySeq
        <4> QED BY <1>02, <2>0, <3>1, <3>2, <3>3, <4>1, <4>2, CutEmpty DEF Parted
      <3>4. CASE h # <<>>
        <4>1. PICK k \in Seq(Seq(S)) : h = Append(k, j) /\ Joins(c, d, k)
          <5>1. c \in Seq(Seq(S)) /\ j \in Seq(S) BY <2>1
          <5>2. Joins(Append(c, j), d, h) BY <3>2
          <5> QED BY <3>4, <5>1, <5>2, JoinsEnds
        <4>2. Parted(S, u, d, k, j) BY <1>2, <2>1, <4>1
        <4> QED BY <2>5, <3>2, <4>1, <4>2, PartedFurther
      <3> QED BY <3>3, <3>4
    <2> QED BY <2>4, <2>5
  <1> HIDE DEF T
  <1>3. t \in T BY <1>1, <1>2, ByAppending
  <1>4. a \in Seq(Seq(S)) BY JoinsIs
  <1> QED BY <1>3, <1>4 DEF T

\* A text is its last segment and what stands in front of it.
LEMMA CutBefore ==
  ASSUME NEW S, NEW t \in Seq(S), NEW g \in Seq(Seq(S)), NEW l \in Seq(S), Cut(t, g, l)
  PROVE  \E w \in Seq(S) : t = w \o l /\ Cut(w, g, <<>>)
  <1>1. <<>> \in Seq(Seq(S)) BY NoneOrOne
  <1>2. g \o <<>> = g
    <2> DEFINE P == Seq(S)
    <2>1. g \in Seq(P) OBVIOUS
    <2> HIDE DEF P
    <2> QED BY <2>1, ConcatEmptySeq
  <1>3. PICK w \in Seq(S), r \in Seq(S) : t = w \o r /\ Cut(w, g, <<>>) /\ Cut(r, <<>>, l)
    <2>1. Joins(g, g, <<>>) BY <1>2 DEF Joins
    <2>2. Parted(S, t, g, <<>>, l) BY <1>1, <2>1, CutParted
    <2> QED BY <2>2 DEF Parted
  <1>4. Cut(l, <<>>, l) BY NoSlashInside, SegmentItself
  <1>5. r = l BY <1>1, <1>3, <1>4, CutInjective
  <1> QED BY <1>3, <1>5

\* A text whose last segment l is not empty ends with the last symbol of it.
EndsWithText(S, t, g, l) ==
  \E w \in Seq(S), x \in S, k \in Seq(S) :
    t = Append(w, x) /\ l = Append(k, x) /\ Cut(w, g, k)

\* Any other one of more than one segment ends with a slash.
EndsWithSlash(S, t, g) ==
  \E w \in Seq(S), h \in Seq(Seq(S)), k \in Seq(S) :
    t = Append(w, "/") /\ g = Append(h, k) /\ Cut(w, h, k)

\* What a text ends with.
LEMMA CutEnds ==
  ASSUME NEW S, NEW t \in Seq(S), NEW g \in Seq(Seq(S)), NEW l \in Seq(S), Cut(t, g, l)
  PROVE  /\ l # <<>> => EndsWithText(S, t, g, l)
         /\ l = <<>> /\ g # <<>> => EndsWithSlash(S, t, g)
  <1>1. ASSUME t = <<>> PROVE g = <<>> /\ l = <<>>
    <2>1. Cut(t, <<>>, <<>>) BY <1>1, CutEmpty
    <2> QED BY <2>1, CutUnique, NoneOrOne
  <1>2. CASE t # <<>>
    <2>1. PICK w \in Seq(S), x \in S : t = Append(w, x) BY <1>2, SequenceEmptyOrAppend
    <2>2. PICK h \in Seq(Seq(S)), k \in Seq(S) : Cut(w, h, k) BY CutExists
    <2>3. /\ Append(h, k) \in Seq(Seq(S)) /\ Append(h, k) # <<>> /\ <<>> \in Seq(S)
          /\ Append(k, x) \in Seq(S) /\ Append(k, x) # <<>>
      BY AppendTypes, NoneOrOne
    <2>4. CASE x = "/"
      <3>1. Cut(t, Append(h, k), <<>>) BY <2>1, <2>2, <2>4, CutGrows
      <3>2. g = Append(h, k) /\ l = <<>> BY <2>3, <3>1, CutUnique
      <3> QED BY <2>1, <2>2, <2>4, <3>2 DEF EndsWithSlash
    <2>5. CASE x # "/"
      <3>1. Cut(t, h, Append(k, x)) BY <2>1, <2>2, <2>5, CutGrows
      <3>2. g = h /\ l = Append(k, x) BY <2>3, <3>1, CutUnique
      <3> QED BY <2>1, <2>2, <2>3, <2>5, <3>2 DEF EndsWithText
    <2> QED BY <2>4, <2>5
  <1> QED BY <1>1, <1>2

-----------------------------------------------------------------------------
(* Values.                                                                 *)

\* What segment k of a shape takes of t goes behind the values v.
MoreValues(v, shape, t, k) ==
  IF shape[k] = <<":">> THEN Append(v, <<t[k]>>)
  ELSE IF shape[k] = <<"*">> THEN Append(v, SubSeq(t, k, Len(t)))
  ELSE v

\* g holds the values of the beginnings of a shape.
TakesValues(g, shape, t, n) ==
  g[0] = <<>> /\ \A k \in 1..n : g[k] = MoreValues(g[k - 1], shape, t, k)

\* The recursion of Values has a solution.
LEMMA ValuesRun ==
  ASSUME NEW P, NEW shape \in Seq(P), NEW t
  PROVE  \E g : TakesValues(g, shape, t, Len(shape)) /\ Values(shape, t) = g[Len(shape)]
  <1> DEFINE n == Len(shape)
             Body(g, k) == IF k = 0 THEN <<>>
                           ELSE IF shape[k] = <<":">> THEN Append(g[k - 1], <<t[k]>>)
                           ELSE IF shape[k] = <<"*">>
                           THEN Append(g[k - 1], SubSeq(t, k, Len(t)))
                           ELSE g[k - 1]
             values == CHOOSE g : g = [k \in 0..n |-> Body(g, k)]
  <1>1. Values(shape, t) = values[n] BY DEF Values
  <1>2. n \in Nat OBVIOUS
  <1>3. \A g, k : Body(g, k) = IF k = 0 THEN <<>> ELSE MoreValues(g[k - 1], shape, t, k)
    BY DEF MoreValues
  <1> HIDE DEF Body
  <1>4. \E g : g = [k \in 0..n |-> Body(g, k)]
    <2> DEFINE T == {m \in 0..n : \E g : g = [k \in 0..m |-> Body(g, k)]}
    <2>1. 0 \in T
      <3> DEFINE g == [k \in 0..0 |-> <<>>]
      <3>1. \A k \in 0..0 : k = 0 BY SMT
      <3>2. \A k \in 0..0 : Body(g, k) = <<>> BY <1>3, <3>1
      <3>3. g = [k \in 0..0 |-> Body(g, k)] BY <3>2
      <3> HIDE DEF g
      <3>4. \E h : h = [k \in 0..0 |-> Body(h, k)] BY <3>3
      <3> QED BY <1>2, <3>4
    <2>2. ASSUME NEW m \in 1..n, m - 1 \in T PROVE m \in T
      <3>1. PICK h : h = [k \in 0..(m - 1) |-> Body(h, k)] BY <2>2
      <3> DEFINE g == [k \in 0..m |-> IF k = m THEN Body(h, m) ELSE h[k]]
      <3>2. ASSUME NEW k \in 0..m PROVE g[k] = Body(g, k)
        <4>1. k # 0 => k - 1 \in 0..m /\ k - 1 # m /\ g[k - 1] = h[k - 1] BY <1>2
        <4>2. g[k] = IF k = m THEN Body(h, m) ELSE h[k] OBVIOUS
        <4> HIDE DEF g
        <4>3. Body(g, k) = Body(h, k) BY <1>3, <4>1
        <4>4. k # m => k \in 0..(m - 1) BY <1>2
        <4>5. k # m => h[k] = Body(h, k) BY <3>1, <4>4
        <4> QED BY <4>2, <4>3, <4>5
      <3>3. g = [k \in 0..m |-> Body(g, k)] BY <3>2
      <3> HIDE DEF g
      <3>4. \E f : f = [k \in 0..m |-> Body(f, k)] BY <3>3
      <3>5. m \in 0..n BY <1>2
      <3> QED BY <3>4, <3>5
    <2> HIDE DEF T
    <2>3. \A m \in 0..n : m \in T BY <1>2, <2>1, <2>2, UpTo
    <2>4. n \in T BY <1>2, <2>3
    <2> QED BY <2>4 DEF T
  <1>5. values = [k \in 0..n |-> Body(values, k)] BY <1>4
  <1> HIDE DEF values
  <1>6. \A k \in 0..n : values[k] = Body(values, k) BY <1>5
  <1>7. 0 \in 0..n /\ \A k \in 1..n : k \in 0..n /\ k # 0 BY <1>2
  <1>8. TakesValues(values, shape, t, n) BY <1>3, <1>6, <1>7 DEF TakesValues
  <1> QED BY <1>1, <1>8

\* The segments f have no catch-all and find the same in t and in u.
TakeAlike(f, t, u) == \A k \in 1..Len(f) : f[k] # <<"*">> /\ t[k] = u[k]

\* A segment more takes what it stands against.
LEMMA ValuesGrow ==
  ASSUME NEW P, NEW f \in Seq(P), NEW l \in P, NEW t, NEW u, TakeAlike(f, t, u)
  PROVE  /\ l = <<":">> =>
              Values(Append(f, l), u) = Append(Values(f, t), <<u[Len(f) + 1]>>)
         /\ l = <<"*">> =>
              Values(Append(f, l), u) = Append(Values(f, t), SubSeq(u, Len(f) + 1, Len(u)))
         /\ l \notin {<<":">>, <<"*">>} => Values(Append(f, l), u) = Values(f, t)
  <1>0. Len(f) \in Nat /\ Append(f, l) \in Seq(P)
    <2>1. Len(f) \in Nat OBVIOUS
    <2>2. Append(f, l) \in Seq(P) BY AppendProperties
    <2> QED BY <2>1, <2>2
  <1>1. PICK n \in Nat, s \in Seq(P) : n = Len(f) /\ s = Append(f, l) BY <1>0
  <1>2. Len(s) = n + 1 /\ s[n + 1] = l /\ \A k \in 1..n : s[k] = f[k]
    BY <1>1, AppendProperties
  <1>3. PICK g : TakesValues(g, f, t, n) /\ Values(f, t) = g[n] BY <1>1, ValuesRun
  <1>4. PICK h : TakesValues(h, s, u, n + 1) /\ Values(s, u) = h[n + 1]
    BY <1>2, ValuesRun
  <1> DEFINE T == {k \in 0..n : g[k] = h[k]}
  <1>5. 0 \in T BY <1>3, <1>4 DEF TakesValues
  <1>6. ASSUME NEW k \in 1..n, k - 1 \in T PROVE k \in T
    <2>1. k \in 0..n /\ k \in 1..(n + 1) /\ g[k - 1] = h[k - 1] BY <1>6
    <2>2. /\ g[k] = MoreValues(g[k - 1], f, t, k)
          /\ h[k] = MoreValues(h[k - 1], s, u, k)
      BY <1>3, <1>4, <2>1 DEF TakesValues
    <2>3. f[k] # <<"*">> /\ t[k] = u[k] /\ s[k] = f[k] BY <1>1, <1>2 DEF TakeAlike
    <2>4. g[k] = h[k] BY <2>1, <2>2, <2>3 DEF MoreValues
    <2> QED BY <2>1, <2>4
  <1> HIDE DEF T
  <1>7. \A k \in 0..n : k \in T BY <1>5, <1>6, UpTo
  <1>8. n \in 0..n /\ n + 1 \in 1..(n + 1) /\ (n + 1) - 1 = n OBVIOUS
  <1>9. g[n] = h[n] BY <1>7, <1>8 DEF T
  <1>10. h[n + 1] = MoreValues(h[n], s, u, n + 1) BY <1>4, <1>8 DEF TakesValues
  <1>11. Values(s, u) = MoreValues(Values(f, t), s, u, n + 1)
    BY <1>3, <1>4, <1>9, <1>10
  <1>12. <<":">> # <<"*">>
    <2>1. <<":">>[1] = ":" /\ <<"*">>[1] = "*" OBVIOUS
    <2> QED BY <2>1
  <1> QED BY <1>1, <1>2, <1>11, <1>12 DEF MoreValues

\* A shape without segments takes no values.
LEMMA ValuesNone == \A t : Values(<<>>, t) = <<>>
  <1> TAKE t
  <1>1. <<>> \in Seq(STRING) /\ Len(<<>>) = 0 OBVIOUS
  <1>2. PICK g : TakesValues(g, <<>>, t, 0) /\ Values(<<>>, t) = g[0] BY <1>1, ValuesRun
  <1> QED BY <1>2 DEF TakesValues

-----------------------------------------------------------------------------
(* Texts of routes.                                                        *)

\* A segment of a shape: a marker, or literal text.
ShapeSegment(s) == s \in {<<":">>, <<"*">>} \/ \A i \in 1..Len(s) : s[i] \notin Markers

\* The segments of a route: a catch-all is the last one.
ShapeText(f, l) ==
  /\ \A i \in 1..Len(f) : ShapeSegment(f[i]) /\ f[i] # <<"*">>
  /\ ShapeSegment(l)

\* What can be in front of a symbol, and what comes of it.
LEMMA ShapeGoesOn ==
  ASSUME NEW S, NEW u \in Seq(S), NEW x \in S,
         NEW f \in Seq(Seq(S)), NEW l \in Seq(S), Cut(u, f, l),
         NEW h \in Seq(Seq(S)), NEW m \in Seq(S), Cut(Append(u, x), h, m), ShapeText(h, m)
  PROVE  /\ ShapeText(f, l) /\ l # <<"*">>
         /\ x = "/" => h = Append(f, l) /\ m = <<>>
         /\ x # "/" => h = f /\ m = Append(l, x)
         /\ x \in Markers => l = <<>> /\ m = <<x>>
         /\ x \notin Markers /\ x # "/" =>
              l # <<":">> /\ \A i \in 1..Len(m) : m[i] \notin Markers
  <1>1. /\ Append(f, l) \in Seq(Seq(S)) /\ <<>> \in Seq(S) /\ Append(l, x) \in Seq(S)
    BY AppendTypes, NoneOrOne
  <1>2. x = "/" => h = Append(f, l) /\ m = <<>>
    <2> SUFFICES ASSUME x = "/" PROVE h = Append(f, l) /\ m = <<>> OBVIOUS
    <2>1. Cut(Append(u, x), Append(f, l), <<>>) BY CutGrows
    <2>2. Append(f, l) = h /\ <<>> = m BY <1>1, <2>1, CutUnique
    <2> QED BY <2>2
  <1>3. x # "/" => h = f /\ m = Append(l, x)
    <2> SUFFICES ASSUME x # "/" PROVE h = f /\ m = Append(l, x) OBVIOUS
    <2>1. Cut(Append(u, x), f, Append(l, x)) BY CutGrows
    <2> QED BY <1>1, <2>1, CutUnique
  <1>4. x \notin Markers \/ x # "/" BY DEF Markers
  <1>5. CASE x = "/"
    <2>1. /\ Len(Append(f, l)) = Len(f) + 1 /\ Append(f, l)[Len(f) + 1] = l
          /\ \A i \in 1..Len(f) : Append(f, l)[i] = f[i]
      <3> DEFINE P == Seq(S)
      <3>1. f \in Seq(P) /\ l \in P OBVIOUS
      <3> HIDE DEF P
      <3> QED BY <3>1, AppendProperties
    <2>2. Len(f) \in Nat OBVIOUS
    <2>3. Len(f) + 1 \in 1..(Len(f) + 1) /\ \A i \in 1..Len(f) : i \in 1..(Len(f) + 1)
      BY <2>2
    <2>4. ShapeText(f, l) /\ l # <<"*">> BY <1>2, <1>5, <2>1, <2>3 DEF ShapeText
    <2> QED BY <1>2, <1>4, <1>5, <2>4
  <1>6. CASE x # "/"
    <2>1. /\ Len(m) = Len(l) + 1 /\ m[Len(l) + 1] = x /\ m # <<>>
          /\ \A i \in 1..Len(l) : m[i] = l[i]
      <3>1. PICK e : e = Append(l, x) OBVIOUS
      <3>2. /\ Len(e) = Len(l) + 1 /\ e[Len(l) + 1] = x
            /\ \A i \in 1..Len(l) : e[i] = l[i]
        BY <3>1, AppendProperties
      <3>3. e # <<>>
        <4>1. Len(l) \in Nat /\ Len(<<>>) = 0 OBVIOUS
        <4> QED BY <3>2, <4>1
      <3> QED BY <1>3, <1>6, <3>1, <3>2, <3>3
    <2>2. Len(l) \in Nat OBVIOUS
    <2>3. ShapeSegment(m) BY DEF ShapeText
    <2>4. ASSUME NEW y, m = <<y>> PROVE l = <<>> /\ x = y
      <3>1. Len(m) = 1 /\ m[1] = y BY <2>4
      <3>4. Len(l) + 1 = 1 BY <2>1, <3>1
      <3>2. Len(l) = 0 BY <2>2, <3>4
      <3>3. l = <<>> BY <3>2
      <3> QED BY <2>1, <3>1, <3>2, <3>3
    <2>5. CASE m \in {<<":">>, <<"*">>}
      <3>1. l = <<>> /\ x \in Markers /\ m = <<x>> BY <2>4, <2>5 DEF Markers
      <3>2. ShapeSegment(<<>>) BY DEF ShapeSegment
      <3>3. <<>> # <<"*">> OBVIOUS
      <3> QED BY <1>3, <1>6, <3>1, <3>2, <3>3 DEF ShapeText
    <2>6. CASE m \notin {<<":">>, <<"*">>}
      <3>1. \A i \in 1..Len(m) : m[i] \notin Markers BY <2>3, <2>6 DEF ShapeSegment
      <3>2. Len(l) + 1 \in 1..Len(m) /\ \A i \in 1..Len(l) : i \in 1..Len(m)
        BY <2>1, <2>2
      <3>3. x \notin Markers BY <2>1, <3>1, <3>2
      <3>4. \A i \in 1..Len(l) : l[i] \notin Markers BY <2>1, <3>1, <3>2
      <3>5. l # <<":">> /\ l # <<"*">>
        <4>1. \A y \in Markers : l = <<y>> => Len(l) = 1 /\ l[1] \in Markers OBVIOUS
        <4> QED BY <3>4, <4>1 DEF Markers
      <3> QED BY <1>3, <1>6, <3>1, <3>3, <3>4, <3>5 DEF ShapeText, ShapeSegment
    <2> QED BY <2>5, <2>6
  <1> QED BY <1>5, <1>6

-----------------------------------------------------------------------------
(* Reading a text by the segments of a route.                              *)

\* A segment of a route, which is no catch-all, takes a segment.
Fits(s, q) ==
  \/ s = <<":">> /\ q # <<>>
  \/ s # <<":">> /\ s = q

Agrees(f, g) == Len(f) = Len(g) /\ \A i \in 1..Len(f) : Fits(f[i], g[i])

\* The segments f, and l at the end, take g and m of t and leave r.
Reading(S, t, r, f, l, g, m) ==
  /\ \E w \in Seq(S) : Joins(t, w, r) /\ Cut(w, g, m)
  /\ Agrees(f, g) /\ Fits(l, m)
  /\ l = <<":">> => r = <<>> \/ r[1] = "/"

\* A marker is no empty text, and the two are not the same.
LEMMA MarkersApart ==
  /\ <<>> # <<":">> /\ <<>> # <<"*">> /\ <<":">> # <<"*">>
  /\ \A q : Fits(<<>>, q) <=> q = <<>>
  <1>1. Len(<<>>) = 0 /\ \A y : Len(<<y>>) = 1 OBVIOUS
  <1>2. <<>> # <<":">> /\ <<>> # <<"*">> BY <1>1
  <1>3. <<":">>[1] = ":" /\ <<"*">>[1] = "*" OBVIOUS
  <1>4. <<":">> # <<"*">> BY <1>3
  <1> QED BY <1>2, <1>4 DEF Fits

\* A symbol can be counted to what is in front of it or behind it, and so can
\* a text.
LEMMA JoinsTexts ==
  ASSUME NEW S, NEW t, NEW w \in Seq(S), NEW r \in Seq(S)
  PROVE  /\ \A x \in S : /\ Append(w, x) \in Seq(S) /\ <<x>> \o r \in Seq(S)
                         /\ Joins(t, w, <<x>> \o r) <=> Joins(t, Append(w, x), r)
         /\ \A q \in Seq(S) : /\ w \o q \in Seq(S) /\ q \o r \in Seq(S)
                              /\ Joins(t, w, q \o r) <=> Joins(t, w \o q, r)
  <1>1. ASSUME NEW q \in Seq(S)
        PROVE  /\ w \o q \in Seq(S) /\ q \o r \in Seq(S)
               /\ Joins(t, w, q \o r) <=> Joins(t, w \o q, r)
    <2>1. w \o q \in Seq(S) /\ q \o r \in Seq(S) BY ConcatProperties
    <2>2. (w \o q) \o r = w \o (q \o r) BY ConcatAssociative
    <2> QED BY <2>1, <2>2 DEF Joins
  <1>2. ASSUME NEW x \in S
        PROVE  /\ Append(w, x) \in Seq(S) /\ <<x>> \o r \in Seq(S)
               /\ Joins(t, w, <<x>> \o r) <=> Joins(t, Append(w, x), r)
    <2>1. <<x>> \in Seq(S) /\ Append(w, x) = w \o <<x>> OBVIOUS
    <2> QED BY <1>1, <2>1
  <1> QED BY <1>1, <1>2

\* One segment more.
LEMMA AgreesGrows ==
  ASSUME NEW S, NEW f \in Seq(Seq(S)), NEW l \in Seq(S), NEW g \in Seq(Seq(S)),
         NEW m \in Seq(S)
  PROVE  Agrees(Append(f, l), Append(g, m)) <=> Agrees(f, g) /\ Fits(l, m)
  <1> DEFINE P == Seq(S)
  <1>1. f \in Seq(P) /\ g \in Seq(P) /\ l \in P /\ m \in P OBVIOUS
  <1> HIDE DEF P
  <1>2. PICK a \in Nat, b \in Nat : a = Len(f) /\ b = Len(g) BY <1>1
  <1>3. PICK s, t : s = Append(f, l) /\ t = Append(g, m) OBVIOUS
  <1>4. /\ Len(s) = a + 1 /\ s[a + 1] = l /\ \A i \in 1..a : s[i] = f[i]
        /\ Len(t) = b + 1 /\ t[b + 1] = m /\ \A i \in 1..b : t[i] = g[i]
    BY <1>1, <1>2, <1>3, AppendProperties
  <1>5. ASSUME a = b PROVE Agrees(s, t) <=> Agrees(f, g) /\ Fits(l, m)
    <2>1. /\ a + 1 \in 1..(a + 1) /\ \A i \in 1..a : i \in 1..(a + 1)
          /\ \A i \in 1..(a + 1) : i = a + 1 \/ i \in 1..a
      OBVIOUS
    <2>2. \A i \in 1..a : Fits(s[i], t[i]) <=> Fits(f[i], g[i]) BY <1>4, <1>5
    <2>3. Fits(s[a + 1], t[a + 1]) <=> Fits(l, m) BY <1>4, <1>5
    <2>4. (\A i \in 1..(a + 1) : Fits(s[i], t[i])) <=>
            (\A i \in 1..a : Fits(f[i], g[i])) /\ Fits(l, m)
      BY <2>1, <2>2, <2>3
    <2>5. Len(s) = Len(t) /\ Len(f) = Len(g) BY <1>2, <1>4, <1>5
    <2>6. Agrees(s, t) <=> \A i \in 1..(a + 1) : Fits(s[i], t[i])
      BY <1>4, <2>5 DEF Agrees
    <2>7. Agrees(f, g) <=> \A i \in 1..a : Fits(f[i], g[i])
      BY <1>2, <2>5 DEF Agrees
    <2> QED BY <2>4, <2>6, <2>7
  <1>6. ASSUME a # b PROVE ~Agrees(s, t) /\ ~Agrees(f, g)
    <2>1. a + 1 # b + 1 BY <1>6
    <2> QED BY <1>2, <1>4, <1>6, <2>1 DEF Agrees
  <1> QED BY <1>3, <1>5, <1>6

\* Behind a slash.
LEMMA ReadSlash ==
  ASSUME NEW S, "/" \in S, NEW t \in Seq(S), NEW r \in Seq(S),
         NEW f \in Seq(Seq(S)), NEW l \in Seq(S), NEW g \in Seq(Seq(S)), NEW m \in Seq(S),
         Reading(S, t, <<"/">> \o r, f, l, g, m)
  PROVE  Reading(S, t, r, Append(f, l), <<>>, Append(g, m), <<>>)
  <1>1. PICK w \in Seq(S) : Joins(t, w, <<"/">> \o r) /\ Cut(w, g, m) BY DEF Reading
  <1>2. Append(w, "/") \in Seq(S) /\ Joins(t, Append(w, "/"), r) BY <1>1, JoinsTexts
  <1>3. Cut(Append(w, "/"), Append(g, m), <<>>) BY <1>1, CutGrows
  <1>4. Agrees(f, g) /\ Fits(l, m) BY DEF Reading
  <1>5. Agrees(Append(f, l), Append(g, m)) BY <1>4, AgreesGrows
  <1> QED BY <1>2, <1>3, <1>5, MarkersApart DEF Reading

\* In front of the slash.
LEMMA ReadSlashBack ==
  ASSUME NEW S, "/" \in S, NEW t \in Seq(S), NEW r \in Seq(S),
         NEW f \in Seq(Seq(S)), NEW l \in Seq(S), NEW e \in Seq(Seq(S)), NEW k \in Seq(S),
         Reading(S, t, r, Append(f, l), <<>>, e, k)
  PROVE  \E g \in Seq(Seq(S)), m \in Seq(S) : Reading(S, t, <<"/">> \o r, f, l, g, m)
  <1>1. PICK w \in Seq(S) : Joins(t, w, r) /\ Cut(w, e, k) BY DEF Reading
  <1>2. Agrees(Append(f, l), e) /\ k = <<>> BY MarkersApart DEF Reading
  <1>3. e # <<>>
    <2> DEFINE P == Seq(S)
    <2>1. f \in Seq(P) /\ l \in P OBVIOUS
    <2> HIDE DEF P
    <2>2. Len(Append(f, l)) = Len(f) + 1 /\ Len(f) \in Nat BY <2>1, AppendProperties
    <2>3. Len(Append(f, l)) # 0 BY <2>2
    <2>4. Len(Append(f, l)) = Len(e) BY <1>2 DEF Agrees
    <2> QED BY <2>3, <2>4
  <1>4. PICK v \in Seq(S), g \in Seq(Seq(S)), m \in Seq(S) :
          w = Append(v, "/") /\ e = Append(g, m) /\ Cut(v, g, m)
    <2>1. w \in Seq(S) /\ Cut(w, e, <<>>) BY <1>1, <1>2
    <2>2. EndsWithSlash(S, w, e) BY <1>3, <2>1, CutEnds, NoneOrOne
    <2> QED BY <2>2 DEF EndsWithSlash
  <1>5. Joins(t, v, <<"/">> \o r)
    <2>1. Joins(t, Append(v, "/"), r) BY <1>1, <1>4
    <2> QED BY <2>1, JoinsTexts
  <1>6. Agrees(f, g) /\ Fits(l, m)
    <2>1. g \in Seq(Seq(S)) /\ m \in Seq(S) BY <1>4
    <2>2. Agrees(Append(f, l), Append(g, m)) BY <1>2, <1>4
    <2> QED BY <2>1, <2>2, AgreesGrows
  <1>7. (<<"/">> \o r)[1] = "/" OBVIOUS
  <1>8. Reading(S, t, <<"/">> \o r, f, l, g, m) BY <1>4, <1>5, <1>6, <1>7 DEF Reading
  <1> QED BY <1>4, <1>8

\* A symbol of literal text more, or less.
LEMMA ReadLiteral ==
  ASSUME NEW S, NEW t \in Seq(S), NEW r \in Seq(S), NEW x \in S, x # "/",
         NEW f \in Seq(Seq(S)), NEW l \in Seq(S), NEW g \in Seq(Seq(S)), NEW m \in Seq(S),
         l # <<":">>, Append(l, x) # <<":">>
  PROVE  /\ Reading(S, t, <<x>> \o r, f, l, g, m) =>
              m = l /\ Reading(S, t, r, f, Append(l, x), g, Append(l, x))
         /\ Reading(S, t, r, f, Append(l, x), g, m) =>
              m = Append(l, x) /\ Reading(S, t, <<x>> \o r, f, l, g, l)
  <1>0. Append(l, x) \in Seq(S) /\ Append(l, x) # <<>> BY AppendTypes
  <1>1. ASSUME Reading(S, t, <<x>> \o r, f, l, g, m)
        PROVE  m = l /\ Reading(S, t, r, f, Append(l, x), g, Append(l, x))
    <2>1. PICK w \in Seq(S) : Joins(t, w, <<x>> \o r) /\ Cut(w, g, m)
      BY <1>1 DEF Reading
    <2>2. m = l /\ Agrees(f, g) BY <1>1 DEF Reading, Fits
    <2>3. Append(w, x) \in Seq(S) /\ Joins(t, Append(w, x), r) BY <2>1, JoinsTexts
    <2>4. Cut(Append(w, x), g, Append(l, x)) BY <2>1, <2>2, CutGrows
    <2> QED BY <2>2, <2>3, <2>4 DEF Reading, Fits
  <1>2. ASSUME Reading(S, t, r, f, Append(l, x), g, m)
        PROVE  m = Append(l, x) /\ Reading(S, t, <<x>> \o r, f, l, g, l)
    <2>1. PICK w \in Seq(S) : Joins(t, w, r) /\ Cut(w, g, m)
      BY <1>2 DEF Reading
    <2>2. m = Append(l, x) /\ Agrees(f, g) BY <1>2 DEF Reading, Fits
    <2>3. PICK v \in Seq(S), y \in S, k \in Seq(S) :
            w = Append(v, y) /\ m = Append(k, y) /\ Cut(v, g, k)
      <3>1. w \in Seq(S) /\ Cut(w, g, m) /\ m # <<>> BY <1>0, <2>1, <2>2
      <3>2. EndsWithText(S, w, g, m) BY <3>1, CutEnds
      <3> QED BY <3>2 DEF EndsWithText
    <2>4. k = l /\ y = x
      <3>1. Append(k, y) = Append(l, x) BY <2>2, <2>3
      <3>2. k \in Seq(S) /\ y \in S BY <2>3
      <3> QED BY <3>1, <3>2, AppendInjective
    <2>5. Joins(t, v, <<x>> \o r)
      <3>1. Joins(t, Append(v, x), r) BY <2>1, <2>3, <2>4
      <3> QED BY <3>1, JoinsTexts
    <2> QED BY <2>2, <2>3, <2>4, <2>5 DEF Reading, Fits
  <1> QED BY <1>1, <1>2

\* What a parameter takes.
LEMMA ReadParameter ==
  ASSUME NEW S, NEW t \in Seq(S), NEW r \in Seq(S),
         NEW f \in Seq(Seq(S)), NEW g \in Seq(Seq(S)), NEW m \in Seq(S)
  PROVE  /\ \A q \in Seq(S) :
              /\ Reading(S, t, q \o r, f, <<>>, g, m)
              /\ q # <<>> /\ \A i \in 1..Len(q) : q[i] # "/"
              /\ r = <<>> \/ r[1] = "/"
              => m = <<>> /\ Reading(S, t, r, f, <<":">>, g, q)
         /\ Reading(S, t, r, f, <<":">>, g, m) =>
              /\ Reading(S, t, m \o r, f, <<>>, g, <<>>)
              /\ m # <<>> /\ \A i \in 1..Len(m) : m[i] # "/"
              /\ r = <<>> \/ r[1] = "/"
  <1>1. ASSUME NEW q \in Seq(S), Reading(S, t, q \o r, f, <<>>, g, m),
               q # <<>>, \A i \in 1..Len(q) : q[i] # "/", r = <<>> \/ r[1] = "/"
        PROVE  m = <<>> /\ Reading(S, t, r, f, <<":">>, g, q)
    <2>1. PICK w \in Seq(S) : Joins(t, w, q \o r) /\ Cut(w, g, m) BY <1>1 DEF Reading
    <2>2. m = <<>> /\ Agrees(f, g) BY <1>1, MarkersApart DEF Reading
    <2>3. w \o q \in Seq(S) /\ Joins(t, w \o q, r) BY <2>1, JoinsTexts
    <2>4. Cut(w \o q, g, q)
      <3>1. Cut(w \o q, g, m \o q) BY <1>1, <2>1, CutJoined
      <3>2. <<>> \o q = q BY ConcatEmptySeq
      <3> QED BY <2>2, <3>1, <3>2
    <2>5. Fits(<<":">>, q) BY <1>1 DEF Fits
    <2> QED BY <1>1, <2>2, <2>3, <2>4, <2>5 DEF Reading
  <1>2. ASSUME Reading(S, t, r, f, <<":">>, g, m)
        PROVE  /\ Reading(S, t, m \o r, f, <<>>, g, <<>>)
               /\ m # <<>> /\ \A i \in 1..Len(m) : m[i] # "/"
               /\ r = <<>> \/ r[1] = "/"
    <2>1. PICK w \in Seq(S) : Joins(t, w, r) /\ Cut(w, g, m) BY <1>2 DEF Reading
    <2>2. m # <<>> /\ Agrees(f, g) BY <1>2 DEF Reading, Fits
    <2>3. r = <<>> \/ r[1] = "/" BY <1>2 DEF Reading
    <2>4. PICK v \in Seq(S) : w = v \o m /\ Cut(v, g, <<>>) BY <2>1, CutBefore
    <2>5. \A i \in 1..Len(m) : m[i] # "/" BY <2>1, NoSlashInside
    <2>6. Joins(t, v, m \o r)
      <3>1. Joins(t, v \o m, r) BY <2>1, <2>4
      <3> QED BY <3>1, JoinsTexts
    <2>7. Reading(S, t, m \o r, f, <<>>, g, <<>>)
      BY <2>2, <2>4, <2>6, MarkersApart DEF Reading
    <2> QED BY <2>2, <2>3, <2>5, <2>7
  <1> QED BY <1>1, <1>2

-----------------------------------------------------------------------------
(* What a text takes, and what its segments do.                            *)

\* The segments of each value.
ValuesOf(v) == [i \in DOMAIN v |-> Segments(v[i])]

\* A value more.
LEMMA ValuesOfGrows ==
  ASSUME NEW S, NEW v \in Seq(Seq(S)), NEW q \in Seq(S)
  PROVE  /\ ValuesOf(<<>>) = <<>>
         /\ ValuesOf(Append(v, q)) = Append(ValuesOf(v), Segments(q))
  <1> DEFINE P == Seq(S)
             Q == Seq(P)
  <1>1. v \in Seq(P) /\ q \in P /\ \A p \in P : Segments(p) \in Q BY SegmentsType
  <1> HIDE DEF Q, P
  <1>2. ValuesOf(<<>>) = <<>> BY DEF ValuesOf
  <1>3. /\ Append(v, q) \in Seq(P) /\ Len(Append(v, q)) = Len(v) + 1
        /\ Append(v, q)[Len(v) + 1] = q /\ \A i \in 1..Len(v) : Append(v, q)[i] = v[i]
    BY <1>1, AppendProperties
  <1>0. Len(v) \in Nat BY <1>1
  <1>4. PICK n \in Nat, w \in Seq(P) : n = Len(v) /\ w = Append(v, q) BY <1>0, <1>3
  <1>5. DOMAIN v = 1..n /\ DOMAIN w = 1..(n + 1) BY <1>1, <1>3, <1>4
  <1>6. ValuesOf(v) \in Seq(Q) /\ Len(ValuesOf(v)) = n
    <2>1. ValuesOf(v) = [i \in 1..n |-> Segments(v[i])] BY <1>5 DEF ValuesOf
    <2>2. \A i \in 1..n : Segments(v[i]) \in Q BY <1>1, <1>4
    <2> QED BY <2>1, <2>2
  <1>7. \A i \in 1..n : ValuesOf(v)[i] = Segments(v[i]) BY <1>5 DEF ValuesOf
  <1>8. ValuesOf(w) \in Seq(Q) /\ Len(ValuesOf(w)) = n + 1
    <2>1. ValuesOf(w) = [i \in 1..(n + 1) |-> Segments(w[i])] BY <1>5 DEF ValuesOf
    <2>3. \A i \in 1..(n + 1) : w[i] \in P BY <1>3, <1>4
    <2>2. \A i \in 1..(n + 1) : Segments(w[i]) \in Q BY <1>1, <2>3
    <2> QED BY <2>1, <2>2
  <1>9. \A i \in 1..(n + 1) : ValuesOf(w)[i] = Segments(w[i]) BY <1>5 DEF ValuesOf
  <1>10. PICK a \in Seq(Q), b \in Seq(Q), e \in Q :
           a = ValuesOf(v) /\ b = ValuesOf(w) /\ e = Segments(q)
    BY <1>1, <1>6, <1>8
  <1>11. /\ Append(a, e) \in Seq(Q) /\ Len(Append(a, e)) = n + 1
         /\ Append(a, e)[n + 1] = e /\ \A i \in 1..n : Append(a, e)[i] = a[i]
    BY <1>6, <1>10, AppendProperties
  <1>12. \A i \in 1..(n + 1) : b[i] = Append(a, e)[i]
    <2> TAKE i \in 1..(n + 1)
    <2>1. b[i] = Segments(w[i]) BY <1>9, <1>10
    <2>2. CASE i = n + 1 BY <1>3, <1>4, <1>10, <1>11, <2>1, <2>2
    <2>3. CASE i \in 1..n
      <3>1. w[i] = v[i] BY <1>3, <1>4, <2>3
      <3>2. a[i] = Segments(v[i]) BY <1>7, <1>10, <2>3
      <3> QED BY <1>11, <2>1, <2>3, <3>1, <3>2
    <2>4. i = n + 1 \/ i \in 1..n OBVIOUS
    <2> QED BY <2>2, <2>3, <2>4
  <1>13. Len(b) = n + 1 BY <1>8, <1>10
  <1>14. b = Append(a, e) BY <1>11, <1>12, <1>13, SeqEqual
  <1> QED BY <1>2, <1>4, <1>10, <1>14

\* As many segments, of which none is a catch-all.
OneEach(f, g) == Len(f) = Len(g) /\ \A i \in 1..Len(f) : f[i] # <<"*">>

\* Literal text more takes no value more.
LEMMA ValuesLiteral ==
  ASSUME NEW S, NEW f \in Seq(Seq(S)), NEW l \in Seq(S), NEW g \in Seq(Seq(S)),
         NEW m \in Seq(S), OneEach(f, g),
         l # <<":">>, l # <<"*">>
  PROVE  Values(Append(f, l), Append(g, m)) = Values(f, g)
  <1> DEFINE P == Seq(S)
  <1>1. f \in Seq(P) /\ g \in Seq(P) /\ l \in P /\ m \in P OBVIOUS
  <1> HIDE DEF P
  <1>2. PICK u : u = Append(g, m) OBVIOUS
  <1>3. u[Len(f) + 1] = m /\ \A i \in 1..Len(f) : g[i] = u[i]
    BY <1>1, <1>2, AppendProperties DEF OneEach
  <1>4. TakeAlike(f, g, u) BY <1>3 DEF TakeAlike, OneEach
  <1>6. f \in Seq(P) /\ l \in P BY <1>1
  <1> QED BY <1>2, <1>4, <1>6, ValuesGrow

\* A parameter more takes the segment more.
LEMMA ValuesParameter ==
  ASSUME NEW S, NEW f \in Seq(Seq(S)), NEW g \in Seq(Seq(S)),
         NEW m \in Seq(S), OneEach(f, g),
         <<":">> \in Seq(S)
  PROVE  Values(Append(f, <<":">>), Append(g, m)) = Append(Values(f, g), <<m>>)
  <1> DEFINE P == Seq(S)
  <1>0. PICK l \in P : l = <<":">> OBVIOUS
  <1>1. f \in Seq(P) /\ g \in Seq(P) /\ l \in P /\ m \in P BY <1>0
  <1> HIDE DEF P
  <1>2. PICK u : u = Append(g, m) OBVIOUS
  <1>3. u[Len(f) + 1] = m /\ \A i \in 1..Len(f) : g[i] = u[i]
    BY <1>1, <1>2, AppendProperties DEF OneEach
  <1>4. TakeAlike(f, g, u) BY <1>3 DEF TakeAlike, OneEach
  <1>6. f \in Seq(P) /\ l \in P BY <1>1
  <1>7. Values(Append(f, l), u) = Append(Values(f, g), <<u[Len(f) + 1]>>)
    BY <1>0, <1>4, <1>6, ValuesGrow
  <1> QED BY <1>0, <1>2, <1>3, <1>7

\* Where a match starts.
Whole(t) == [rest |-> t, values |-> <<>>]

\* The values at b are those the segments f and l have of what they take of t.
Gives(S, t, b, f, l) ==
  \E g \in Seq(Seq(S)), m \in Seq(S) :
    /\ Reading(S, t, b.rest, f, l, g, m)
    /\ ValuesOf(b.values) = Values(Append(f, l), Append(g, m))

\* What the symbols of u lead to from t is what its segments take of it.
LeadsGives(S, t, u) ==
  \A f \in Seq(Seq(S)), l \in Seq(S) : \A b \in States(S) :
    Cut(u, f, l) /\ ShapeText(f, l) /\ l # <<"*">> /\ Leads(S, u, 0, Whole(t), b)
    => Gives(S, t, b, f, l)

\* What the segments of u take of t the symbols of u lead to.
ReadLeads(S, t, u) ==
  \A f \in Seq(Seq(S)), l \in Seq(S), g \in Seq(Seq(S)), m \in Seq(S), r \in Seq(S) :
    Cut(u, f, l) /\ ShapeText(f, l) /\ l # <<"*">> /\ Reading(S, t, r, f, l, g, m)
    => \E v \in Seq(Seq(S)) : Leads(S, u, 0, Whole(t), [rest |-> r, values |-> v])

\* The empty text.
LEMMA ReadEmpty ==
  ASSUME NEW S, NEW t \in Seq(S)
  PROVE  LeadsGives(S, t, <<>>) /\ ReadLeads(S, t, <<>>)
  <1>1. <<>> \in Seq(S) /\ <<>> \in Seq(Seq(S)) BY NoneOrOne
  <1>2. \A f \in Seq(Seq(S)), l \in Seq(S) : Cut(<<>>, f, l) => f = <<>> /\ l = <<>>
    BY <1>1, CutEmpty, CutUnique
  <1>3. Whole(t) \in States(S) /\ Whole(t).rest = t /\ Whole(t).values = <<>>
    BY <1>1, StateIs DEF Whole
  <1>4. Len(<<>>) = 0 OBVIOUS
  <1>5. \A b : Leads(S, <<>>, 0, Whole(t), b) <=> Whole(t) = b
    BY <1>1, <1>3, <1>4, LeadsEnds
  <1>6. ASSUME NEW r \in Seq(S)
        PROVE  /\ Reading(S, t, t, <<>>, <<>>, <<>>, <<>>)
               /\ \A g \in Seq(Seq(S)), m \in Seq(S) :
                    Reading(S, t, r, <<>>, <<>>, g, m) => r = t
    <2>1. /\ \A q \in Seq(S) : <<>> \o q = q
          /\ <<>> \in Seq(S)
      BY ConcatEmptySeq
    <2>2. Reading(S, t, t, <<>>, <<>>, <<>>, <<>>)
      <3>1. Joins(t, <<>>, t) BY <2>1 DEF Joins
      <3>2. Agrees(<<>>, <<>>) BY DEF Agrees
      <3> QED BY <2>1, <3>1, <3>2, CutEmpty, MarkersApart DEF Reading
    <2>3. ASSUME NEW g \in Seq(Seq(S)), NEW m \in Seq(S),
                 Reading(S, t, r, <<>>, <<>>, g, m)
          PROVE  r = t
      <3>1. PICK w \in Seq(S) : Joins(t, w, r) /\ Cut(w, g, m) BY <2>3 DEF Reading
      <3>2. Agrees(<<>>, g) /\ m = <<>> BY <2>3, MarkersApart DEF Reading
      <3>3. g = <<>>
        <4> DEFINE P == Seq(S)
        <4>1. g \in Seq(P) OBVIOUS
        <4> HIDE DEF P
        <4>2. Len(g) = 0 BY <1>4, <3>2 DEF Agrees
        <4> QED BY <4>1, <4>2
      <3>4. Cut(w, <<>>, <<>>) BY <3>1, <3>2, <3>3
      <3>5. w = <<>> BY <1>1, <3>1, <3>4, CutEmpty, CutInjective
      <3> QED BY <2>1, <3>1, <3>5 DEF Joins
    <2> QED BY <2>2, <2>3
  <1>7. Values(Append(<<>>, <<>>), Append(<<>>, <<>>)) = <<>>
    <2>1. OneEach(<<>>, <<>>) BY DEF OneEach
    <2>2. Values(Append(<<>>, <<>>), Append(<<>>, <<>>)) = Values(<<>>, <<>>)
      <3>1. PICK o : o = <<>> OBVIOUS
      <3>2. o # <<":">> /\ o # <<"*">> BY <3>1, MarkersApart
      <3>3. o \in Seq(S) /\ o \in Seq(Seq(S)) /\ OneEach(o, o) BY <1>1, <2>1, <3>1
      <3>4. Values(Append(o, o), Append(o, o)) = Values(o, o)
        BY <3>2, <3>3, ValuesLiteral
      <3> QED BY <3>1, <3>4
    <2> QED BY <2>2, ValuesNone
  <1>8. ValuesOf(<<>>) = <<>> BY DEF ValuesOf
  <1>9. LeadsGives(S, t, <<>>)
    <2> SUFFICES ASSUME NEW f \in Seq(Seq(S)), NEW l \in Seq(S), NEW b \in States(S),
                        Cut(<<>>, f, l), Leads(S, <<>>, 0, Whole(t), b)
                 PROVE  Gives(S, t, b, f, l)
      BY DEF LeadsGives
    <2>1. f = <<>> /\ l = <<>> BY <1>2
    <2>2. b.rest = t /\ b.values = <<>> BY <1>3, <1>5
    <2>3. Reading(S, t, t, <<>>, <<>>, <<>>, <<>>) BY <1>6
    <2> QED BY <1>1, <1>7, <1>8, <2>1, <2>2, <2>3 DEF Gives
  <1>10. ReadLeads(S, t, <<>>)
    <2> SUFFICES ASSUME NEW f \in Seq(Seq(S)), NEW l \in Seq(S), NEW g \in Seq(Seq(S)),
                        NEW m \in Seq(S), NEW r \in Seq(S),
                        Cut(<<>>, f, l), Reading(S, t, r, f, l, g, m)
                 PROVE  \E v \in Seq(Seq(S)) :
                          Leads(S, <<>>, 0, Whole(t), [rest |-> r, values |-> v])
      BY DEF ReadLeads
    <2>1. f = <<>> /\ l = <<>> BY <1>2
    <2>2. r = t BY <1>6, <2>1
    <2>3. Whole(t) = [rest |-> r, values |-> <<>>] BY <2>2 DEF Whole
    <2>4. Leads(S, <<>>, 0, Whole(t), [rest |-> r, values |-> <<>>]) BY <1>5, <2>3
    <2> QED BY <1>1, <2>4
  <1> QED BY <1>9, <1>10

\* The values of one symbol more.
LEMMA GivesMore ==
  ASSUME NEW S, NEW t \in Seq(S), NEW c \in States(S), NEW b \in States(S),
         NEW f \in Seq(Seq(S)), NEW l \in Seq(S), NEW x \in S,
         NEW h \in Seq(Seq(S)), NEW k \in Seq(S),
         ShapeText(f, l), l # <<"*">>, k # <<"*">>, x # "*",
         x = "/" => h = Append(f, l) /\ k = <<>>,
         x # "/" => h = f /\ k = Append(l, x),
         x \in Markers => l = <<>> /\ k = <<x>>,
         x \notin Markers /\ x # "/" => l # <<":">> /\ k # <<":">>,
         Gives(S, t, c, f, l), Takes(S, x, c, b)
  PROVE  Gives(S, t, b, h, k)
  <1>1. PICK g \in Seq(Seq(S)), m \in Seq(S) :
          /\ Reading(S, t, c.rest, f, l, g, m)
          /\ ValuesOf(c.values) = Values(Append(f, l), Append(g, m))
    BY DEF Gives
  <1>2. /\ c.rest \in Seq(S) /\ c.values \in Seq(Seq(S))
        /\ b.rest \in Seq(S) /\ b.values \in Seq(Seq(S))
    BY StateIs
  <1>3. PICK r \in Seq(S) : r = b.rest BY <1>2
  <1>4. Len(f) = Len(g) /\ Fits(l, m) BY <1>1 DEF Reading, Agrees
  <1>5. OneEach(f, g) BY <1>4 DEF ShapeText, OneEach
  <1>6. <<>> \in Seq(S) BY NoneOrOne
  <1>7. CASE x = "/"
    <2>1. x \notin Markers BY <1>7 DEF Markers
    <2>2. c.rest = <<"/">> \o r /\ b.values = c.values
      BY <1>3, <1>7, <2>1 DEF Takes, Markers
    <2>3. "/" \in S /\ Reading(S, t, <<"/">> \o r, f, l, g, m) BY <1>1, <1>7, <2>2
    <2>4. Reading(S, t, r, Append(f, l), <<>>, Append(g, m), <<>>) BY <2>3, ReadSlash
    <2>5. PICK d \in Seq(Seq(S)), e \in Seq(Seq(S)) : d = Append(f, l) /\ e = Append(g, m)
      BY AppendTypes
    <2>6. OneEach(d, e)
      <3> DEFINE P == Seq(S)
      <3>1. f \in Seq(P) /\ g \in Seq(P) /\ l \in P /\ m \in P OBVIOUS
      <3> HIDE DEF P
      <3>2. /\ Len(d) = Len(f) + 1 /\ Len(e) = Len(g) + 1 /\ d[Len(f) + 1] = l
            /\ \A i \in 1..Len(f) : d[i] = f[i]
        BY <2>5, <3>1, AppendProperties
      <3>3. \A n \in Nat : \A i \in 1..(n + 1) : i = n + 1 \/ i \in 1..n OBVIOUS
      <3>4. Len(f) \in Nat BY <3>1
      <3>5. Len(d) = Len(e) BY <1>4, <3>2
      <3>6. \A i \in 1..Len(d) : d[i] # <<"*">> BY <1>5, <3>2, <3>3, <3>4 DEF OneEach
      <3> QED BY <3>5, <3>6 DEF OneEach
    <2>7. d \in Seq(Seq(S)) /\ e \in Seq(Seq(S)) BY <2>5
    <2>8. Values(Append(d, <<>>), Append(e, <<>>)) = Values(d, e)
      <3>1. PICK z \in Seq(S) : z = <<>> BY <1>6
      <3>2. z # <<":">> /\ z # <<"*">> BY <3>1, MarkersApart
      <3>3. d \in Seq(Seq(S)) /\ e \in Seq(Seq(S)) /\ z \in Seq(S) BY <2>7, <3>1
      <3>4. Values(Append(d, z), Append(e, z)) = Values(d, e)
        BY <2>6, <3>2, <3>3, ValuesLiteral
      <3> QED BY <3>1, <3>4
    <2>9. ValuesOf(b.values) = Values(Append(h, k), Append(e, <<>>))
      BY <1>1, <1>7, <2>2, <2>5, <2>8
    <2>10. Reading(S, t, b.rest, h, k, e, <<>>) BY <1>3, <1>7, <2>4, <2>5
    <2> QED BY <1>6, <2>7, <2>9, <2>10 DEF Gives
  <1>8. CASE x = ":"
    <2>1. x \in Markers /\ x # "/" BY <1>8 DEF Markers
    <2>2. l = <<>> /\ k = <<":">> /\ h = f BY <1>8, <2>1
    <2>3. PICK q \in Seq(S) :
            /\ q # <<>> /\ \A i \in 1..Len(q) : q[i] # "/"
            /\ c.rest = q \o r
            /\ r = <<>> \/ r[1] = "/"
            /\ b.values = Append(c.values, q)
      BY <1>3, <1>8 DEF Takes
    <2>4. Reading(S, t, q \o r, f, <<>>, g, m) BY <1>1, <2>2, <2>3
    <2>5. m = <<>> /\ Reading(S, t, r, f, <<":">>, g, q)
      BY <2>3, <2>4, ReadParameter
    <2>6. Segments(q) = <<q>> BY <2>3, SegmentItself
    <2>7. ValuesOf(b.values) = Append(ValuesOf(c.values), <<q>>)
      <3>1. c.values \in Seq(Seq(S)) /\ q \in Seq(S) BY <1>2
      <3>2. ValuesOf(Append(c.values, q)) = Append(ValuesOf(c.values), Segments(q))
        BY <3>1, ValuesOfGrows
      <3> QED BY <2>3, <2>6, <3>2
    <2>8. Values(Append(f, <<>>), Append(g, m)) = Values(f, g)
      <3>1. l # <<":">> /\ l # <<"*">> BY <2>2, MarkersApart
      <3>2. Values(Append(f, l), Append(g, m)) = Values(f, g)
        BY <1>5, <3>1, ValuesLiteral
      <3> QED BY <2>2, <3>2
    <2>9. Values(Append(f, k), Append(g, q)) = Append(Values(f, g), <<q>>)
      BY <1>5, <2>2, ValuesParameter
    <2>10. ValuesOf(b.values) = Values(Append(h, k), Append(g, q))
      BY <1>1, <2>2, <2>7, <2>8, <2>9
    <2>11. Reading(S, t, b.rest, h, k, g, q) BY <1>3, <2>2, <2>5
    <2> QED BY <2>10, <2>11 DEF Gives
  <1>9. CASE x \notin Markers /\ x # "/"
    <2>1. c.rest = <<x>> \o r /\ b.values = c.values
      BY <1>3, <1>9 DEF Takes, Markers
    <2>2. h = f /\ k = Append(l, x) /\ l # <<":">> /\ k # <<":">> BY <1>9
    <2>3. Reading(S, t, <<x>> \o r, f, l, g, m) BY <1>1, <2>1
    <2>4. m = l /\ Reading(S, t, r, f, Append(l, x), g, Append(l, x))
      BY <1>9, <2>2, <2>3, ReadLiteral
    <2>5. Values(Append(f, l), Append(g, m)) = Values(f, g)
      BY <1>5, <2>2, ValuesLiteral
    <2>9. k # <<":">> BY <1>9
    <2>6. Values(Append(f, k), Append(g, k)) = Values(f, g)
      BY <1>5, <2>9, ValuesLiteral
    <2>7. ValuesOf(b.values) = Values(Append(h, k), Append(g, k))
      BY <1>1, <2>1, <2>2, <2>5, <2>6
    <2>8. Reading(S, t, b.rest, h, k, g, k) BY <1>3, <2>2, <2>4
    <2> QED BY <2>7, <2>8 DEF Gives
  <1> QED BY <1>7, <1>8, <1>9 DEF Markers

\* The segments f and l leave of t what the symbol x takes to r.
LeavesTo(S, t, r, f, l, x) ==
  \E s \in Seq(S), g \in Seq(Seq(S)), m \in Seq(S) :
    /\ Reading(S, t, s, f, l, g, m)
    /\ \A v \in Seq(Seq(S)) : \E o \in Seq(Seq(S)) :
         Takes(S, x, [rest |-> s, values |-> v], [rest |-> r, values |-> o])

\* One symbol less.
LEMMA ReadingBack ==
  ASSUME NEW S, NEW t \in Seq(S), NEW r \in Seq(S),
         NEW f \in Seq(Seq(S)), NEW l \in Seq(S), NEW x \in S,
         NEW h \in Seq(Seq(S)), NEW k \in Seq(S),
         x # "*",
         x = "/" => h = Append(f, l) /\ k = <<>>,
         x # "/" => h = f /\ k = Append(l, x),
         x \in Markers => l = <<>> /\ k = <<x>>,
         x \notin Markers /\ x # "/" => l # <<":">> /\ k # <<":">>,
         NEW e \in Seq(Seq(S)), NEW j \in Seq(S), Reading(S, t, r, h, k, e, j)
  PROVE  LeavesTo(S, t, r, f, l, x)
  <1>1. CASE x = ":"
    <2>1. x \in Markers /\ x # "/" BY <1>1 DEF Markers
    <2>2. l = <<>> /\ k = <<":">> /\ h = f BY <1>1, <2>1
    <2>3. Reading(S, t, r, f, <<":">>, e, j) BY <2>2
    <2>4. /\ Reading(S, t, j \o r, f, <<>>, e, <<>>)
          /\ j # <<>> /\ \A i \in 1..Len(j) : j[i] # "/"
          /\ r = <<>> \/ r[1] = "/"
      BY <2>3, ReadParameter
    <2>5. j \o r \in Seq(S) /\ <<>> \in Seq(S) BY ConcatProperties, NoneOrOne
    <2>6. ASSUME NEW v \in Seq(Seq(S))
          PROVE  \E o \in Seq(Seq(S)) :
                   Takes(S, x, [rest |-> j \o r, values |-> v], [rest |-> r, values |-> o])
      <3>1. Append(v, j) \in Seq(Seq(S)) BY AppendTypes
      <3>2. Takes(S, x, [rest |-> j \o r, values |-> v],
                        [rest |-> r, values |-> Append(v, j)])
        BY <1>1, <2>4 DEF Takes
      <3> QED BY <3>1, <3>2
    <2> QED BY <2>2, <2>4, <2>5, <2>6 DEF LeavesTo
  <1>2. CASE x = "/"
    <2>1. x \notin Markers /\ "/" \in S BY <1>2 DEF Markers
    <2>2. Reading(S, t, r, Append(f, l), <<>>, e, j) BY <1>2
    <2>3. PICK g \in Seq(Seq(S)), m \in Seq(S) : Reading(S, t, <<"/">> \o r, f, l, g, m)
      BY <2>1, <2>2, ReadSlashBack
    <2>4. \A v : Takes(S, x, [rest |-> <<"/">> \o r, values |-> v],
                             [rest |-> r, values |-> v])
      BY <1>2, <2>1 DEF Takes, Markers
    <2>5. <<"/">> \o r \in Seq(S) BY <2>1, JoinsTexts
    <2> QED BY <2>3, <2>4, <2>5 DEF LeavesTo
  <1>3. CASE x \notin Markers /\ x # "/"
    <2>1. h = f /\ k = Append(l, x) /\ l # <<":">> /\ k # <<":">> BY <1>3
    <2>2. Reading(S, t, <<x>> \o r, f, l, e, l)
      <3>1. Reading(S, t, r, f, Append(l, x), e, j) BY <2>1
      <3> QED BY <1>3, <2>1, <3>1, ReadLiteral
    <2>3. \A v : Takes(S, x, [rest |-> <<x>> \o r, values |-> v],
                             [rest |-> r, values |-> v])
      BY <1>3 DEF Takes, Markers
    <2>4. <<x>> \o r \in Seq(S) BY JoinsTexts
    <2> QED BY <2>2, <2>3, <2>4 DEF LeavesTo
  <1> QED BY <1>1, <1>2, <1>3 DEF Markers

\* What the symbols of a text do, its segments do.
LEMMA TextReads ==
  ASSUME NEW S, NEW t \in Seq(S), NEW u \in Seq(S)
  PROVE  LeadsGives(S, t, u) /\ ReadLeads(S, t, u)
  <1> DEFINE T == {w \in Seq(S) : LeadsGives(S, t, w) /\ ReadLeads(S, t, w)}
  <1>0. Whole(t) \in States(S) BY NoneOrOne, StateIs DEF Whole
  <1>1. <<>> \in T BY NoneOrOne, ReadEmpty
  <1>2. ASSUME NEW w \in Seq(S), NEW x \in S, w \in T PROVE Append(w, x) \in T
    <2>1. PICK z \in Seq(S) : z = Append(w, x) BY AppendProperties
    <2>2. PICK f \in Seq(Seq(S)), l \in Seq(S) : Cut(w, f, l) BY CutExists
    <2>3. ASSUME NEW h \in Seq(Seq(S)), NEW k \in Seq(S), Cut(z, h, k),
                 ShapeText(h, k), k # <<"*">>
          PROVE  /\ ShapeText(f, l) /\ l # <<"*">> /\ x # "*"
                 /\ x = "/" => h = Append(f, l) /\ k = <<>>
                 /\ x # "/" => h = f /\ k = Append(l, x)
                 /\ x \in Markers => l = <<>> /\ k = <<x>>
                 /\ x \notin Markers /\ x # "/" => l # <<":">> /\ k # <<":">>
      <3>1. Cut(Append(w, x), h, k) BY <2>1, <2>3
      <3>2. /\ ShapeText(f, l) /\ l # <<"*">>
            /\ x = "/" => h = Append(f, l) /\ k = <<>>
            /\ x # "/" => h = f /\ k = Append(l, x)
            /\ x \in Markers => l = <<>> /\ k = <<x>>
            /\ x \notin Markers /\ x # "/" =>
                 l # <<":">> /\ \A i \in 1..Len(k) : k[i] \notin Markers
        BY <2>2, <2>3, <3>1, ShapeGoesOn
      <3>3. x # "*" BY <2>3, <3>2 DEF Markers
      <3>4. (\A i \in 1..Len(k) : k[i] \notin Markers) => k # <<":">>
        <4>1. k = <<":">> => Len(k) = 1 /\ k[1] = ":" OBVIOUS
        <4> QED BY <4>1 DEF Markers
      <3> QED BY <3>2, <3>3, <3>4
    <2>4. 0 \in 0..Len(w) OBVIOUS
    <2>5. \A b \in States(S) :
            Leads(S, z, 0, Whole(t), b) <=>
              \E c \in States(S) : Leads(S, w, 0, Whole(t), c) /\ Takes(S, x, c, b)
      BY <1>0, <2>1, <2>4, LeadsLast
    <2>6. LeadsGives(S, t, z)
      <3> SUFFICES ASSUME NEW h \in Seq(Seq(S)), NEW k \in Seq(S), NEW b \in States(S),
                          Cut(z, h, k), ShapeText(h, k), k # <<"*">>,
                          Leads(S, z, 0, Whole(t), b)
                   PROVE  Gives(S, t, b, h, k)
        BY DEF LeadsGives
      <3>1. /\ ShapeText(f, l) /\ l # <<"*">> /\ x # "*"
            /\ x = "/" => h = Append(f, l) /\ k = <<>>
            /\ x # "/" => h = f /\ k = Append(l, x)
            /\ x \in Markers => l = <<>> /\ k = <<x>>
            /\ x \notin Markers /\ x # "/" => l # <<":">> /\ k # <<":">>
        BY <2>3
      <3>2. PICK c \in States(S) : Leads(S, w, 0, Whole(t), c) /\ Takes(S, x, c, b)
        BY <2>5
      <3>3. Gives(S, t, c, f, l) BY <1>2, <2>2, <3>1, <3>2 DEF LeadsGives
      <3> QED BY <3>1, <3>2, <3>3, GivesMore
    <2>7. ReadLeads(S, t, z)
      <3> SUFFICES ASSUME NEW h \in Seq(Seq(S)), NEW k \in Seq(S), NEW e \in Seq(Seq(S)),
                          NEW j \in Seq(S), NEW r \in Seq(S),
                          Cut(z, h, k), ShapeText(h, k), k # <<"*">>,
                          Reading(S, t, r, h, k, e, j)
                   PROVE  \E v \in Seq(Seq(S)) :
                            Leads(S, z, 0, Whole(t), [rest |-> r, values |-> v])
        BY DEF ReadLeads
      <3>1. /\ ShapeText(f, l) /\ l # <<"*">> /\ x # "*"
            /\ x = "/" => h = Append(f, l) /\ k = <<>>
            /\ x # "/" => h = f /\ k = Append(l, x)
            /\ x \in Markers => l = <<>> /\ k = <<x>>
            /\ x \notin Markers /\ x # "/" => l # <<":">> /\ k # <<":">>
        BY <2>3
      <3>2. PICK s \in Seq(S), g \in Seq(Seq(S)), m \in Seq(S) :
              /\ Reading(S, t, s, f, l, g, m)
              /\ \A v \in Seq(Seq(S)) : \E o \in Seq(Seq(S)) :
                   Takes(S, x, [rest |-> s, values |-> v], [rest |-> r, values |-> o])
        <4>1. LeavesTo(S, t, r, f, l, x) BY <3>1, ReadingBack
        <4> QED BY <4>1 DEF LeavesTo
      <3>3. PICK v \in Seq(Seq(S)) : Leads(S, w, 0, Whole(t), [rest |-> s, values |-> v])
        BY <1>2, <2>2, <3>1, <3>2 DEF ReadLeads
      <3>4. PICK o \in Seq(Seq(S)) :
              Takes(S, x, [rest |-> s, values |-> v], [rest |-> r, values |-> o])
        BY <3>2, <3>3
      <3>5. [rest |-> s, values |-> v] \in States(S) /\ [rest |-> r, values |-> o] \in States(S)
        BY <3>2, <3>3, <3>4, StateIs
      <3>6. Leads(S, z, 0, Whole(t), [rest |-> r, values |-> o])
        BY <2>5, <3>3, <3>4, <3>5
      <3> QED BY <3>4, <3>6
    <2> QED BY <2>1, <2>6, <2>7
  <1> HIDE DEF T
  <1>3. u \in T BY <1>1, <1>2, ByAppending
  <1> QED BY <1>3 DEF T

-----------------------------------------------------------------------------
(* What a route accepts.                                                   *)

\* What a catch-all does not take.
Nothing == {<< <<>> >>, << <<>>, <<>> >>}

\* Segment i of a shape takes what stands there.
TakesAt(shape, t, i) ==
  \/ shape[i] = <<":">> /\ t[i] # <<>>
  \/ shape[i] = <<"*">> /\ SubSeq(t, i, Len(t)) \notin Nothing
  \/ ~IsSpecial(shape[i]) /\ shape[i] = t[i]

\* A shape accepts what each of its segments takes.
LEMMA AcceptsTakes ==
  ASSUME NEW P, NEW shape \in Seq(P), NEW t
  PROVE  Accepts(shape, t) <=>
           /\ Len(shape) <= Len(t)
           /\ \A i \in 1..Len(shape) : TakesAt(shape, t, i)
           /\ shape[Len(shape)] # <<"*">> => Len(shape) = Len(t)
  <1>1. DOMAIN shape = 1..Len(shape) BY LenProperties
  <1> QED BY <1>1 DEF Accepts, TakesAt, Nothing

\* What a segment takes, by its kind.
LEMMA TakesAtIs ==
  ASSUME NEW S, NEW shape \in Seq(Seq(S)), NEW t, NEW i \in 1..Len(shape),
         ShapeSegment(shape[i])
  PROVE  /\ shape[i] = <<"*">> =>
              (TakesAt(shape, t, i) <=> SubSeq(t, i, Len(t)) \notin Nothing)
         /\ shape[i] # <<"*">> => (TakesAt(shape, t, i) <=> Fits(shape[i], t[i]))
  <1> DEFINE P == Seq(S)
  <1>1. PICK q \in P : q = shape[i]
    <2>1. shape \in Seq(P) OBVIOUS
    <2> HIDE DEF P
    <2>2. shape[i] \in P BY <2>1
    <2> QED BY <2>2
  <1>2. q \in Seq(S) BY <1>1
  <1> HIDE DEF P
  <1>3. /\ q \in {<<":">>, <<"*">>} => IsSpecial(q)
        /\ q \notin {<<":">>, <<"*">>} => ~IsSpecial(q)
    <2>1. ASSUME q \in {<<":">>, <<"*">>} PROVE IsSpecial(q)
      <3>1. Head(<<":">>) = ":" /\ Head(<<"*">>) = "*" OBVIOUS
      <3> QED BY <2>1, <3>1, MarkersApart DEF IsSpecial, Markers
    <2>2. ASSUME q \notin {<<":">>, <<"*">>} PROVE ~IsSpecial(q)
      <3>1. \A j \in 1..Len(q) : q[j] \notin Markers BY <1>1, <2>2 DEF ShapeSegment
      <3>2. q # <<>> => 1 \in 1..Len(q) /\ Head(q) = q[1] BY <1>2
      <3> QED BY <3>1, <3>2 DEF IsSpecial
    <2> QED BY <2>1, <2>2
  <1>4. CASE q = <<"*">> BY <1>1, <1>3, <1>4, MarkersApart DEF TakesAt
  <1>5. CASE q = <<":">> BY <1>1, <1>3, <1>5, MarkersApart DEF TakesAt, Fits
  <1>6. CASE q \notin {<<":">>, <<"*">>} BY <1>1, <1>3, <1>6 DEF TakesAt, Fits
  <1> QED BY <1>1, <1>4, <1>5, <1>6

\* The segments f and l of a route accept s.
LEMMA AcceptsIs ==
  ASSUME NEW S, NEW f \in Seq(Seq(S)), NEW l \in Seq(S), ShapeText(f, l),
         NEW s \in Seq(Seq(S))
  PROVE  Accepts(Append(f, l), s) <=>
           /\ \A i \in 1..Len(f) : Fits(f[i], s[i])
           /\ l = <<"*">> => /\ Len(f) < Len(s)
                             /\ SubSeq(s, Len(f) + 1, Len(s)) \notin Nothing
           /\ l # <<"*">> => Len(s) = Len(f) + 1 /\ Fits(l, s[Len(f) + 1])
  <1> DEFINE P == Seq(S)
  <1>1. f \in Seq(P) /\ l \in P /\ s \in Seq(P) OBVIOUS
  <1> HIDE DEF P
  <1>2. PICK h \in Seq(P) : h = Append(f, l) BY <1>1, AppendProperties
  <1>3. Len(f) \in Nat /\ Len(s) \in Nat BY <1>1
  <1>4. PICK n \in Nat, k \in Nat : n = Len(f) /\ k = Len(s) BY <1>3
  <1>5. /\ Len(h) = n + 1 /\ h[n + 1] = l /\ \A i \in 1..n : h[i] = f[i]
    BY <1>1, <1>2, <1>4, AppendProperties
  <1>6. /\ \A i \in 1..n : ShapeSegment(h[i]) /\ h[i] # <<"*">>
        /\ ShapeSegment(h[n + 1])
    BY <1>4, <1>5 DEF ShapeText
  <1>7. /\ n + 1 \in 1..(n + 1) /\ \A i \in 1..n : i \in 1..(n + 1)
        /\ \A i \in 1..(n + 1) : i \in 1..n \/ i = n + 1
    OBVIOUS
  <1>8. h \in Seq(Seq(S)) BY <1>2 DEF P
  <1>9. \A i \in 1..n : TakesAt(h, s, i) <=> Fits(f[i], s[i])
    <2> TAKE i \in 1..n
    <2>1. i \in 1..Len(h) /\ ShapeSegment(h[i]) /\ h[i] # <<"*">> BY <1>5, <1>6, <1>7
    <2>2. TakesAt(h, s, i) <=> Fits(h[i], s[i]) BY <1>8, <2>1, TakesAtIs
    <2> QED BY <1>5, <2>2
  <1>10. /\ l = <<"*">> => (TakesAt(h, s, n + 1) <=> SubSeq(s, n + 1, k) \notin Nothing)
         /\ l # <<"*">> => (TakesAt(h, s, n + 1) <=> Fits(l, s[n + 1]))
    <2>1. n + 1 \in 1..Len(h) /\ ShapeSegment(h[n + 1]) BY <1>5, <1>6, <1>7
    <2>2. /\ h[n + 1] = <<"*">> =>
               (TakesAt(h, s, n + 1) <=> SubSeq(s, n + 1, Len(s)) \notin Nothing)
          /\ h[n + 1] # <<"*">> => (TakesAt(h, s, n + 1) <=> Fits(h[n + 1], s[n + 1]))
      BY <1>8, <2>1, TakesAtIs
    <2> QED BY <1>4, <1>5, <2>2
  <1>11. Accepts(h, s) <=> /\ n + 1 <= k
                           /\ \A i \in 1..(n + 1) : TakesAt(h, s, i)
                           /\ l # <<"*">> => n + 1 = k
    BY <1>2, <1>4, <1>5, AcceptsTakes
  <1>12. (\A i \in 1..(n + 1) : TakesAt(h, s, i)) <=>
           (\A i \in 1..n : Fits(f[i], s[i])) /\ TakesAt(h, s, n + 1)
    BY <1>7, <1>9
  <1>13. (n + 1 <= k <=> n < k) /\ (n + 1 = k => n + 1 <= k) BY <1>4
  <1> QED BY <1>2, <1>4, <1>10, <1>11, <1>12, <1>13

\* A text leads to the values v of the target t, taking all of it.
LeadsAll(S, u, t, v) == Leads(S, u, 0, Whole(t), [rest |-> <<>>, values |-> v])

\* What a text without a catch-all takes of a whole target.
LEMMA PlainAccepts ==
  ASSUME NEW S, NEW t \in Seq(S), NEW u \in Seq(S),
         NEW f \in Seq(Seq(S)), NEW l \in Seq(S), Cut(u, f, l), ShapeText(f, l),
         l # <<"*">>
  PROVE  /\ \A v \in Seq(Seq(S)) : LeadsAll(S, u, t, v) =>
              /\ Accepts(Segments(u), Segments(t))
              /\ ValuesOf(v) = Values(Segments(u), Segments(t))
         /\ Accepts(Segments(u), Segments(t)) =>
              \E v \in Seq(Seq(S)) : LeadsAll(S, u, t, v)
  <1>1. LeadsGives(S, t, u) /\ ReadLeads(S, t, u) BY TextReads
  <1>2. <<>> \in Seq(S) BY NoneOrOne
  <1>3. PICK g \in Seq(Seq(S)), m \in Seq(S) : Cut(t, g, m) BY CutExists
  <1>41. g \in Seq(Seq(S)) /\ m \in Seq(S) BY <1>3
  <1>42. Append(g, m) \in Seq(Seq(S)) BY <1>41, AppendTypes
  <1>4. PICK s \in Seq(Seq(S)) : s = Append(g, m) BY <1>42
  <1>5. Segments(t) = s /\ Segments(u) = Append(f, l) BY <1>3, <1>4 DEF Cut
  <1>6. Len(s) = Len(g) + 1 /\ s[Len(g) + 1] = m /\ \A i \in 1..Len(g) : s[i] = g[i]
    <2> DEFINE P == Seq(S)
    <2>1. g \in Seq(P) /\ m \in P BY <1>3
    <2> HIDE DEF P
    <2> QED BY <1>4, <2>1, AppendProperties
  <1>7. Accepts(Append(f, l), s) <=> Agrees(f, g) /\ Fits(l, m)
    <2>1. Accepts(Append(f, l), s) <=>
            /\ \A i \in 1..Len(f) : Fits(f[i], s[i])
            /\ l = <<"*">> => /\ Len(f) < Len(s)
                              /\ SubSeq(s, Len(f) + 1, Len(s)) \notin Nothing
            /\ l # <<"*">> => Len(s) = Len(f) + 1 /\ Fits(l, s[Len(f) + 1])
      BY AcceptsIs
    <2>2. Len(f) \in Nat /\ Len(g) \in Nat
      <3> DEFINE P == Seq(S)
      <3>1. f \in Seq(P) /\ g \in Seq(P) BY <1>3
      <3> HIDE DEF P
      <3> QED BY <3>1
    <2>3. PICK n \in Nat, k \in Nat : n = Len(f) /\ k = Len(g) BY <2>2
    <2>4. Len(s) = n + 1 <=> n = k BY <1>6, <2>3
    <2>5. CASE n = k
      <3>1. \A i \in 1..n : Fits(f[i], s[i]) <=> Fits(f[i], g[i]) BY <1>6, <2>3, <2>5
      <3>2. s[n + 1] = m BY <1>6, <2>3, <2>5
      <3> QED BY <2>1, <2>3, <2>4, <2>5, <3>1, <3>2 DEF Agrees
    <2>6. CASE n # k BY <2>1, <2>3, <2>4, <2>6 DEF Agrees
    <2> QED BY <2>5, <2>6
  <1>8. ASSUME NEW v \in Seq(Seq(S)), LeadsAll(S, u, t, v)
        PROVE  Accepts(Append(f, l), s) /\ ValuesOf(v) = Values(Append(f, l), s)
    <2>1. PICK b \in States(S) : b = [rest |-> <<>>, values |-> v] BY <1>2, StateIs
    <2>2. b.rest = <<>> /\ b.values = v BY <2>1
    <2>3. Gives(S, t, b, f, l) BY <1>1, <1>8, <2>1 DEF LeadsGives, LeadsAll
    <2>4. PICK h \in Seq(Seq(S)), k \in Seq(S) :
            /\ Reading(S, t, <<>>, f, l, h, k)
            /\ ValuesOf(v) = Values(Append(f, l), Append(h, k))
      BY <2>2, <2>3 DEF Gives
    <2>5. PICK w \in Seq(S) : Joins(t, w, <<>>) /\ Cut(w, h, k) BY <2>4 DEF Reading
    <2>6. t = w BY <2>5, ConcatEmptySeq DEF Joins
    <2>7. h = g /\ k = m BY <1>3, <2>4, <2>5, <2>6, CutUnique
    <2>8. Agrees(f, g) /\ Fits(l, m) BY <2>4, <2>7 DEF Reading
    <2> QED BY <1>4, <1>7, <2>4, <2>7, <2>8
  <1>9. ASSUME Accepts(Append(f, l), s)
        PROVE  \E v \in Seq(Seq(S)) : LeadsAll(S, u, t, v)
    <2>1. t \o <<>> = t BY ConcatEmptySeq
    <2>2. Joins(t, t, <<>>) BY <2>1 DEF Joins
    <2>3. Reading(S, t, <<>>, f, l, g, m) BY <1>3, <1>7, <1>9, <2>2 DEF Reading
    <2> QED BY <1>1, <1>2, <1>3, <2>3 DEF ReadLeads, LeadsAll
  <1> QED BY <1>5, <1>8, <1>9

\* A text with a catch-all at its end.
LEMMA CatchAllEnds ==
  ASSUME NEW S, NEW u \in Seq(S), NEW f \in Seq(Seq(S)), NEW l \in Seq(S), Cut(u, f, l),
         ShapeText(f, l), l = <<"*">>
  PROVE  \E w \in Seq(S) : /\ "*" \in S /\ u = Append(w, "*") /\ Cut(w, f, <<>>)
                           /\ ShapeText(f, <<>>)
  <1>1. l # <<>> BY MarkersApart
  <1>2. EndsWithText(S, u, f, l) BY <1>1, CutEnds
  <1>3. PICK w \in Seq(S), x \in S, k \in Seq(S) :
          u = Append(w, x) /\ l = Append(k, x) /\ Cut(w, f, k)
    BY <1>2 DEF EndsWithText
  <1>4. k = <<>> /\ x = "*"
    <2>1. Len(l) = 1 /\ l[1] = "*" OBVIOUS
    <2>5. Len(Append(k, x)) = Len(k) + 1 /\ Append(k, x)[Len(k) + 1] = x
      BY AppendProperties
    <2>2. Len(l) = Len(k) + 1 /\ l[Len(k) + 1] = x BY <1>3, <2>5
    <2>3. Len(k) \in Nat /\ Len(k) + 1 = 1 BY <2>1, <2>2
    <2>4. Len(k) = 0 BY <2>3
    <2> QED BY <2>1, <2>2, <2>4
  <1>5. ShapeText(f, <<>>) BY DEF ShapeText, ShapeSegment
  <1> QED BY <1>3, <1>4, <1>5

\* A text whose segments are those of nothing or of a slash is one of these.
LEMMA NothingIs ==
  ASSUME NEW S, "/" \in S, NEW r \in Seq(S)
  PROVE  Segments(r) \in Nothing <=> r \in {<<>>, <<"/">>}
  <1>1. /\ <<>> \in Seq(S) /\ <<"/">> \in Seq(S) /\ <<>> \in Seq(Seq(S))
        /\ << <<>> >> \in Seq(Seq(S))
    BY NoneOrOne
  <1>2. Cut(<<>>, <<>>, <<>>) BY CutEmpty
  <1>3. Cut(<<"/">>, << <<>> >>, <<>>)
    <2>1. Append(<<>>, "/") = <<"/">> /\ Append(<<>>, <<>>) = << <<>> >> OBVIOUS
    <2>2. Cut(Append(<<>>, "/"), Append(<<>>, <<>>), <<>>) BY <1>1, <1>2, CutGrows
    <2> QED BY <2>1, <2>2
  <1>4. /\ Append(<<>>, <<>>) = << <<>> >>
        /\ Append(<< <<>> >>, <<>>) = << <<>>, <<>> >>
    <2>1. ASSUME NEW P, NEW x \in P, NEW y \in P PROVE Append(<<x>>, y) = <<x, y>>
      <3>1. <<x>> \in Seq(P) /\ Len(<<x>>) = 1 /\ <<x>>[1] = x OBVIOUS
      <3>2. <<x, y>> \in Seq(P) /\ Len(<<x, y>>) = 2 /\ <<x, y>>[1] = x /\ <<x, y>>[2] = y
        OBVIOUS
      <3>3. PICK a \in Seq(P), b \in Seq(P) : a = Append(<<x>>, y) /\ b = <<x, y>>
        BY <3>1, <3>2, AppendProperties
      <3>4. Len(a) = 2 /\ a[1] = x /\ a[2] = y
        <4>1. PICK c \in Seq(P) : c = <<x>> BY <3>1
        <4>2. /\ Len(Append(c, y)) = Len(c) + 1 /\ Append(c, y)[Len(c) + 1] = y
              /\ \A i \in 1..Len(c) : Append(c, y)[i] = c[i]
          BY AppendProperties
        <4>3. Len(c) = 1 /\ c[1] = x /\ 1 \in 1..1 /\ 1 + 1 = 2 BY <3>1, <4>1
        <4> QED BY <3>3, <4>1, <4>2, <4>3
      <3>5. \A i \in 1..2 : i = 1 \/ i = 2 OBVIOUS
      <3>6. \A i \in 1..Len(a) : a[i] = b[i] BY <3>2, <3>3, <3>4, <3>5
      <3> QED BY <3>2, <3>3, <3>4, <3>6, SeqEqual
    <2>2. Append(<<>>, <<>>) = << <<>> >> OBVIOUS
    <2>3. <<>> \in {<<>>} OBVIOUS
    <2> QED BY <2>1, <2>2, <2>3
  <1>5. Segments(<<>>) = << <<>> >> /\ Segments(<<"/">>) = << <<>>, <<>> >>
    BY <1>2, <1>3, <1>4 DEF Cut
  <1>6. ASSUME Segments(r) = << <<>> >> PROVE r = <<>>
    <2>1. Cut(r, <<>>, <<>>) BY <1>4, <1>6 DEF Cut
    <2> QED BY <1>1, <1>2, <2>1, CutInjective
  <1>7. ASSUME Segments(r) = << <<>>, <<>> >> PROVE r = <<"/">>
    <2>1. PICK a \in Seq(Seq(S)) : a = << <<>> >> BY <1>1
    <2>2. Cut(r, a, <<>>) BY <1>4, <1>7, <2>1 DEF Cut
    <2>3. Cut(<<"/">>, a, <<>>) BY <1>3, <2>1
    <2> QED BY <1>1, <2>1, <2>2, <2>3, CutInjective
  <1> QED BY <1>5, <1>6, <1>7 DEF Nothing

\* What stands in a joined sequence, and what was joined.
LEMMA JoinsAt ==
  ASSUME NEW P, NEW s, NEW g \in Seq(P), NEW p \in Seq(P), Joins(s, g, p)
  PROVE  /\ s \in Seq(P) /\ Len(s) = Len(g) + Len(p)
         /\ \A i \in 1..Len(g) : s[i] = g[i]
         /\ SubSeq(s, Len(g) + 1, Len(s)) = p
  <1>1. s = g \o p BY DEF Joins
  <1>2. /\ g \o p \in Seq(P) /\ Len(g \o p) = Len(g) + Len(p)
        /\ \A i \in 1..Len(g) : (g \o p)[i] = g[i]
    BY JoinedAt
  <1>3. SubSeq(g \o p, Len(g) + 1, Len(g \o p)) = p BY BehindIs
  <1> QED BY <1>1, <1>2, <1>3

\* The segments of what stands behind a slash stand behind those in front of it.
LEMMA SegmentsPut ==
  ASSUME NEW S, NEW t, NEW w \in Seq(S), NEW g \in Seq(Seq(S)), Cut(w, g, <<>>),
         NEW r \in Seq(S), Joins(t, w, r)
  PROVE  Joins(Segments(t), g, Segments(r))
  <1>1. PICK e \in Seq(Seq(S)), n \in Seq(S) : Cut(r, e, n) BY CutExists
  <1>2. Cut(w \o r, g \o e, n) BY <1>1, CutPut
  <1>3. Segments(t) = Append(g \o e, n) BY <1>2 DEF Joins, Cut
  <1>4. Segments(r) = Append(e, n) BY <1>1 DEF Cut
  <1>5. g \o Append(e, n) = Append(g \o e, n)
    <2> DEFINE P == Seq(S)
    <2>1. g \in Seq(P) /\ e \in Seq(P) /\ n \in P BY <1>1
    <2> HIDE DEF P
    <2> QED BY <2>1, ConcatAppend
  <1> QED BY <1>3, <1>4, <1>5 DEF Joins

\* A text parted where its segments are.
PartsAt(S, t, g, p) ==
  \E w \in Seq(S), r \in Seq(S) : Joins(t, w, r) /\ Cut(w, g, <<>>) /\ Segments(r) = p

\* Where segments are parted the text can be.
LEMMA SegmentsParted ==
  ASSUME NEW S, NEW t \in Seq(S), NEW g \in Seq(Seq(S)), NEW p \in Seq(Seq(S)),
         p # <<>>, Joins(Segments(t), g, p)
  PROVE  PartsAt(S, t, g, p)
  <1>1. PICK e \in Seq(Seq(S)), n \in Seq(S) : p = Append(e, n)
    <2> DEFINE P == Seq(S)
    <2>1. p \in Seq(P) OBVIOUS
    <2> HIDE DEF P
    <2>2. \E e \in Seq(P), n \in P : p = Append(e, n) BY <2>1, SequenceEmptyOrAppend
    <2> QED BY <2>2 DEF P
  <1>2. PICK a \in Seq(Seq(S)) : a = g \o e
    <2> DEFINE P == Seq(S)
    <2>1. g \in Seq(P) /\ e \in Seq(P) BY <1>1
    <2> HIDE DEF P
    <2>2. g \o e \in Seq(P) BY <2>1, ConcatProperties
    <2> QED BY <2>2 DEF P
  <1>3. Cut(t, a, n)
    <2>1. e \in Seq(Seq(S)) /\ n \in Seq(S) BY <1>1
    <2>2. g \o Append(e, n) = Append(g \o e, n)
      BY <2>1, SegmentsAppend, SMTT(30)
    <2>3. Segments(t) = g \o p BY DEF Joins
    <2> QED BY <1>1, <1>2, <2>2, <2>3 DEF Cut
  <1>4. Parted(S, t, g, e, n)
    <2>1. Joins(a, g, e) BY <1>2 DEF Joins
    <2>2. e \in Seq(Seq(S)) /\ n \in Seq(S) BY <1>1
    <2> QED BY <1>3, <2>1, <2>2, CutParted
  <1>5. PICK w \in Seq(S), r \in Seq(S) : t = w \o r /\ Cut(w, g, <<>>) /\ Cut(r, e, n)
    BY <1>4 DEF Parted
  <1>6. Joins(t, w, r) BY <1>5 DEF Joins
  <1>7. Segments(r) = p BY <1>1, <1>5 DEF Cut
  <1> QED BY <1>5, <1>6, <1>7 DEF PartsAt

\* What a text with a catch-all takes of a whole target.
LEMMA CatchAllAccepts ==
  ASSUME NEW S, "/" \in S, NEW t \in Seq(S), NEW u \in Seq(S),
         NEW f \in Seq(Seq(S)), NEW l \in Seq(S), Cut(u, f, l), ShapeText(f, l),
         l = <<"*">>
  PROVE  /\ \A v \in Seq(Seq(S)) : LeadsAll(S, u, t, v) =>
              /\ Accepts(Segments(u), Segments(t))
              /\ ValuesOf(v) = Values(Segments(u), Segments(t))
         /\ Accepts(Segments(u), Segments(t)) =>
              \E v \in Seq(Seq(S)) : LeadsAll(S, u, t, v)
  <1>1. PICK w \in Seq(S) : /\ "*" \in S /\ u = Append(w, "*") /\ Cut(w, f, <<>>)
                            /\ ShapeText(f, <<>>)
    BY CatchAllEnds
  <1>2. LeadsGives(S, t, w) /\ ReadLeads(S, t, w) BY <1>1, TextReads
  <1>3. <<>> \in Seq(S) /\ <<>> # <<"*">> BY NoneOrOne, MarkersApart
  <1>4. PICK s \in Seq(Seq(S)) : s = Segments(t) /\ s # <<>> BY SegmentsType
  <1>5. Segments(u) = Append(f, l) BY DEF Cut
  <1>6. Len(f) \in Nat /\ \A g \in Seq(Seq(S)) : Len(g) \in Nat
    <2> DEFINE P == Seq(S)
    <2>1. f \in Seq(P) OBVIOUS
    <2> HIDE DEF P
    <2>2. Len(f) \in Nat /\ \A g \in Seq(P) : Len(g) \in Nat BY <2>1
    <2> QED BY <2>2 DEF P
  <1>7. \A b \in States(S) :
          Leads(S, u, 0, Whole(t), b) <=>
            \E c \in States(S) : Leads(S, w, 0, Whole(t), c) /\ Takes(S, "*", c, b)
    <2>1. Whole(t) \in States(S) BY <1>3, NoneOrOne, StateIs DEF Whole
    <2>2. 0 \in 0..Len(w) OBVIOUS
    <2> QED BY <1>1, <2>1, <2>2, LeadsLast
  <1>8. Accepts(Append(f, l), s) <=>
          /\ \A i \in 1..Len(f) : Fits(f[i], s[i])
          /\ Len(f) < Len(s)
          /\ SubSeq(s, Len(f) + 1, Len(s)) \notin Nothing
    <2>1. Accepts(Append(f, l), s) <=>
            /\ \A i \in 1..Len(f) : Fits(f[i], s[i])
            /\ l = <<"*">> => /\ Len(f) < Len(s)
                              /\ SubSeq(s, Len(f) + 1, Len(s)) \notin Nothing
            /\ l # <<"*">> => Len(s) = Len(f) + 1 /\ Fits(l, s[Len(f) + 1])
      BY AcceptsIs
    <2> QED BY <2>1
  <1>9. ASSUME NEW v \in Seq(Seq(S)), LeadsAll(S, u, t, v)
        PROVE  Accepts(Append(f, l), s) /\ ValuesOf(v) = Values(Append(f, l), s)
    <2>1. [rest |-> <<>>, values |-> v] \in States(S) BY <1>3, StateIs
    <2>2. PICK c \in States(S) :
            Leads(S, w, 0, Whole(t), c) /\ Takes(S, "*", c, [rest |-> <<>>, values |-> v])
      BY <1>7, <1>9, <2>1 DEF LeadsAll
    <2>3. PICK r \in Seq(S), y \in Seq(Seq(S)) : r = c.rest /\ y = c.values BY StateIs
    <2>4. r \notin {<<>>, <<"/">>} /\ v = Append(y, r) BY <2>2, <2>3 DEF Takes
    <2>5. Gives(S, t, c, f, <<>>) BY <1>1, <1>2, <1>3, <2>2 DEF LeadsGives
    <2>6. PICK g \in Seq(Seq(S)), m \in Seq(S) :
            /\ Reading(S, t, r, f, <<>>, g, m)
            /\ ValuesOf(y) = Values(Append(f, <<>>), Append(g, m))
      BY <2>3, <2>5 DEF Gives
    <2>7. m = <<>> /\ Agrees(f, g) BY <2>6, MarkersApart DEF Reading
    <2>8. PICK z \in Seq(S) : Joins(t, z, r) /\ Cut(z, g, <<>>)
      BY <2>6, <2>7 DEF Reading
    <2>9. PICK p \in Seq(Seq(S)) : p = Segments(r) /\ p # <<>> BY SegmentsType
    <2>10. Joins(s, g, p) BY <1>4, <2>8, <2>9, SegmentsPut
    <2>11. /\ Len(s) = Len(g) + Len(p) /\ \A i \in 1..Len(g) : s[i] = g[i]
           /\ SubSeq(s, Len(g) + 1, Len(s)) = p
      <3> DEFINE P == Seq(S)
      <3>1. g \in Seq(P) /\ p \in Seq(P) BY <2>6, <2>9
      <3> HIDE DEF P
      <3> QED BY <2>10, <3>1, JoinsAt
    <2>12. Len(f) = Len(g) /\ \A i \in 1..Len(f) : Fits(f[i], g[i]) BY <2>7 DEF Agrees
    <2>13. Len(f) < Len(s)
      <3>1. Len(p) \in Nat /\ Len(p) # 0
        <4> DEFINE P == Seq(S)
        <4>1. p \in Seq(P) /\ p # <<>> BY <2>9
        <4> HIDE DEF P
        <4> QED BY <4>1
      <3>2. Len(s) = Len(f) + Len(p) BY <2>11, <2>12
      <3> QED BY <1>6, <3>1, <3>2
    <2>14. SubSeq(s, Len(f) + 1, Len(s)) = p BY <2>11, <2>12
    <2>15. p \notin Nothing BY <2>4, <2>9, NothingIs
    <2>16. Accepts(Append(f, l), s) BY <1>8, <2>11, <2>12, <2>13, <2>14, <2>15
    <2>17. TakeAlike(f, g, s) BY <1>1, <2>11, <2>12 DEF TakeAlike, ShapeText
    <2>18. Values(Append(f, l), s) = Append(Values(f, g), p)
      <3> DEFINE P == Seq(S)
      <3>1. f \in Seq(P) /\ l \in P OBVIOUS
      <3> HIDE DEF P
      <3>2. Values(Append(f, l), s) = Append(Values(f, g), SubSeq(s, Len(f) + 1, Len(s)))
        BY <2>17, <3>1, ValuesGrow
      <3> QED BY <2>14, <3>2
    <2>19. Values(Append(f, <<>>), Append(g, <<>>)) = Values(f, g)
      <3>1. OneEach(f, g) BY <2>12 DEF OneEach, ShapeText
      <3>2. PICK e \in Seq(S) : e = <<>> BY <1>3
      <3>3. e # <<":">> /\ e # <<"*">> BY <3>2, MarkersApart
      <3>4. Values(Append(f, e), Append(g, e)) = Values(f, g)
        BY <3>1, <3>3, ValuesLiteral
      <3> QED BY <3>2, <3>4
    <2>20. ValuesOf(Append(y, r)) = Append(ValuesOf(y), Segments(r)) BY ValuesOfGrows
    <2> QED BY <2>4, <2>6, <2>7, <2>9, <2>16, <2>18, <2>19, <2>20
  <1>10. ASSUME Accepts(Append(f, l), s)
         PROVE  \E v \in Seq(Seq(S)) : LeadsAll(S, u, t, v)
    <2>1. /\ \A i \in 1..Len(f) : Fits(f[i], s[i])
          /\ Len(f) < Len(s)
          /\ SubSeq(s, Len(f) + 1, Len(s)) \notin Nothing
      BY <1>8, <1>10
    <2>2. PICK g \in Seq(Seq(S)), p \in Seq(Seq(S)) :
            /\ Joins(s, g, p) /\ Len(g) = Len(f)
            /\ SubSeq(s, Len(f) + 1, Len(s)) = p
      <3> DEFINE P == Seq(S)
      <3>1. s \in Seq(P) /\ Len(s) \in Nat BY <1>6
      <3> HIDE DEF P
      <3>2. Len(f) \in 0..Len(s) BY <1>6, <2>1, <3>1
      <3>3. SplitsAt(P, s, Len(f)) BY <3>1, <3>2, PartedAt
      <3> QED BY <3>3 DEF P, SplitsAt
    <2>3. g \in Seq(Seq(S)) /\ p \in Seq(Seq(S)) BY <2>2
    <2>4. Len(s) = Len(g) + Len(p) /\ \A i \in 1..Len(g) : s[i] = g[i]
      <3>1. Joins(s, g, p) BY <2>2
      <3> QED BY <2>3, <3>1, JoinsAt
    <2>5. p # <<>>
      <3>1. Len(p) # 0 BY <1>6, <2>1, <2>2, <2>3, <2>4
      <3> QED BY <3>1
    <2>6. PartsAt(S, t, g, p)
      <3>1. Joins(Segments(t), g, p) BY <1>4, <2>2
      <3> QED BY <2>3, <2>5, <3>1, SegmentsParted
    <2>7. PICK z \in Seq(S), r \in Seq(S) :
            Joins(t, z, r) /\ Cut(z, g, <<>>) /\ Segments(r) = p
      BY <2>6 DEF PartsAt
    <2>8. r \notin {<<>>, <<"/">>}
      <3>1. Segments(r) \notin Nothing BY <2>1, <2>2, <2>7
      <3> QED BY <2>7, <3>1, NothingIs
    <2>9. Agrees(f, g) BY <2>1, <2>2, <2>4 DEF Agrees
    <2>10. Reading(S, t, r, f, <<>>, g, <<>>) BY <2>7, <2>9, MarkersApart DEF Reading
    <2>11. PICK v \in Seq(Seq(S)) : Leads(S, w, 0, Whole(t), [rest |-> r, values |-> v])
      BY <1>1, <1>2, <1>3, <2>3, <2>7, <2>10 DEF ReadLeads
    <2>12. Append(v, r) \in Seq(Seq(S)) BY <2>7, <2>11, AppendTypes
    <2>13. Takes(S, "*", [rest |-> r, values |-> v],
                         [rest |-> <<>>, values |-> Append(v, r)])
      BY <2>8 DEF Takes
    <2>14. /\ [rest |-> r, values |-> v] \in States(S)
           /\ [rest |-> <<>>, values |-> Append(v, r)] \in States(S)
      BY <1>3, <2>7, <2>11, <2>12, StateIs
    <2>15. LeadsAll(S, u, t, Append(v, r)) BY <1>7, <2>11, <2>13, <2>14 DEF LeadsAll
    <2> QED BY <2>12, <2>15
  <1> QED BY <1>4, <1>5, <1>9, <1>10

-----------------------------------------------------------------------------
(* Which of two texts goes first.                                          *)

\* A parameter goes behind literal text and a catch-all behind a parameter.
SymbolRank(x) == CASE x = ":" -> 1 [] x = "*" -> 2 [] OTHER -> 0

\* At the first symbol that tells them apart, u goes before v.
Before(u, v) ==
  \E k \in 1..Len(u) :
    /\ k <= Len(v) /\ SymbolRank(u[k]) < SymbolRank(v[k])
    /\ \A j \in 1..(k - 1) : u[j] = v[j]

\* The segments z begin with f, and the next one of them with l.
BeginsWith(z, f, l) ==
  /\ Len(f) < Len(z) /\ \A i \in 1..Len(f) : z[i] = f[i]
  /\ Len(l) <= Len(z[Len(f) + 1]) /\ \A i \in 1..Len(l) : z[Len(f) + 1][i] = l[i]

\* What was cut of a text stays cut when more comes behind it.
LEMMA CutBegins ==
  ASSUME NEW S, NEW p \in Seq(S), NEW f \in Seq(Seq(S)), NEW l \in Seq(S), Cut(p, f, l),
         NEW r \in Seq(S), NEW s, Joins(s, p, r)
  PROVE  BeginsWith(Segments(s), f, l)
  <1> DEFINE P == Seq(S)
             T == {q \in Seq(S) : BeginsWith(Segments(p \o q), f, l)}
  <1>0. f \in Seq(P) /\ l \in P OBVIOUS
  <1>1. <<>> \in T
    <2>1. p \o <<>> = p /\ <<>> \in Seq(S) BY ConcatEmptySeq, EmptySeq
    <2>2. PICK z : z = Append(f, l) OBVIOUS
    <2>3. Segments(p) = z BY <2>2 DEF Cut
    <2>4. BeginsWith(z, f, l)
      <3> HIDE DEF P
      <3>1. Len(f) \in Nat /\ Len(l) \in Nat BY <1>0
      <3>2. Len(z) = Len(f) + 1 /\ z[Len(f) + 1] = l /\ \A i \in 1..Len(f) : z[i] = f[i]
        BY <1>0, <2>2, AppendProperties
      <3>3. Len(f) < Len(f) + 1 /\ Len(l) <= Len(l) BY <3>1
      <3> QED BY <3>2, <3>3 DEF BeginsWith
    <2> QED BY <2>1, <2>3, <2>4
  <1>2. ASSUME NEW q \in Seq(S), NEW x \in S, q \in T PROVE Append(q, x) \in T
    <2>1. Append(q, x) \in Seq(S) /\ p \o q \in Seq(S) BY AppendProperties, ConcatProperties
    <2>2. p \o Append(q, x) = Append(p \o q, x) BY ConcatAppend
    <2>3. PICK e \in Seq(Seq(S)), n \in Seq(S) : Cut(p \o q, e, n) BY <2>1, CutExists
    <2>4. PICK z : z = Append(e, n) OBVIOUS
    <2>5. BeginsWith(z, f, l) BY <1>2, <2>3, <2>4 DEF Cut
    <2>6. e \in Seq(P) /\ n \in P BY <2>3
    <2>7. /\ x = "/" => Segments(p \o Append(q, x)) = Append(z, <<>>)
          /\ x # "/" => Segments(p \o Append(q, x)) = Append(e, Append(n, x))
      <3>1. PICK y \in Seq(S) : y = p \o q BY <2>1
      <3>2. Cut(y, e, n) /\ e \in Seq(Seq(S)) /\ n \in Seq(S) BY <2>3, <3>1
      <3>3. /\ x = "/" => Cut(Append(y, x), Append(e, n), <<>>)
            /\ x # "/" => Cut(Append(y, x), e, Append(n, x))
        BY <3>2, CutGrows
      <3>4. p \o Append(q, x) = Append(y, x) BY <2>2, <3>1
      <3> QED BY <2>4, <3>3, <3>4 DEF Cut
    <2> HIDE DEF P
    <2>8. PICK k \in Nat, b \in Nat : k = Len(f) /\ b = Len(e) BY <1>0, <2>6
    <2>9. z \in Seq(P) /\ Len(z) = b + 1 /\ z[b + 1] = n /\ \A i \in 1..b : z[i] = e[i]
      BY <2>4, <2>6, <2>8, AppendProperties
    <2>10. /\ k < b + 1 /\ \A i \in 1..k : z[i] = f[i]
           /\ Len(l) <= Len(z[k + 1]) /\ \A i \in 1..Len(l) : z[k + 1][i] = l[i]
      BY <2>5, <2>8, <2>9 DEF BeginsWith
    <2>11. CASE x = "/"
      <3>1. PICK y : y = Append(z, <<>>) OBVIOUS
      <3>2. <<>> \in P BY NoneOrOne DEF P
      <3>3. Len(y) = b + 2 /\ \A i \in 1..(b + 1) : y[i] = z[i]
        <4>1. /\ Len(Append(z, <<>>)) = Len(z) + 1
              /\ \A i \in 1..Len(z) : Append(z, <<>>)[i] = z[i]
          BY <2>9, <3>2, AppendProperties
        <4>2. (b + 1) + 1 = b + 2 OBVIOUS
        <4> QED BY <2>9, <3>1, <4>1, <4>2
      <3>4. k < b + 2 /\ k + 1 \in 1..(b + 1) /\ \A i \in 1..k : i \in 1..(b + 1)
        BY <2>10
      <3>5. BeginsWith(y, f, l) BY <2>8, <2>10, <3>3, <3>4 DEF BeginsWith
      <3> QED BY <2>1, <2>7, <2>11, <3>1, <3>5
    <2>12. CASE x # "/"
      <3>1. PICK m : m = Append(n, x) OBVIOUS
      <3>2. m \in P /\ Len(m) = Len(n) + 1 /\ \A i \in 1..Len(n) : m[i] = n[i]
        BY <2>6, <3>1, AppendProperties DEF P
      <3>3. PICK y : y = Append(e, m) OBVIOUS
      <3>4. Len(y) = b + 1 /\ y[b + 1] = m /\ \A i \in 1..b : y[i] = e[i]
        BY <2>6, <2>8, <3>2, <3>3, AppendProperties
      <3>5. Len(n) \in Nat /\ Len(l) \in Nat BY <1>0, <2>6 DEF P
      <3>6. \A i \in 1..k : i \in 1..b BY <2>10
      <3>7. CASE k = b
        <4>1. Len(l) <= Len(m) /\ \A i \in 1..Len(l) : m[i] = l[i]
          <5>1. Len(l) <= Len(n) /\ \A i \in 1..Len(l) : n[i] = l[i]
            BY <2>9, <2>10, <3>7
          <5>2. Len(l) <= Len(m) /\ \A i \in 1..Len(l) : i \in 1..Len(n)
            BY <3>2, <3>5, <5>1
          <5> QED BY <3>2, <5>1, <5>2
        <4>2. \A i \in 1..k : y[i] = f[i] BY <2>9, <2>10, <3>4, <3>6
        <4>3. y[k + 1] = m /\ k < Len(y) BY <2>10, <3>4, <3>7
        <4> HIDE DEF P
        <4>4. BeginsWith(y, f, l) BY <2>8, <4>1, <4>2, <4>3 DEF BeginsWith
        <4> QED BY <2>1, <2>7, <2>12, <3>1, <3>3, <4>4
      <3>8. CASE k # b
        <4>1. k + 1 \in 1..b BY <2>10, <3>8
        <4>2. y[k + 1] = z[k + 1] BY <2>9, <3>4, <4>1
        <4>3. \A i \in 1..k : y[i] = f[i] BY <2>9, <2>10, <3>4, <3>6
        <4>4. k < Len(y) BY <2>10, <3>4
        <4>5. BeginsWith(y, f, l) BY <2>8, <2>10, <4>2, <4>3, <4>4 DEF BeginsWith
        <4> QED BY <2>1, <2>7, <2>12, <3>1, <3>3, <4>5
      <3> QED BY <3>7, <3>8
    <2> QED BY <2>11, <2>12
  <1> HIDE DEF T
  <1>3. r \in T BY <1>1, <1>2, ByAppending
  <1> QED BY <1>3 DEF T, Joins

\* A segment of a shape that has a marker is that marker.
LEMMA MarkerAlone ==
  ASSUME NEW S, NEW q \in Seq(S), ShapeSegment(q), NEW i \in 1..Len(q), q[i] \in Markers
  PROVE  i = 1 /\ Len(q) = 1 /\ q = <<q[i]>>
  <1>1. q \in {<<":">>, <<"*">>} BY DEF ShapeSegment
  <1>2. \A x : Len(<<x>>) = 1 /\ <<x>>[1] = x OBVIOUS
  <1>3. Len(q) = 1 BY <1>1, <1>2
  <1>4. i = 1 BY <1>3
  <1>5. q = <<q[1]>> BY <1>1, <1>2
  <1> QED BY <1>3, <1>4, <1>5

\* A text up to its symbol k, and what stands behind that.
LEMMA PartedBehind ==
  ASSUME NEW S, NEW u \in Seq(S), NEW k \in 1..Len(u)
  PROVE  \E p \in Seq(S), r \in Seq(S) :
           /\ Len(p) = k - 1 /\ \A i \in 1..(k - 1) : p[i] = u[i]
           /\ Joins(u, Append(p, u[k]), r)
  <1>1. Len(u) \in Nat /\ k \in 0..Len(u) /\ k \in Nat /\ u[k] \in S OBVIOUS
  <1>2. SplitsAt(S, u, k) BY <1>1, PartedAt
  <1>3. PICK q \in Seq(S), r \in Seq(S) : Joins(u, q, r) /\ Len(q) = k
    BY <1>2 DEF SplitsAt
  <1>4. q # <<>> BY <1>1, <1>3
  <1>5. PICK p \in Seq(S), x \in S : q = Append(p, x)
    BY <1>3, <1>4, SequenceEmptyOrAppend
  <1>6. Len(q) = Len(p) + 1 /\ q[Len(p) + 1] = x /\ \A i \in 1..Len(p) : q[i] = p[i]
    BY <1>5, AppendProperties
  <1>7. Len(p) \in Nat /\ Len(p) = k - 1 BY <1>1, <1>3, <1>6
  <1>8. \A i \in 1..k : u[i] = q[i]
    <2>1. \A i \in 1..Len(q) : u[i] = q[i] BY <1>3, JoinsAt
    <2> QED BY <1>3, <2>1
  <1>9. \A i \in 1..(k - 1) : i \in 1..k BY <1>1
  <1>10. (k - 1) + 1 = k /\ k \in 1..k BY <1>1
  <1>11. x = u[k] /\ \A i \in 1..(k - 1) : p[i] = u[i]
    BY <1>6, <1>7, <1>8, <1>9, <1>10
  <1> QED BY <1>3, <1>5, <1>7, <1>11

\* A segment of a shape that begins with a slash, which is none, or otherwise.
LEMMA RankOfFirst ==
  ASSUME NEW S, NEW q \in Seq(S), ShapeSegment(q), NEW x \in S
  PROVE  /\ q = <<>> => Rank(q) = 0
         /\ q # <<>> /\ q[1] = x => Rank(q) = SymbolRank(x)
         /\ SymbolRank(x) # 0 <=> x \in Markers
  <1>1. \A z : Len(<<z>>) = 1 /\ <<z>>[1] = z OBVIOUS
  <1>2. q = <<>> => Rank(q) = 0 BY MarkersApart DEF Rank
  <1>3. SymbolRank(x) # 0 <=> x \in Markers BY DEF SymbolRank, Markers
  <1>4. ASSUME q # <<>>, q[1] = x PROVE Rank(q) = SymbolRank(x)
    <2>1. 1 \in 1..Len(q) BY <1>4
    <2>2. CASE q = <<":">> BY <1>1, <1>4, <2>2 DEF Rank, SymbolRank
    <2>3. CASE q = <<"*">> BY <1>1, <1>4, <2>3, MarkersApart DEF Rank, SymbolRank
    <2>4. CASE q \notin {<<":">>, <<"*">>}
      <3>1. x \notin Markers BY <1>4, <2>1, <2>4 DEF ShapeSegment
      <3>2. SymbolRank(x) = 0 BY <1>3, <3>1
      <3> QED BY <2>4, <3>2 DEF Rank
    <2> QED BY <2>2, <2>3, <2>4
  <1> QED BY <1>2, <1>3, <1>4

\* A text and one that goes behind it part at a segment, where the one has a
\* marker and the other has not, or has a parameter for a catch-all.
LEMMA BeforeSpecific ==
  ASSUME NEW S, NEW u \in Seq(S), NEW v \in Seq(S), Before(u, v),
         \A i \in DOMAIN Segments(u) : ShapeSegment(Segments(u)[i]),
         \A i \in DOMAIN Segments(v) : ShapeSegment(Segments(v)[i])
  PROVE  MoreSpecific(Segments(u), Segments(v))
  <1> DEFINE P == Seq(S)
  <1>1. PICK k \in 1..Len(u) :
          /\ k <= Len(v) /\ SymbolRank(u[k]) < SymbolRank(v[k])
          /\ \A j \in 1..(k - 1) : u[j] = v[j]
    BY DEF Before
  <1>2. Len(u) \in Nat /\ Len(v) \in Nat OBVIOUS
  <1>3. k \in 1..Len(v) /\ k \in Nat BY <1>1, <1>2
  <1>4. PICK x \in S, y \in S : x = u[k] /\ y = v[k] BY <1>3
  <1>5. PICK p \in Seq(S), r \in Seq(S) :
          /\ Len(p) = k - 1 /\ \A i \in 1..(k - 1) : p[i] = u[i]
          /\ Joins(u, Append(p, x), r)
    BY <1>4, PartedBehind
  <1>6. PICK q \in Seq(S), s \in Seq(S) :
          /\ Len(q) = k - 1 /\ \A i \in 1..(k - 1) : q[i] = v[i]
          /\ Joins(v, Append(q, y), s)
    BY <1>3, <1>4, PartedBehind
  <1>7. p = q
    <2>1. \A i \in 1..Len(p) : p[i] = q[i] BY <1>1, <1>5, <1>6
    <2> QED BY <1>5, <1>6, <2>1, SeqEqual
  <1>8. PICK f \in Seq(Seq(S)), l \in Seq(S) : Cut(p, f, l) BY <1>5, CutExists
  <1>9. Append(p, x) \in Seq(S) /\ Append(p, y) \in Seq(S) /\ Append(f, l) \in Seq(Seq(S))
        /\ Append(l, x) \in Seq(S) /\ Append(l, y) \in Seq(S) /\ <<>> \in Seq(S)
    BY <1>4, <1>5, <1>8, AppendTypes, NoneOrOne
  <1>10. PICK a \in Seq(Seq(S)), b \in Seq(Seq(S)) : a = Segments(u) /\ b = Segments(v)
    BY SegmentsType
  <1>11. y \in Markers /\ y # "/"
    <2>1. SymbolRank(x) \in Nat /\ SymbolRank(y) \in Nat BY DEF SymbolRank
    <2>2. SymbolRank(y) # 0 BY <1>1, <1>4, <2>1
    <2>3. y \in Markers BY <2>2 DEF SymbolRank, Markers
    <2> QED BY <2>3 DEF Markers
  <1>12. BeginsWith(b, f, Append(l, y))
    <2>1. Cut(Append(p, y), f, Append(l, y)) BY <1>8, <1>11, CutGrows
    <2>2. Joins(v, Append(p, y), s) BY <1>6, <1>7
    <2> QED BY <1>9, <1>10, <2>1, <2>2, CutBegins
  <1>15. PICK n \in Nat : n = Len(f)
    <2>1. f \in Seq(P) BY <1>8
    <2> HIDE DEF P
    <2>2. Len(f) \in Nat BY <2>1
    <2> QED BY <2>2
  <1>16. n + 1 \in 1..Len(b) /\ Len(b) \in Nat /\ \A i \in 1..n : b[i] = f[i]
    <2>1. b \in Seq(P) BY <1>10
    <2> HIDE DEF P
    <2>2. Len(b) \in Nat BY <2>1
    <2>3. n < Len(b) /\ \A i \in 1..n : b[i] = f[i] BY <1>12, <1>15 DEF BeginsWith
    <2>4. n + 1 \in 1..Len(b) BY <2>2, <2>3
    <2> QED BY <2>2, <2>3, <2>4
  <1>17. PICK e \in P : e = b[n + 1] /\ ShapeSegment(e)
    <2>1. b \in Seq(P) /\ DOMAIN b = 1..Len(b) BY <1>10
    <2> HIDE DEF P
    <2>2. b[n + 1] \in P BY <1>16, <2>1
    <2>3. ShapeSegment(b[n + 1]) BY <1>10, <1>16, <2>1
    <2> QED BY <2>2, <2>3
  <1>18. l = <<>> /\ e # <<>> /\ e[1] = y
    <2>1. /\ Len(Append(l, y)) <= Len(e)
          /\ \A i \in 1..Len(Append(l, y)) : e[i] = Append(l, y)[i]
      BY <1>12, <1>15, <1>17 DEF BeginsWith
    <2>2. Len(Append(l, y)) = Len(l) + 1 /\ Append(l, y)[Len(l) + 1] = y
      BY <1>4, <1>8, AppendProperties
    <2>12. l \in Seq(S) /\ e \in Seq(S) BY <1>8, <1>17
    <2>3. Len(l) \in Nat /\ Len(e) \in Nat BY <2>12
    <2>10. Len(l) + 1 <= Len(e) BY <2>1, <2>2
    <2>11. Len(l) + 1 \in 1..Len(e) /\ Len(l) + 1 \in 1..(Len(l) + 1) BY <2>3, <2>10
    <2>4. Len(l) + 1 \in 1..Len(e) /\ e[Len(l) + 1] = y BY <2>1, <2>2, <2>11
    <2>5. e \in Seq(S) /\ ShapeSegment(e) BY <1>17
    <2>6. Len(l) + 1 = 1 BY <1>11, <2>4, <2>5, MarkerAlone
    <2>7. Len(l) = 0 BY <2>3, <2>6
    <2>8. l = <<>> BY <1>8, <2>7
    <2>9. e # <<>> BY <2>3, <2>4
    <2> QED BY <2>4, <2>6, <2>8, <2>9
  <1>19. Rank(e) = SymbolRank(y)
    <2>1. e \in Seq(S) /\ ShapeSegment(e) BY <1>17
    <2> QED BY <1>4, <1>18, <2>1, RankOfFirst
  <1>20. ASSUME n + 1 \in 1..Len(a), \A i \in 1..n : a[i] = f[i],
                Rank(a[n + 1]) < SymbolRank(y)
         PROVE  MoreSpecific(a, b)
    <2>1. DOMAIN a = 1..Len(a) /\ DOMAIN b = 1..Len(b) BY <1>10
    <2>2. n + 1 \in DOMAIN a \cap DOMAIN b BY <1>16, <1>20, <2>1
    <2>3. Rank(a[n + 1]) < Rank(b[n + 1]) BY <1>17, <1>19, <1>20
    <2>4. \A j \in 1..((n + 1) - 1) : Rank(a[j]) = Rank(b[j])
      <3>1. (n + 1) - 1 = n OBVIOUS
      <3>2. \A j \in 1..n : Rank(a[j]) = Rank(b[j]) BY <1>16, <1>20
      <3> QED BY <3>1, <3>2
    <2> QED BY <2>2, <2>3, <2>4 DEF MoreSpecific
  <1>21. SymbolRank(x) < SymbolRank(y) BY <1>1, <1>4
  <1>22. Len(a) \in Nat /\ DOMAIN a = 1..Len(a)
    <2>1. a \in Seq(P) BY <1>10
    <2> HIDE DEF P
    <2> QED BY <2>1
  <1>13. CASE x = "/"
    <2>1. Cut(Append(p, x), Append(f, l), <<>>) BY <1>8, <1>13, CutGrows
    <2>2. BeginsWith(a, Append(f, l), <<>>) BY <1>5, <1>9, <1>10, <2>1, CutBegins
    <2>3. /\ Len(Append(f, l)) = n + 1 /\ Append(f, l)[n + 1] = l
          /\ \A i \in 1..n : Append(f, l)[i] = f[i]
      <3>1. f \in Seq(P) /\ l \in P BY <1>8
      <3> HIDE DEF P
      <3> QED BY <1>15, <3>1, AppendProperties
    <2>4. n + 1 \in 1..(n + 1) /\ \A i \in 1..n : i \in 1..(n + 1) OBVIOUS
    <2>5. n + 1 < Len(a) /\ \A i \in 1..(n + 1) : a[i] = Append(f, l)[i]
      BY <2>2, <2>3 DEF BeginsWith
    <2>11. n + 1 < Len(a) /\ n \in Nat /\ Len(a) \in Nat BY <1>22, <2>5
    <2>6. n + 1 \in 1..Len(a) BY <2>11
    <2>7. a[n + 1] = <<>> BY <1>18, <2>3, <2>4, <2>5
    <2>8. Rank(a[n + 1]) = 0 BY <2>7, MarkersApart DEF Rank
    <2>9. SymbolRank(x) = 0 BY <1>13 DEF SymbolRank
    <2>10. \A i \in 1..n : a[i] = f[i] BY <2>3, <2>4, <2>5
    <2> QED BY <1>10, <1>20, <1>21, <2>6, <2>8, <2>9, <2>10
  <1>14. CASE x # "/"
    <2>1. Cut(Append(p, x), f, Append(l, x)) BY <1>8, <1>14, CutGrows
    <2>2. BeginsWith(a, f, Append(l, x)) BY <1>5, <1>9, <1>10, <2>1, CutBegins
    <2>3. Append(l, x) = <<x>> BY <1>18
    <2>4. Len(<<x>>) = 1 /\ <<x>>[1] = x /\ 1 \in 1..1 OBVIOUS
    <2>5. /\ n < Len(a) /\ \A i \in 1..n : a[i] = f[i]
          /\ 1 <= Len(a[n + 1]) /\ a[n + 1][1] = x
      BY <1>15, <2>2, <2>3, <2>4 DEF BeginsWith
    <2>6. n + 1 \in 1..Len(a) BY <1>22, <2>5
    <2>7. PICK d \in P : d = a[n + 1] /\ ShapeSegment(d)
      <3>1. a \in Seq(P) BY <1>10
      <3> HIDE DEF P
      <3>2. a[n + 1] \in P BY <2>6, <3>1
      <3>3. ShapeSegment(a[n + 1]) BY <1>10, <1>22, <2>6
      <3>4. a[n + 1] \in P /\ ShapeSegment(a[n + 1]) BY <3>2, <3>3
      <3> QED BY <3>4
    <2>8. d \in Seq(S) /\ d # <<>> /\ d[1] = x
      <3>1. d \in Seq(S) /\ Len(d) >= 1 /\ Len(<<>>) = 0 BY <2>5, <2>7
      <3> QED BY <2>5, <2>7, <3>1
    <2>10. d \in Seq(S) /\ ShapeSegment(d) /\ d # <<>> BY <2>7, <2>8
    <2>9. Rank(d) = SymbolRank(x)
      <3>1. \A z \in S : d[1] = z => Rank(d) = SymbolRank(z) BY <2>10, RankOfFirst
      <3> QED BY <1>4, <2>8, <3>1
    <2> QED BY <1>10, <1>20, <1>21, <2>5, <2>6, <2>7, <2>9
  <1> QED BY <1>13, <1>14

\* Of two shapes only one is the more specific.
LEMMA SpecificOne ==
  ASSUME NEW P, NEW s \in Seq(P), NEW u \in Seq(P), MoreSpecific(s, u), MoreSpecific(u, s)
  PROVE  FALSE
  <1>1. PICK i \in DOMAIN s \cap DOMAIN u :
          Rank(s[i]) < Rank(u[i]) /\ \A j \in 1..(i - 1) : Rank(s[j]) = Rank(u[j])
    BY DEF MoreSpecific
  <1>2. PICK k \in DOMAIN u \cap DOMAIN s :
          Rank(u[k]) < Rank(s[k]) /\ \A j \in 1..(k - 1) : Rank(u[j]) = Rank(s[j])
    BY DEF MoreSpecific
  <1>3. i \in Nat /\ k \in Nat /\ i > 0 /\ k > 0 BY LenProperties
  <1>4. \A q : Rank(q) \in Nat BY DEF Rank
  <1>5. ~(i < k)
    <2>1. i < k => i \in 1..(k - 1) BY <1>3
    <2> QED BY <1>1, <1>2, <1>4, <2>1
  <1>6. ~(k < i)
    <2>1. k < i => k \in 1..(i - 1) BY <1>3
    <2> QED BY <1>1, <1>2, <1>4, <2>1
  <1>7. i = k BY <1>3, <1>5, <1>6
  <1> QED BY <1>1, <1>2, <1>4, <1>7

\* A segment of a pattern without its name is one of a shape.
LEMMA PatternSegment ==
  ASSUME NEW S, NEW l \in Seq(S), \A k \in 2..Len(l) : l[k] \notin Markers
  PROVE  /\ ShapeSegment(Unnamed(l))
         /\ Unnamed(l) = <<"*">> => IsSpecial(l) /\ Head(l) = "*"
  <1>1. CASE IsSpecial(l)
    <2>1. l # <<>> /\ Head(l) \in Markers BY <1>1 DEF IsSpecial
    <2>2. Head(l) = l[1] BY <2>1
    <2>3. Unnamed(l) = <<l[1]>> BY <1>1, UnnamedType
    <2>4. l[1] = ":" \/ l[1] = "*" BY <2>1, <2>2 DEF Markers
    <2>5. ShapeSegment(Unnamed(l)) BY <2>3, <2>4 DEF ShapeSegment
    <2>6. \A x : <<x>> = <<"*">> => x = "*" OBVIOUS
    <2> QED BY <1>1, <2>2, <2>3, <2>5, <2>6
  <1>2. CASE ~IsSpecial(l)
    <2>1. Unnamed(l) = l BY <1>2, UnnamedType
    <2>2. l # <<>> => Head(l) = l[1] /\ l[1] \notin Markers BY <1>2 DEF IsSpecial
    <2>3. \A i \in 1..Len(l) : l[i] \notin Markers
      <3>1. Len(l) \in Nat /\ (Len(l) > 0 => l # <<>>) OBVIOUS
      <3> TAKE i \in 1..Len(l)
      <3>2. CASE i = 1 BY <2>2, <3>1, <3>2
      <3>3. CASE i # 1
        <4>1. i \in 2..Len(l) BY <3>1, <3>3
        <4> QED BY <4>1
      <3> QED BY <3>2, <3>3
    <2>4. l # <<"*">>
      <3> SUFFICES ASSUME l = <<"*">> PROVE FALSE OBVIOUS
      <3>1. Len(<<"*">>) = 1 /\ <<"*">>[1] = "*" OBVIOUS
      <3>2. Len(l) = 1 /\ l[1] = "*" BY <3>1
      <3>3. l[1] \notin Markers BY <2>3, <3>2
      <3> QED BY <3>2, <3>3 DEF Markers
    <2> QED BY <2>1, <2>3, <2>4 DEF ShapeSegment
  <1> QED BY <1>1, <1>2

\* The text whose segments are the shape of a pattern is one of a route.
LEMMA PatternText ==
  ASSUME NEW S, NEW p \in Seq(S), IsPattern(p), NEW u \in Seq(S), Segments(u) = Shape(p)
  PROVE  \E f \in Seq(Seq(S)), l \in Seq(S) : Cut(u, f, l) /\ ShapeText(f, l)
  <1>1. PICK g \in Seq(Seq(S)), m \in Seq(S) : Cut(p, g, m) BY CutExists
  <1>2. PICK f \in Seq(Seq(S)), l \in Seq(S) : Cut(u, f, l) BY CutExists
  <1>3. PICK s \in Seq(Seq(S)) : s = Append(g, m)
    <2>1. Append(g, m) \in Seq(Seq(S))
      <3>1. g \in Seq(Seq(S)) /\ m \in Seq(S) BY <1>1
      <3> QED BY <3>1, AppendTypes
    <2> QED BY <2>1
  <1>4. PICK n \in Nat : n = Len(g) BY <1>1, LenProperties
  <1>5. Len(s) = n + 1 /\ s[n + 1] = m /\ (\A i \in 1..n : s[i] = g[i]) /\ DOMAIN g = 1..n
        /\ DOMAIN s = 1..(n + 1)
    <2> DEFINE P == Seq(S)
    <2>1. g \in Seq(P) /\ m \in P BY <1>1
    <2> HIDE DEF P
    <2>2. /\ Append(g, m) \in Seq(P) /\ Len(Append(g, m)) = Len(g) + 1
          /\ Append(g, m)[Len(g) + 1] = m /\ \A i \in 1..Len(g) : Append(g, m)[i] = g[i]
      BY <2>1, AppendProperties
    <2> QED BY <1>3, <1>4, <2>1, <2>2, LenProperties
  <1>6. Segments(p) = s BY <1>1, <1>3 DEF Cut
  <1>7. \A i \in 1..(n + 1) :
          /\ \A k \in 2..Len(s[i]) : s[i][k] \notin Markers
          /\ IsSpecial(s[i]) /\ Head(s[i]) = "*" => i = n + 1
    BY <1>5, <1>6 DEF IsPattern
  <1>8. f = ShapeOf(g) /\ l = Unnamed(m)
    <2>1. Shape(p) = ShapeOf(Append(g, m)) BY <1>3, <1>6 DEF Shape, ShapeOf
    <2>2. g \in Seq(Seq(S)) /\ m \in Seq(S) BY <1>1
    <2>3. ShapeOf(g) \in Seq(Seq(S)) /\ ShapeOf(Append(g, m)) = Append(ShapeOf(g), Unnamed(m))
      BY <2>2, ShapeGrows
    <2>4. Unnamed(m) \in Seq(S) BY <2>2, UnnamedType
    <2>5. Append(f, l) = Append(ShapeOf(g), Unnamed(m)) BY <1>2, <2>1, <2>3 DEF Cut
    <2>6. f \in Seq(Seq(S)) /\ l \in Seq(S) BY <1>2
    <2> HIDE DEF ShapeOf
    <2> QED BY <2>3, <2>4, <2>5, <2>6, AppendApart
  <1>9. ASSUME NEW i \in 1..(n + 1)
        PROVE  /\ ShapeSegment(Unnamed(s[i]))
               /\ Unnamed(s[i]) = <<"*">> => i = n + 1
    <2>1. PICK q \in Seq(S) : q = s[i] BY <1>5
    <2>2. \A k \in 2..Len(q) : q[k] \notin Markers BY <1>7, <2>1
    <2>3. q \in Seq(S) BY <2>1
    <2>4. ShapeSegment(Unnamed(q)) /\ (Unnamed(q) = <<"*">> => IsSpecial(q) /\ Head(q) = "*")
      BY <2>2, <2>3, PatternSegment
    <2> QED BY <1>7, <2>1, <2>4
  <1>10. DOMAIN f = 1..n /\ \A i \in 1..n : f[i] = Unnamed(g[i]) BY <1>5, <1>8 DEF ShapeOf
  <1>11. Len(f) = n
    <2>1. Len(f) \in Nat /\ DOMAIN f = 1..Len(f) BY <1>2, LenProperties
    <2> QED BY <1>4, <1>10, <2>1
  <1>12. ASSUME NEW i \in 1..Len(f) PROVE ShapeSegment(f[i]) /\ f[i] # <<"*">>
    <2>1. i \in 1..n /\ i \in 1..(n + 1) /\ i # n + 1 BY <1>4, <1>11
    <2>2. f[i] = Unnamed(s[i]) BY <1>5, <1>10, <2>1
    <2> QED BY <1>9, <2>1, <2>2
  <1>13. ShapeSegment(l)
    <2>1. n + 1 \in 1..(n + 1) BY <1>4
    <2> QED BY <1>5, <1>8, <1>9, <2>1
  <1>14. f \in Seq(Seq(S)) /\ l \in Seq(S) BY <1>2
  <1> QED BY <1>2, <1>12, <1>13, <1>14 DEF ShapeText

\* Every segment of a route's text is one of a shape.
LEMMA TextSegments ==
  ASSUME NEW S, NEW u \in Seq(S), NEW f \in Seq(Seq(S)), NEW l \in Seq(S),
         Cut(u, f, l), ShapeText(f, l)
  PROVE  \A i \in DOMAIN Segments(u) : ShapeSegment(Segments(u)[i])
  <1> DEFINE P == Seq(S)
  <1>1. f \in Seq(P) /\ l \in P OBVIOUS
  <1>2. Segments(u) = Append(f, l) BY DEF Cut
  <1> HIDE DEF P
  <1>3. /\ Append(f, l) \in Seq(P) /\ Len(Append(f, l)) = Len(f) + 1
        /\ Append(f, l)[Len(f) + 1] = l /\ \A i \in 1..Len(f) : Append(f, l)[i] = f[i]
    BY <1>1, AppendProperties
  <1>4. DOMAIN Append(f, l) = 1..(Len(f) + 1) /\ Len(f) \in Nat
    BY <1>1, <1>3, LenProperties
  <1>5. \A i \in 1..(Len(f) + 1) : i \in 1..Len(f) \/ i = Len(f) + 1 BY <1>4
  <1> QED BY <1>2, <1>3, <1>4, <1>5 DEF ShapeText

\* What the text of a route takes of a whole target is what its segments accept.
LEMMA TextAccepts ==
  ASSUME NEW S, "/" \in S, NEW t \in Seq(S), NEW u \in Seq(S),
         NEW f \in Seq(Seq(S)), NEW l \in Seq(S), Cut(u, f, l), ShapeText(f, l)
  PROVE  /\ \A v \in Seq(Seq(S)) : LeadsAll(S, u, t, v) =>
              /\ Accepts(Segments(u), Segments(t))
              /\ ValuesOf(v) = Values(Segments(u), Segments(t))
         /\ Accepts(Segments(u), Segments(t)) =>
              \E v \in Seq(Seq(S)) : LeadsAll(S, u, t, v)
  <1>1. CASE l = <<"*">> BY <1>1, CatchAllAccepts
  <1>2. CASE l # <<"*">> BY <1>2, PlainAccepts
  <1> QED BY <1>1, <1>2

=============================================================================
