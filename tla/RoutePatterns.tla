---------------------------- MODULE RoutePatterns ----------------------------
(***************************************************************************)
(* What route patterns mean, read segment by segment: which patterns are   *)
(* valid, which targets they accept and which of several goes first.  No   *)
(* tree and no prefix occurs.                                              *)
(*                                                                         *)
(* Text is a sequence of symbols.  An optional value is a set with at most *)
(* one element.                                                            *)
(***************************************************************************)
EXTENDS Naturals, Sequences

Markers == {":", "*"}

\* A slash opens a segment, any other symbol goes to the last one.
Scan(segments, symbol) ==
  IF symbol = "/" THEN Append(segments, <<>>)
  ELSE [segments EXCEPT ![Len(segments)] = Append(@, symbol)]

\* The segments of t, the empty ones included: one more than t has slashes.
Segments(t) ==
  LET segments[k \in 0..Len(t)] ==
        IF k = 0 THEN << <<>> >> ELSE Scan(segments[k - 1], t[k])
  IN  segments[Len(t)]

IsSpecial(segment) == segment # <<>> /\ Head(segment) \in Markers

\* A pattern is rooted; a marker starts a segment and has a name behind it;
\* only the last segment may be a catch-all.
IsPattern(p) ==
  LET s == Segments(p) IN
  /\ Len(s) > 1
  /\ s[1] = <<>>
  /\ \A i \in DOMAIN s :
       /\ \A k \in 2..Len(s[i]) : s[i][k] \notin Markers
       /\ IsSpecial(s[i]) => Len(s[i]) > 1
       /\ IsSpecial(s[i]) /\ Head(s[i]) = "*" => i = Len(s)

Unnamed(segment) == IF IsSpecial(segment) THEN <<Head(segment)>> ELSE segment

\* A pattern without its names: routes that differ only in those are the same.
Shape(p) ==
  LET s == Segments(p)
  IN  [i \in DOMAIN s |-> Unnamed(s[i])]

\* The names of the specials, in their order.
NamesIn(s) ==
  LET names[k \in 0..Len(s)] ==
        IF k = 0 THEN <<>>
        ELSE IF IsSpecial(s[k]) THEN Append(names[k - 1], Tail(s[k]))
        ELSE names[k - 1]
  IN  names[Len(s)]

Names(p) == NamesIn(Segments(p))

-----------------------------------------------------------------------------
(* Which route a request goes to.                                          *)

\* A shape accepts the segments t: a parameter takes one segment that is not
\* empty, a catch-all everything that is left, unless that is "" or "/".
Accepts(shape, t) ==
  /\ Len(shape) <= Len(t)
  /\ \A i \in DOMAIN shape :
       \/ shape[i] = <<":">> /\ t[i] # <<>>
       \/ /\ shape[i] = <<"*">>
          /\ SubSeq(t, i, Len(t)) \notin {<< <<>> >>, << <<>>, <<>> >>}
       \/ ~IsSpecial(shape[i]) /\ shape[i] = t[i]
  /\ shape[Len(shape)] # <<"*">> => Len(shape) = Len(t)

Rank(segment) ==
  CASE segment = <<":">> -> 1
    [] segment = <<"*">> -> 2
    [] OTHER -> 0

\* At the first segment that tells them apart, literal text is more specific
\* than a parameter and a parameter than a catch-all.
MoreSpecific(s, u) ==
  \E i \in DOMAIN s \cap DOMAIN u :
    /\ Rank(s[i]) < Rank(u[i])
    /\ \A j \in 1..(i - 1) : Rank(s[j]) = Rank(u[j])

\* What the specials of a shape take of the segments t.
Values(shape, t) ==
  LET values[k \in 0..Len(shape)] ==
        IF k = 0 THEN <<>>
        ELSE IF shape[k] = <<":">> THEN Append(values[k - 1], <<t[k]>>)
        ELSE IF shape[k] = <<"*">> THEN Append(values[k - 1], SubSeq(t, k, Len(t)))
        ELSE values[k - 1]
  IN  values[Len(shape)]

\* The segments of a target up to its query string.
PathSegments(target) ==
  LET queries == {i \in DOMAIN target : target[i] = "?"}
      end == CHOOSE k \in 0..Len(target) :
               /\ k = Len(target) \/ k + 1 \in queries
               /\ \A i \in queries : k < i
  IN  Segments(SubSeq(target, 1, end))

\* The result of matching target against the routes rs.
Lookup(rs, method, target) ==
  LET path == PathSegments(target)
      found == {r \in rs : r.method = method /\ Accepts(r.shape, path)}
      best == {r \in found : \A o \in found \ {r} : MoreSpecific(r.shape, o.shape)}
  IN  {[route |-> r, values |-> Values(r.shape, path)] : r \in best}

=============================================================================
