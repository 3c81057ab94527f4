---------------------------- MODULE MCRadixRouter ----------------------------
(* Small instances of RadixRouter for TLC.                                 *)
EXTENDS RadixRouter, TLC

\* The trees of the methods are independent and alike.
Symmetry == Permutations(Methods)

\* Rooted targets of up to four more symbols, and some with a query string.
MCTargets ==
  {<<"/">> \o t : t \in BoundedSeq({"/", "a", "b"}, 4)}
    \cup {<<>>, <<"a">>, <<"/", "a", "?", "/", "b">>, <<"/", "?">>, <<"?">>}

FewTargets == {<<"/", "a">>, <<"/", "b", "/", "a">>}

\* Literals that split each other, parameters and catch-alls beside and below
\* them, names that differ only, empty segments, and invalid patterns.
MCPatterns == {
  <<"/">>,
  <<"/", "a">>,
  <<"/", "a", "b">>,
  <<"/", "a", "/">>,
  <<"/", "a", "/", "b">>,
  <<"/", "/", "a">>,
  <<"/", ":", "x">>,
  <<"/", ":", "y">>,
  <<"/", ":", "x", "/", "b">>,
  <<"/", ":", "x", "/", "*", "y">>,
  <<"/", "a", "/", ":", "x">>,
  <<"/", "a", "b", "/", ":", "a", "b">>,
  <<"/", "a", "/", "*", "x">>,
  <<"/", "*", "x">>,
  <<"a">>,
  <<"/", "a", ":", "x">>,
  <<"/", "*", "x", "/", "a">>
}

\* Every rooted text of up to four symbols, and shorter ones that are not.
AllPatterns ==
  {<<"/">> \o t : t \in BoundedSeq({"/", "a", ":", "*"}, 3)}
    \cup BoundedSeq({"a", ":"}, 2)

FewPatterns == {
  <<"/", "a", "b">>,
  <<"/", "a", "a">>,
  <<"/", "a", "/", ":", "x">>,
  <<"/", ":", "x">>,
  <<"/", ":">>
}

=============================================================================
