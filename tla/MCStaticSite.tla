---------------------------- MODULE MCStaticSite -----------------------------
(* Small instances of StaticSite for TLC.                                  *)
EXTENDS StaticSite

S == <<"s">>
A == <<"a">>
D == <<"a", ".", "png">>
P == <<"a", ".", "PNG">>
MCIndex == <<"i", ".", "html">>
MCSymbols == {"/", "%2F", "%", "?", ".", "..", "a", "s", "i", "png", "PNG", "html"}
MCFolded == [PNG |-> "png"]

\* Prefixes of each other, twice the same path, roots below one another, one
\* root with a slash at its end as in default.toml, and one that is missing
\* on some disks.
MCRoutes == {
  [path |-> <<"/">>, root |-> <<S, <<>> >>],
  [path |-> <<"/">>, root |-> <<S, A>>],
  [path |-> <<"/", "a">>, root |-> <<S>>],
  [path |-> <<"/", "a", "/">>, root |-> <<S, A, <<>> >>]
}

MCConfigs == {c \in BoundedSeq(MCRoutes, 2) : c # <<>>}

\* With and without the file, the directory and the index file of a name,
\* with a dot in the name of a directory and capitals in that of a file, with
\* an unreadable file, unsearchable directories, no root.
MCDisks == {
  <<S>> :> "dir" @@ <<S, A>> :> "dir" @@ <<S, A, MCIndex>> :> "file"
    @@ <<S, P>> :> "file" @@ <<S, D>> :> "dir" @@ <<S, D, A>> :> "file",
  <<S>> :> "dir" @@ <<S, A>> :> "file" @@ <<S, MCIndex>> :> "secret",
  <<S>> :> "dir" @@ <<S, A>> :> "locked" @@ <<S, A, A>> :> "file" @@ <<S, MCIndex>> :> "file",
  <<S>> :> "locked" @@ <<S, A>> :> "dir",
  <<A>> :> "file"
}

MCTargets ==
  {<<"/">> \o t : t \in BoundedSeq({"/", "a", "..", "%2F"}, 3)}
    \cup {<<"/", "a", "/", ".", "/">>, <<"/", "a", "/", "?", "a">>, <<"/", "%">>,
          <<"/">> \o P, <<"/">> \o D, <<"/">> \o D \o <<"/", "a">>,
          <<"a">>, <<"/", "a", "s">>, <<"/", "/", "s">>, <<"/", "/", "s", "/", "a">>}

PlainTargets == {t \in MCTargets : Plain(t)}

=============================================================================
