----------------------------- MODULE StaticSite ------------------------------
(***************************************************************************)
(* From a request to its response: load_routes_from_config fills the route *)
(* table, process_request finds the longest prefix, and                    *)
(* handle_static_request resolves the target under the route's root, opens *)
(* the file and leaves its body to the write.                              *)
(*                                                                         *)
(* No handler runs beside another one, but other processes change the disk *)
(* between any two system calls, so each of these is a step.               *)
(*                                                                         *)
(* Text is a sequence of symbols: "/", "..", "." are one each, "%2F" is an *)
(* escaped slash and "%" an escape that is not one.  A path is a sequence  *)
(* of components, a place one without empty and dot components.  There are *)
(* no symbolic links.                                                      *)
(***************************************************************************)
EXTENDS SequencesExt, MimeTypes

CONSTANTS
  Symbols,     \* what text is made of
  Configs,     \* the validated route lists: sequences of [path, root]
  Targets,     \* the request targets
  Disks,       \* what the disk may hold: functions from places to Kinds
  Index,       \* the name of the index file, the same in all routes
  MaxChanges,  \* bound: how often the disk changes
  NoRoute      \* no route was chosen

Kinds == {"file", "secret", "dir", "locked"}

\* The routes a configuration may have.
Routes == [path : Seq(Symbols), root : Seq(Seq(Symbols))]

ASSUME SiteAssumption ==
  /\ MaxChanges \in Nat
  /\ Configs \subseteq Seq(Routes) /\ NoRoute \notin Routes
  /\ "/" \in Symbols
  /\ Targets \subseteq Seq(Symbols)
  /\ \A d \in Disks : \A p \in DOMAIN d : d[p] \in Kinds
  /\ Index \in Seq(Symbols)

VARIABLES
  config,    \* config.routes_
  loaded,    \* how many of them load_routes_from_config has registered
  table,     \* routes_: from prefixes to what their handlers captured
  disk,      \* what is on the disk
  changes,   \* how often it changed
  stage,     \* the call the request is in front of
  target,    \* the target of the request
  chosen,    \* the route whose handler runs
  base,      \* base_path
  path,      \* target_path
  body,      \* what was opened: a kind, or "none"
  response,  \* the response, once there is one: see Responses
  before     \* history: changes when the request came

routing == <<config, loaded, table>>
system == <<disk, changes>>
vars == <<routing, system, stage, target, chosen, base, path, body, response,
          before>>

Text == INSTANCE RoutePatterns
Segments(t) == Text!Segments(t)

Http == INSTANCE HttpMessages

NoResponse == [status |-> "none", content_type |-> "none"]

\* ResponseFactory::error, apart from what HttpMessages has of it.
error(status) == [status |-> status, content_type |-> "text/plain; charset=utf-8"]

ContentTypes == ToSet(MIME_TYPES) \cup {DEFAULT_MIME_TYPE}

Responses ==
  [status : {"ok"}, content_type : ContentTypes]
    \cup {error(s) : s \in Http!Statuses \ {"ok"}}

-----------------------------------------------------------------------------
(* The disk.                                                               *)

Kind(p) ==
  IF p = <<>> THEN "dir" ELSE IF p \in DOMAIN disk THEN disk[p] ELSE "missing"

\* One component further from a place.
Step(place, c) ==
  CASE c \in {<<>>, <<".">>} -> place
    [] c = <<"..">> -> IF place = <<>> THEN <<>> ELSE Front(place)
    [] OTHER -> Append(place, c)

\* lexically_normal, apart from a slash at the end.
Normal(p) ==
  LET place[k \in 0..Len(p)] ==
        IF k = 0 THEN <<>> ELSE Step(place[k - 1], p[k])
  IN  place[Len(p)]

\* What a system call finds at p: a kind, or why it goes no further.  A slash
\* at the end asks for a directory and does not search it.
Found(p) ==
  LET kind(k) == Kind(Normal(SubSeq(p, 1, k)))
      stops == {k \in DOMAIN p : kind(k) # "dir"}
      stop == CHOOSE k \in stops : \A j \in stops : k <= j
      slashes == \A k \in (stop + 1)..Len(p) : p[k] = <<>>
  IN  IF stops = {} THEN "dir"
      ELSE IF \/ stop = Len(p) \/ kind(stop) = "missing"
              \/ kind(stop) = "locked" /\ slashes
      THEN kind(stop)
      ELSE IF kind(stop) = "locked" THEN "denied" ELSE "not_a_directory"

\* weakly_canonical, which throws where a directory cannot be searched.  A
\* path that does not exist keeps the slash it ends with.
Canonical(p) ==
  IF \/ Found(p) \in Kinds
     \/ p = <<>>
     \/ Last(p) \notin {<<>>, <<".">>, <<"..">>}
  THEN Normal(p)
  ELSE Append(Normal(p), <<>>)

-----------------------------------------------------------------------------
(* The route table.                                                        *)

Init ==
  /\ config \in Configs
  /\ loaded = 0
  /\ table = <<>>
  /\ disk \in Disks
  /\ changes = 0
  /\ stage = "loading"
  /\ target = <<>>
  /\ chosen = NoRoute
  /\ base = <<>> /\ path = <<>>
  /\ body = "none" /\ response = NoResponse
  /\ before = 0

\* An emplace, which leaves a route that is there alone.
EmplacedIn(t, r) ==
  [q \in DOMAIN t \cup {r.path} |-> IF q \in DOMAIN t THEN t[q] ELSE r]

\* A later route replaces an earlier one with its path.
AssignedIn(t, r) ==
  [q \in DOMAIN t \cup {r.path} |-> IF q = r.path THEN r ELSE t[q]]

\* One round of load_routes_from_config.
LoadRoute ==
  /\ stage = "loading" /\ loaded < Len(config)
  /\ table' = AssignedIn(table, config[loaded + 1])
  /\ loaded' = loaded + 1
  /\ UNCHANGED <<config, system, stage, target, chosen, base, path, body,
                 response, before>>

Serve ==
  /\ stage = "loading" /\ loaded = Len(config)
  /\ stage' = "idle"
  /\ UNCHANGED <<routing, system, target, chosen, base, path, body, response,
                 before>>

-----------------------------------------------------------------------------
(* A request.                                                              *)

\* starts_with('/').
Rooted(t) == t # <<>> /\ Head(t) = "/"

\* parse_origin_form takes the target.
Parses(t) == Rooted(t) /\ "%" \notin ToSet(t)

\* The target up to its query, the escapes decoded: url_view::path.
PathOf(t) ==
  LET k == SelectInSeq(t, LAMBDA x : x = "?")
      encoded == IF k = 0 THEN t ELSE SubSeq(t, 1, k - 1)
  IN  [encoded |-> encoded,
       decoded |-> [i \in DOMAIN encoded |->
                      IF encoded[i] = "%2F" THEN "/" ELSE encoded[i]]]

\* The prefixes in the table that the path starts with.
Matching(p) == {q \in DOMAIN table : IsPrefix(q, p)}

\* A loop that keeps the first match it finds in the order of the map.
FirstMatch(p) ==
  IF Matching(p) = {} THEN NoRoute
  ELSE table[CHOOSE q \in Matching(p) :
               \A o \in Matching(p) : Len(q) <= Len(o)]

\* The loop of process_request: the longest prefix.
LongestMatch(p) ==
  IF Matching(p) = {} THEN NoRoute
  ELSE table[CHOOSE q \in Matching(p) :
               \A o \in Matching(p) : Len(q) >= Len(o)]

Answer(r) == response' = r /\ stage' = "answered"

GoOn(next) == stage' = next /\ UNCHANGED response

\* A process_request that calls whatever it has found.
CallAnyway(route) == FALSE

\* matched_it is routes_->end().
Unmatched(route) == route = NoRoute

\* process_request up to the call of a handler.
Dispatch(t) ==
  /\ stage = "idle"
  /\ target' = t
  /\ chosen' = LongestMatch(IF Parses(t) THEN PathOf(t).decoded ELSE t)
  /\ IF Unmatched(chosen') THEN Answer(error("not_found")) ELSE GoOn("parse")
  /\ before' = changes
  /\ UNCHANGED <<routing, system, base, path, body>>

\* One of the target's segments is "..": they are cut at the slashes that are
\* written, not at those that are escaped.
ClimbsUp(t) == <<"..">> \in ToSet(Segments(PathOf(t).encoded))

\* handle_static_request up to the first system call.
Parse ==
  /\ stage = "parse"
  /\ IF ~Parses(target) THEN Answer(error("bad_request"))
     ELSE IF ClimbsUp(target) THEN Answer(error("forbidden"))
     ELSE GoOn("base")
  /\ UNCHANGED <<routing, system, target, chosen, base, path, body, before>>

\* A call that throws, out of the handler, is answered by process_request.
Throws(p) == Found(p) = "denied"

\* A base_path that is the root as it is written.
AsConfigured(root) == root

BasePath(root) == Canonical(root)

ResolveBase ==
  /\ stage = "base"
  /\ IF Throws(chosen.root)
     THEN Answer(error("internal_server_error")) /\ UNCHANGED base
     ELSE GoOn("path") /\ base' = BasePath(chosen.root)
  /\ UNCHANGED <<routing, system, target, chosen, path, body, before>>

\* base_path / rel_path: the index file for a directory, and a path that is
\* absolute behind its first slash replaces the base.
Joined ==
  LET decoded == PathOf(target).decoded
      full == IF decoded = <<>> \/ Last(decoded) = "/"
              THEN decoded \o Index ELSE decoded
      rel == IF Rooted(full) THEN Tail(full) ELSE full
  IN  IF Rooted(rel) THEN Segments(rel) ELSE base \o Segments(rel)

\* No comparison of the target with the base.
Unconfined(root, p) == TRUE

\* std::mismatch gets to the end of the base.
Confined(root, p) == IsPrefix(root, p)

\* target_path, and std::mismatch over base_path: the target lies below the
\* base, or it does not, or it ends first: then the mismatch reads on behind
\* it, which ends the process or finds a difference.
ResolveTarget ==
  /\ stage = "path"
  /\ path' = Canonical(Joined)
  /\ \/ Throws(Joined) /\ Answer(error("internal_server_error"))
     \/ ~Throws(Joined) /\ Confined(base, path') /\ GoOn("open")
     \/ ~Throws(Joined) /\ ~Confined(base, path') /\ Answer(error("forbidden"))
     \/ ~Throws(Joined) /\ IsStrictPrefix(path', base) /\ GoOn("crashed")
  /\ UNCHANGED <<routing, system, target, chosen, base, body, before>>

\* full_path.
FullPath == FlattenSeq([i \in DOMAIN path |-> <<"/">> \o path[i]])

\* The type of what was asked for, without the index file.
TypeOfTarget == mime_type(PathOf(target).decoded)

TypeOfBody == mime_type(FullPath)

\* body.open: a directory opens too.
OpenBody ==
  /\ stage = "open"
  /\ LET found == Found(path) IN
     \/ /\ found \in {"file", "dir"}
        /\ Answer([status |-> "ok", content_type |-> TypeOfBody])
        /\ body' = found
     \/ /\ found = "missing"
        /\ Answer(error("not_found")) /\ UNCHANGED body
     \/ /\ found \notin {"file", "dir", "missing"}
        /\ Answer(error("internal_server_error")) /\ UNCHANGED body
  /\ UNCHANGED <<routing, system, target, chosen, base, path, before>>

\* The write of the response ends, whole or cut short (HttpSession), and the
\* next request may come.
Written ==
  /\ stage = "answered"
  /\ stage' = "idle"
  /\ target' = <<>> /\ chosen' = NoRoute
  /\ base' = <<>> /\ path' = <<>>
  /\ body' = "none" /\ response' = NoResponse
  /\ before' = 0
  /\ UNCHANGED <<routing, system>>

\* Another process changes the disk.
Change ==
  /\ changes < MaxChanges
  /\ disk' \in Disks \ {disk}
  /\ changes' = changes + 1
  /\ UNCHANGED <<routing, stage, target, chosen, base, path, body, response,
                 before>>

Handle == Parse \/ ResolveBase \/ ResolveTarget \/ OpenBody

Next ==
  \/ LoadRoute \/ Serve
  \/ \E t \in Targets : Dispatch(t)
  \/ Handle \/ Written
  \/ Change

Spec == Init /\ [][Next]_vars

-----------------------------------------------------------------------------
(* Safety.                                                                 *)

\* The type of every variable; a handler runs only for a route of the table.
TypeOK ==
  /\ config \in Configs
  /\ loaded \in 0..Len(config)
  /\ ToSet(table) \subseteq ToSet(config)
  /\ disk \in Disks
  /\ changes \in 0..MaxChanges
  /\ stage \in {"loading", "idle", "parse", "base", "path", "open", "answered", "crashed"}
  /\ target \in Targets \cup {<<>>}
  /\ chosen \in ToSet(config) \cup {NoRoute}
  /\ stage \in {"parse", "base", "path", "open"} => chosen # NoRoute
  /\ base \in Seq(Seq(Symbols)) /\ path \in Seq(Seq(Symbols))
  /\ body \in {"none", "file", "dir"}
  /\ response \in Responses \cup {NoResponse}
  /\ before \in 0..changes

\* However the routes are listed, a request goes to the one with the longest
\* path that the target's path starts with, and of two routes with one path
\* to the later.
LongestPrefixServes ==
  LET p == IF Parses(target) THEN PathOf(target).decoded ELSE target
      matches == {i \in DOMAIN config : IsPrefix(config[i].path, p)}
      Beats(i, j) == \/ Len(config[i].path) > Len(config[j].path)
                     \/ config[i].path = config[j].path /\ i >= j
  IN  stage \notin {"loading", "idle"} =>
        IF matches = {} THEN chosen = NoRoute
        ELSE \E i \in matches : chosen = config[i] /\ \A j \in matches : Beats(i, j)

\* What is opened lies below the root of the route the request went to,
\* whatever the target's dots and escapes and whatever happened to the root
\* since the configuration was validated.
ServedFromRoot ==
  body # "none" => IsPrefix(Normal(chosen.root), path)

\* The name of a file or a directory.
IsName(c) == c \notin {<<>>, <<".">>, <<"..">>} /\ "/" \notin ToSet(c)

\* A target of names, one slash between each two.
Plain(t) ==
  /\ Parses(t)
  /\ "%2F" \notin ToSet(PathOf(t).encoded)
  /\ LET s == Segments(PathOf(t).encoded) IN
       \A i \in DOMAIN s : IsName(s[i]) \/ (s[i] = <<>> /\ i \in {1, Len(s)})

\* Where a plain target's file is: under the root, and the index file where
\* the target ends with a slash.
Named ==
  LET s == Tail(Segments(PathOf(target).encoded))
  IN  Normal(chosen.root) \o
        (IF Last(s) = <<>> THEN Append(Front(s), Index) ELSE s)

\* A plain target goes to a root that is a directory, as the validator asks
\* it to be, and the disk is as it was when the request came.
Undisturbed ==
  /\ chosen # NoRoute /\ Plain(target) /\ IsName(Index)
  /\ changes = before
  /\ Found(chosen.root) = "dir"

Answered == stage = "answered" /\ Undisturbed

\* While the disk stays as it is, a plain target is answered by what is at
\* its place under the root, however the root is written: 200 for what can
\* be opened, 404 only where there is nothing.
ServesWhatIsThere ==
  Answered =>
    /\ response.status = "ok" <=> Found(Named) \in {"file", "dir"}
    /\ response.status = "not_found" <=> Found(Named) = "missing"
    /\ response.status # "forbidden"

\* Whatever the target, the redirection to an index file and the dots in the
\* names of directories, a body is sent with the type its file's own name
\* has in the table, spelled as it is; MimeTypes::from_path differs from
\* mime_type only where it folds capitals.
TypedByName ==
  response.status = "ok" /\ path # <<>> =>
    /\ response.content_type = TypeOfName(Last(path))
    /\ from_path(FullPath) = TypeOfName(ascii_lower(Last(path)))

\* "missing file returned 404" (smoke_test.py): where there is no file of
\* the name, the answer is 404.
MissingIsNotFound ==
  Answered /\ Found(Named) \in {"missing", "not_a_directory"} =>
    response.status = "not_found"

=============================================================================
