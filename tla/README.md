# A verification development for VeloxServ

VeloxServ is a small HTTP/1.1 static file server: one thread, one
`boost::asio::io_context`, Boost.Beast for HTTP, toml++ for its configuration,
spdlog for its log. A second, radix-tree router lives beside the server and is
used by the tests and a benchmark. This directory holds TLA+ modules that model
the program, configurations that check them with TLC, and theorems that TLAPS
checks. Paths below are relative to the repository; `map` in `PROJECT.json`
gives the lines each definition stands for.

## The system

| component | state it keeps | operations | talks to |
|---|---|---|---|
| `HttpSession` | `socket_` with its deadline, `request_`, `buffer_`; kept alive by the `shared_ptr` of its outstanding operation | `start`, `read_request`, `on_read`, `process_request`, the write's handler | the client, the route table |
| `HttpServer::Impl` | `acceptor_`, the shared route table | `run`, `accept_request`, `on_accept`, `route` | sessions, the `io_context` |
| route table dispatch | `std::map` prefix to handler, filled before `run` | `load_routes_from_config`, the longest prefix loop | static file handler |
| static file handler | none; files, its own table of content types | `handle_static_request`, `mime_type` | the file system |
| `ResponseFactory` | none | `error` and its four callers | Beast's messages |
| `main` | `Logger`, `cfg`, `io_context`, `server`, `signals` | start-up, `handle_signal`, teardown | all |
| `ConfigLoader` | none | `load_file` | toml++, validator |
| `ConfigValidator` | none | `validate` | the file system |
| `Logger` | the asynchronous logger, its queue of 8192, its thread and its sinks | `initialize_bootstrap`, `initialize`, `shutdown` | spdlog's registry |
| `Router` | per method the root of a radix tree | `add_route`, `match` | callers' `Handler` objects |
| `MimeTypes` | a constant table | `from_path` | |

`Router` and `MimeTypes` are not called by the server: it keeps its own
`RouteTable` and `mime_type`, which looks an extension up in another way.

Who interacts with whom. Clients and sessions exchange bytes, and a client may
send the next request before it has the last response. The one thread runs
completion handlers one after another, so a handler is atomic with respect to
the others, but between the start of an operation and its completion anything
may happen: other handlers, a deadline, a reset, a signal. Shared state is the
route table, constant once the server runs. The asynchronous logger's queue is
the only state two threads share.

What is hard, and what makes each part correct:

* *Session and accept loop.* Nothing but the outstanding operation owns a
  session, so each path through the handlers must start exactly one operation
    or let the session go. One deadline covers a write and the next read. covers a write and
  the next read. Correct means: one response for each request, in order, with
  its own keep-alive; nothing after the last; no session without an operation
  or with two; an acceptor that is always armed; writes and idle reads that end.
  A response announces whether the connection goes on, and the write's handler
  acts on its own copy of that: the two must agree, for both versions of HTTP.
  A signal may come before the `signal_set` waits, and ends the process whenever
  it comes.
* *Router.* Nodes are split in place while a pattern is inserted, and match
  backtracks through the split prefixes. Correct means: the shape of the tree,
  and so the order of registration, cannot be observed; a valid pattern is added
  or refused as a duplicate, and nothing else changes.
* *Configuration.* Every key may be absent, out of range or of another type, which
  toml++ converts where it can, and each route has its own rules. Correct means: what runs is what the file says,
  and what is refused is refused with all its errors, each at its place.
* *Start and exit.* Each stage may throw after the earlier ones took effect.
  Correct means: no server runs half configured, and no asynchronous logger
  outlives `main`.
* *Dispatch and static files.* The longest prefix wins, whatever the order of
  the routes. Paths are resolved at every request, by system calls between which
  other processes may change the disk, and every call may throw. Correct means:
  what is opened lies under the root of the route, while the disk is left
  alone the answer says what is there, and the content type is that of the file
  sent, not of the name asked for.
* *Logger queue.* It overruns its oldest item, the flush of the shutdown does not
  wait and takes a place too, and each sink may throw. Correct means: only the
  oldest messages are lost, the others are written in order, a sink misses
  nothing that another one failed on, and the shutdown ends with all flushed.

`hazards` in `PROJECT.json` lists what is hard to test, at its line, with the
properties aimed at it.

## Modules

| module | models | state and actions in terms of the code |
|---|---|---|
| `HttpMessages` | `ResponseFactory`, the part of Beast's messages a connection depends on | operators: `KeepAlive` and `Announcing` are the two `keep_alive` of a message, `error` and its callers the factory. |
| `HttpSession` | `HttpSession.{hpp,cpp}`, and the client's end of a connection | `reads`/`writes` count the outstanding `async_read`/`async_write` of a session, which are what owns it; `request`, `expiry` are `request_` and the deadline of `socket_`, `message` the response the write owns with the keep-alive its handler captured. `OnReadOk`, `OnReadErr`, `OnWriteOk`, `OnWriteErr` are completions with the whole of their handlers, `process_request` and the destructor included. |
| `HttpServer` | `HttpServer::Impl`, `handle_signal`, `ioc.run` and the teardown | `main` is how far `main` has come, `accepts` counts outstanding `async_accept`s; `Run`, `EnterLoop` (the `signal_set` waits from here on), `OnAcceptOk`, `OnAcceptErr`, `OnSignal`, `Exit` are steps of the program; `Signal` sends SIGINT or SIGTERM at any point, `Die` is a handler that ends the process. Composes with `HttpSession` by extending it. |
| `HttpConversation` | abstract | what a client is promised: `Begin`, `Ask`, `Tell`, `End`. The conversation goes on exactly while the responses say so. |
| `HttpServerProofs` | | theorems about `HttpServer`. |
| `RadixRouter` | `Router.{hpp,cpp}` | `nodes` are the `Node`s (a `unique_ptr` is an index or 0), `roots` is `roots_`, `call` the locals of a running `add_route`. `Start` is `add_route` up to the loop of `insert_route`; `Literal` and `Special` are the loop's two branches; `Descend`, `Split` and `Grow` are one level of `insert_static` each; `Finish` sets the route or throws. `Valid` is `validate_pattern`. `Match`/`Search` are the recursive `match`. |
| `RadixRouterProofs`, `RadixRoutesProofs` | | theorems about `RadixRouter`: the trees; what `add_route` does to the routes in them, that a router is a set of routes, and what `match` finds. |
| `RoutePatterns` | abstract | what patterns mean read by segments: no tree, no prefixes, no backtracking. |
| `RoutePatternsProofs` | | lemmas about `RoutePatterns`: what a text's segments, shape and names become when it grows by a symbol or a piece, where segments lie in a text, that texts of the same segments are the same, and that reading a target along a route's text, symbol by symbol, accepts, takes and orders what its segments do. |
| `RouteSet` | abstract | a registry that is a set of routes: `Refuse`, `Clash`, `Add`. |
| `ConfigLoader` | `ConfigLoader`, `ConfigValidator`, the parts of toml++ they call | `Load`, `Validate`, `ValidateThrows` as operators on a file; `TextOr`, `IntOr`, `BoolOr` are `value_or` with its conversions. A diagnostic is the place of its route (0 for the server) and the field. |
| `Startup` | `main`, `Logger::initialize`, `~Logger` | `stage` is the statement `main` has reached: `Parse`, `Crash`, `LoadFile`, `InitializeLogger`, `MakeServer`; from `running` on the process ends by `Return` or, with an exception out of `server.run`, the `signal_set` or `ioc.run`, by `RunThrows`. |
| `StartupProofs` | | theorems about `Startup`. |
| `StaticSite` | `load_routes_from_config`, `process_request` up to the call of a handler, `handle_static_request`, the file system below it | `table` is `routes_`, filled by `LoadRoute`; `Dispatch` is the loop over prefixes; `Parse`, `ResolveBase`, `ResolveTarget` and `OpenBody` are the handler from one system call to the next, with `base` and `path` its `base_path` and `target_path`; `Change` is another process. |
| `StaticSiteProofs` | | theorems about `StaticSite`. |
| `Induction` | | lemmas the proofs about recursive functions rest on: least and greatest numbers, recursion up to n, induction by appending, flattened sequences, folds. |
| `MimeTypes` | `MimeTypes.cpp`, and `mime_types` and `mime_type` of the static file handler | operators: the table, `mime_type` (the last dot of the whole path), `from_path` (backwards to the last slash, folding case). |
| `AsyncLogger` | the logger `Logger::initialize` installs, `Logger::shutdown`, the parts of spdlog they call | `queue` is the thread pool's, `hand` the item its thread has taken, `output` what each sink put out and `failed` which sink threw on which message; `Log`, `Shutdown`, `EndPool` and `Join` are steps of `main`, `Take`, `Write`, `FlushSinks` and `Stop` of the worker. |
| `AsyncLoggerProofs` | | theorems about `AsyncLogger`. |
| `MCHttpServer`, `MCRadixRouter`, `MCStartup`, `MCStaticSite` | | small instances. |

Operators whose comment starts with what a faulty version of the code would do
(`OnWriteErrIgnored`, `KeepRoute`, `FirstMatch`, ...) are mutants: no specification
uses them; each takes the place of a definition to show that a property notices.

### What is abstracted

* A request is a target and a header, a response a status and a header; a header
  is the HTTP version and the tokens of the `Connection` field, which is what the
  connection's life depends on. Which prefix a target matches is a constant set
  (`Routed`) and what a handler does a choice among `Outcomes`: a status, `throws`,
  or `dies`, which takes the process along; the status `ok` is a file body, whose
  read may fail while the response is written. `StaticSite` gives these meaning:
  the statuses its responses can have, its throws (answered by `process_request`)
  and its stage `crashed` are the outcomes. The two are not composed in one run:
  a session shares with a request's handling only the request and the
  response, and `Outcomes` leaves the session a choice at every request.
* Time is an action: an armed deadline may pass at any moment the socket is
  open. A write or read with an expired deadline fails; it may still have
  succeeded just before its handler ran.
* The client is arbitrary: it connects, pipelines up to `MaxRequests` requests or
  malformed bytes, half-closes or resets.
* A read fills `request_` with the request as it was sent. The parser that
  `async_read` makes of a message clears its fields; only a body would be added
  to the one before, and bodies are left out, because nothing under `src/` reads
  the body of a request.
* A signal is kept by the `signal_set` for its handler; before that set waits it
  ends the process. One signal is sent at most: a second one finds the loop
  stopped, or its handler stops it again.
* Text in the router is a sequence of one-character strings. `std::optional` is a
  set of at most one element.
* A configuration file is what the loader looks up in it: per key absent, a text,
  an integer, a float without a fraction, a Boolean, or anything else.
  `value_or<int>` makes 0 or 1 of a Boolean and the integer of such a float,
  `value_or<bool>` makes TRUE of any integer but 0, and what does not convert or
  does not fit gives the default (`IntOr`, `BoolOr`); a text only comes of a text. `log_file` and `index` are passed through and left out.
  Hosts, paths and directories are named for what the checks tell apart.
  `IntMax` is scaled to 99999 in the runs, above every value that is compared;
  the cast to `unsigned` wraps at `2 * (IntMax + 1)`.
* A target is a sequence of symbols: a slash, the dot segments, an escaped slash,
  a broken escape and a few names are one symbol each. The disk is a function
  from places to `file`, `secret` (a file without read permission), `dir` and
  `locked` (a directory without search permission). There are no symbolic links,
  so canonical means normal, and a disk that changes between two system calls
  changes what is found but not where a path leads. A directory opens like a
  file, as `fopen` does. `std::mismatch` is given no end of the target: where that
  is a prefix of the root it reads behind it, and `ResolveTarget` leaves open what
  comes of it (`forbidden` or `crashed`).
* An extension is a dot and one word, a symbol each; two symbols are each other's
  capitals (`Folded`).
* spdlog's levels are two, those that flush at once (`err` and above) and the
  others. `flush` posts an item and does not wait for it. A sink fails on a message
  or puts it out: the formatter throws for text that is not UTF-8, a file may be
  full or fail to rotate.
* Wording, layout, all other header fields and log messages are left out.

## Runs

TLC takes a few seconds for most and less than two minutes for each.

| run | shows | states |
|---|---|---|
| `server_conversation` | one connection, three pipelined requests of both versions with and without the token that matters, errors, deadlines, a signal and the teardown at every point: responses follow requests and announce what the session does, by the request's own keep-alive, nothing is read after a response that closes, deadlines stand from the first request on, and the server implements `HttpConversation` | 515 741 |
| `server_connections` | two connections, failing accepts, a signal and the teardown interleaved, under fairness: types, one operation per open session, an armed acceptor; writes and idle kept-alive reads end, the backlog drains, a signal ends the process | 52 575 |
| `server_silent` | violated: a client that connects and sends nothing holds its session for ever | |
| `router_match` | three of seventeen patterns in every order, two methods, 127 targets: compressed radix trees at every step of `add_route`, special nodes only where segments start, match is the segment-wise reading | 152 483 |
| `router_texts` | every rooted text of up to four of four symbols as a pattern, two registered, two handlers: implements `RouteSet`, types, every call returns | 27 130 |
| `router_dangling` | violated: a handler made for one `add_route` call is gone when a match refers to it | |
| `startup_files` | some 8 000 files and every way the start, and the running server, can fail: what runs is what the file says, refusals name every wrong field of each route at its place, the logger is down at exit | 26 386 |
| `startup_defaults` | violated: a key left out of a table is read through a null pointer | |
| `site_dispatch` | routes in different orders, with one path, with nested and with unnormal roots; targets with dots, escapes, queries; a disk changed between system calls: the longest prefix serves, what is opened is under the root, the answer says what is there and has the type of the file | 238 185 |
| `site_missing` | violated: a name below a file is answered with 500 | |
| `logger_shutdown` | a queue of three, seven messages, any of two sinks that fail up to twice, a worker with any delay, a shutdown at any point: only the oldest are lost, the rest is written in order and flushed, each sink misses only what it failed on, the shutdown ends | 417 474 |

### Bounds, and why they are enough

* Sessions share no state but the constant route table, so one connection shows
  a conversation and two show the interleaving with the accept loop. Three
  requests give a first (no deadline before it), a middle and a last one, with
  one still in the buffer while another is answered. A header without the token
  that changes anything and one with it cover each version; the other tokens
  change nothing. `MaxFailures` lets an accept fail before and between connections.
* The seventeen patterns hold literals that split each other at several depths,
  parameters and catch-alls beside and below them, two that differ by name only,
  empty segments and invalid ones. With three routes a split of a split, a literal, a
  parameter and a catch-all under one node, and backtracking from each to the
  next occur. Targets are all rooted texts of up to five of three symbols, and
  some with a query. `router_texts` complements it with every text of
  a length, valid or not. Methods are alike and share no node, so `router_match`
  takes them as symmetric.
* The configuration's keys are read and checked independently, so each table is
  varied in full with the others as in `default.toml`, and routes in pairs. Integers
  stand on both sides of every bound that is compared, and each key that is
  converted gets values that convert to a right and to a wrong one.
* A request to the static file handler shares only the route table and the disk
  with others, so one at a time shows all it can do. It makes three system
  calls; two changes can take something away and put it back between any of
  them. The five disks hold a root with its files, an unreadable one, a locked
  directory, a locked root and none at all; one directory's name has a dot and
  one file's extension is in capitals.
* A queue of three is the smallest in which the flush, the request to terminate
  and a message meet; seven messages fill it more than twice. Two failures let one
  sink fail twice, and both sinks on one message or on different ones.
* Every safety invariant and both refinements are proved for all bounds (below).

`CHECK_DEADLOCK FALSE` stands in the configurations because the programs stop: the
server exits, routes are bounded, `main` returns. That nothing stops too early
is what the liveness properties and `AcceptorArmed` say.

### Fairness

`HttpServer!Fairness` is the event loop's: `ioc.run` runs the handler of what is
ready, and time passes. It covers the steps of `main` (`Run`, `EnterLoop`, `Exit`),
the handler of a signal that was sent, accepts of waiting connections, reads that can complete, and operations whose deadline has
passed. It does not assume that a client sends, reads or closes anything, that
a write gets through, or that a signal comes. `RadixRouter!FairSpec` only says
that a call that was made runs on: it is sequential code. `AsyncLogger!FairSpec`
says that both threads run on once they have something to do; that `main` ever
shuts the logger down is not assumed.

## Proofs

`HttpServerProofs` proves, for any set of connections, targets, handler outcomes
and any bounds (assumptions: `SessionAssumption`, `ServerAssumption`, which say
what kind of values the constants are):

* `TypeCorrect`, `OneOperation`, `Accepting`, `InOrder`, `LastRequestIsLast`,
  `Deadlines`: each safety invariant that the runs check;
* `Refinement`: `Spec` implements `HttpConversation`.

The invariants need each other. That a session has one operation says that
`on_read` finds no write outstanding, hence that all earlier requests are
answered and that counters do not go below zero; that the outstanding write owns
a response that fits the last request, and announces what its handler captured,
is what makes the write's handler extend `told` correctly and read on only where
the client was told so. `ConnInv` states all of them of one connection and adds
what makes them inductive: a write owns a response, and a connection not yet
accepted has no history, which `OnAcceptOk` needs. A step of one connection leaves the
`ConnInv` of the others alone (`Untouched`); the proof has a lemma per action,
one step per conjunct it disturbs. For the refinement, `Link` reads "none" before the accept; an
`OnReadOk` is an `Ask`, a successful write a `Tell`, an accept a `Begin`, failed
operations and the teardown an `End`, and all else a stutter.

`StartupProofs` proves `TypeCorrect`, `RunAsConfigured`, `ToldEveryError` and
`LoggerDown` for any files that toml++ can read, with any number of routes
(`IntAssumption`, `TextsAssumption`, `FilesAssumption`: an int holds every port,
the defaults are strings, a file has each table at most once). `LoggerDown`: whichever stage throws,
`~Logger` runs, because the asynchronous logger is the default one only in the stages
`logging` and `running` (`AsyncWhileServing`). The other three rest on `LoadedInv`:
`config` is what `Load` makes of the file, and `errors` what `Validate` tells of
that. What is left is about the operators. `Loads` gives every field of `Load(file)`
by a key of the file, converted, or its default. The routes are the tables with a
path, each at the place of its table among those (`RoutesOf`), which is how many
tables up to it have one (`Place`). `ToldIsWrong` gives the diagnostics, fields and
places, by what the file has wrong. In each direction
something may be lost: a wrong value that a conversion makes right would not be
told, a default that is wrong would be told of a file that says nothing. So `WrongPort` shows
that the cast to unsigned takes no negative number into the ports, and
`WrongText` and `WrongNumber` that the defaults are right. The loops over
tables and routes are `FlattenSeq`: `FlattenSeqBy` proves what holds of the parts
gathered so far, part by part, and `RoutesOneMore` is that step for the routes.

`AsyncLoggerProofs` proves `MessagesAccounted`, `WritesInOrder`, `KeepsTheNewest`,
`FlushesAll`, `SinksOnTheirOwn` and `TypeCorrect`, each safety invariant of the
run, for any capacity above zero, any number of messages and any set of sinks
(`LoggerAssumption`). The
inductive invariant `IInv` strengthens them with `Phase`: how far the flush and the
request to terminate have come, each behind all messages, and that before the
flush the queue holds messages with consecutive numbers up to the last one
logged. From it follow what a full queue may drop (`OldestLost`: the message at
the head is exactly `Capacity` behind) and that nothing is left when the worker
stops. `Ordered` gives the order written, hand, queue. The steps share a lemma
about what a post does to the queue, item by item (`PostItem`). The sinks have
an invariant of their own (`SinkInv`): what a sink put out is, in order, what was
written without what it failed on.

`StaticSiteProofs` proves `TypeCorrect`, `LongestPrefix`, `BelowRoot`,
`WhatIsThere` and `TypesByName`, each invariant of the run, for any
routes, targets, disks and number of changes (`SiteAssumption`;
`FoldedAssumption`: capitals are letters and stay so). The inductive
invariant is made of five parts. `TableInv`: the table has the paths of the routes registered so
far, each with the last of them. `RootInv`: what lies below what, from one
system call to the next; the base was resolved from the root of the route, and
nothing goes on to `body.open` that was not compared with it. `ThereInv`: what the
handler has found out of a plain target by each of its steps, as long as nobody
touches the disk. `TypedInv`: a response has the type of `full_path`. And the types. What takes
most of the work is about the operators:

* A path is normal once it is: `Normal` leaves no empty, single or double dot
  (`NormalClean`) and changes nothing without them (`CleanNormal`). With that, a
  plain target joined to the base is `Named`, below the base (`JoinedIs`,
  `NamedBelow`), however the root is written and whether or not it ends
  with a slash. So the comparison with the root never answers 403 to it.
* Both tables of content types look from the end of the path, one for the last
  dot of all, the other for a dot before the first slash. `TypesAgree`: for a path
  that ends in a name, both find what the name has, because no extension in the
  tables holds a slash and `FullPathEnds` says that what is opened ends in a name.

Types need that `Segments` and `Normal`, which recurse over positions, are defined for every text:
`Induction` proves the least number principle from the well-founded order of
finite sets, without a parameter that is an operator, and from it that a function
defined by recursion up to n exists (`UpTo`, `Recursion`).

`RadixRouterProofs` and `RadixRoutesProofs` prove `TypeCorrect`, `TreesAreRadix`,
`SpecialsInSegments`, `TreesCompressed`, `RoutesOnlyAdded`, `Implements` and
`MatchesBest` for any methods, handlers, patterns, targets and order of calls
(`RouterAssumption`: patterns and targets are sequences of strings, and `NoCall` is
no call). But for `TreesCompressed` they hold at every step of an `add_route`, in
the middle of a split too. The argument has five layers:

* *Trees of texts.* `Tree` looks at places (method and text) and children only:
  children lie below their node, no two begin alike, from a node a child leads
  on to everything below it, and no two nodes share a place. The third part is
  what makes it inductive: it says that below a child lies all that begins with
  the child's text, hence that where no child shares a symbol with the text to
  insert, no node stands there yet. `NewLeaf`, `SplitEdge` and `NewRoot` prove it of the
  three ways the code changes a tree, for any trees.
* *Nodes.* `Edges` ties prefixes and types to places, `Segmented` and `CallInv`
  say where special nodes stand and which text may come next: a marker only behind a slash, which
  `validate_pattern` sees to. `GrowInv`, `SplitInv`, `SpecialMade`, ... are one action each.
* *Routes and compression.* A split gives the suffix the child's route together with its
  place, so the set of routes stays (`SplitRoutes`). `Compact` says why a node
  without a route or special child (`Bare`) is there: it branches, or the running call is at it
  and about to give it a route, a special child, or a second branch. That last case
  needs that `common_prefix` stops at a symbol that differs (`CommonPrefixIs`).

* *Patterns.* `Implements`: the router implements `RouteSet`. A `Reject` is a
  `Refuse`, a `Finish` an `Add` or a `Clash`, everything else a stutter. Three facts
  carry it. `ValidIs`: `validate_pattern`, which scans symbols, passes exactly the patterns
  that are valid read by segments. `ReadUpTo`: a running call has read
  its pattern up to the text of its node and what is left to insert, with the names
  it collected, so that at the end the segments of the node's text are the shape of the
  pattern. It is inductive because a special is reached with nothing left to
  insert, behind a slash, and takes its whole segment. `OnePlace`: texts
  with the same segments are the same (`CutInjective`) and each stands at one node,
  so a route of that method and shape can only be at the node where the call ends:
  to look for a duplicate there is enough, and a second route cannot be added elsewhere.
  `RoutePatternsProofs` has what these need of the abstract reading.
* *Match.* `MatchesBest`: what `match` returns is what `RoutePatterns!Lookup` finds
  among the routes. Three things are between the two, each with its part of the
  proof:

  - *The search and the tree.* `Reaches(n, a, d, v)` says that the text from node n to
    node d, symbol by symbol, takes all that is left of the path and collects
    the values v: no tree, no prefixes, no backtracking. `Found` says what a search below n
    should return: a node with a route that is reached, whose text goes `Before` that of
    every other one, and if there is none, nothing and the values it was given.
    `RoundFound` shows one call of `search` to do so if those it makes do; in it
    `StaticFound`, `ParameterFound` and `CatchAllFound` are the three parts of the
    code, and `ChildrenOrder` why what the first finds goes before all the next
    could. The calls it makes have less of the path left, so by induction over what
    is left the search is defined (`SearchExists`: `FoundOne` says there is one thing
    to return, so that choosing it everywhere solves the recursion) and whatever
    solves the recursion finds it (`SolutionFinds`).
  - *Symbols and segments.* A text of a route that leads through all of a target has
    segments that accept the target's, with the same values, and the other way
    round: `PlainAccepts` for texts without a catch-all, by appending symbols to the text,
    `CatchAllAccepts` for those that end in one. `BeforeSpecific`: of two texts, the one that
    goes before the other at the first symbol that differs is the more specific at
    the first segment that does.
  - *Routes and nodes.* `RoutesSound` is an invariant of the set of routes, proved
    through `Implements`: each has the shape of a valid pattern, and no two the same method
    and shape. It makes the segments of a node with a route those of a shape (`PatternText`) and
    the route at it the only one in question (`RouteFound`); `RootSub` has
    all of a method's nodes below its root.

Only model-checked, and why: liveness and everything under fairness, which is out
of the prover's reach. Every safety invariant and action property that a passing
run checks has its theorem.

## Findings

1. The deadline is armed in `process_request` only (`HttpSession.cpp:42`): the
   first read of a session has none. `timeout_seconds` is loaded and validated
   and no session uses it.
2. `Router` keeps a reference to the caller's `Handler` (`Router.cpp:373`), for
   which the tests pass lambdas: temporaries that die with the call.
3. `server_node->get(key)->value_or(...)` dereferences null for an absent key
   (`ConfigLoader.cpp:53` to `67`): the defaults never fill in a partial table.
4. A target that goes on below a file, such as `/index.html/x`, is answered with 500
   and not 404: opening it fails with "not a directory", and only "no such file"
   is told apart (`HttpServer.cpp:97`).

## Not modelled

* Build files, CI, the tests and the benchmark: not part of the running program.
* Symbolic links below a root: canonical paths would follow them. Without them no
  change of the disk can lead out of a root, so `ServedFromRoot` says nothing
  of the hazards of a disk that changes under a request, and no property does.
* Bodies of requests: nothing reads them. That those of one connection accumulate
  in `request_` is listed as a hazard only.
* The order of the destructors in `main`: the teardown is one step.
* JSON formatting of log records, diagnostics' wording, response bodies: layout.
* `StaticSite` and `HttpSession` in one state space: see "What is abstracted".

## Plan

1. *Symbolic links* in the disk of `StaticSite`, with `ServedFromRoot` against where
   they lead.
