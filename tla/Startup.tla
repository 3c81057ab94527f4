------------------------------- MODULE Startup -------------------------------
(***************************************************************************)
(* main() around the event loop: the configuration is loaded and checked,  *)
(* the Logger replaces its bootstrap logger, the server is bound, and an   *)
(* exception anywhere on the way ends the process with a failure.          *)
(***************************************************************************)
EXTENDS ConfigLoader

CONSTANTS
  Files,       \* the configuration files the program may be started with
  MaxLogFiles  \* the most files a rotating_file_sink takes

AtMostOne(tables) == \A s, t \in tables : s = t

ASSUME FilesAssumption ==
  /\ Files \subseteq TomlFiles
  /\ \A f \in Files : AtMostOne(f.server) /\ AtMostOne(f.logging) /\ AtMostOne(f.routes)

VARIABLES
  file,    \* the file config_path names
  stage,   \* how far main() is
  config,  \* cfg, at most one: what load_file returned
  errors,  \* the diagnostics of a ConfigException
  log      \* the default logger: "bootstrap", "async" or "down"

vars == <<file, stage, config, errors, log>>

Init ==
  /\ file \in Files
  /\ stage = "bootstrap"
  /\ config = {}
  /\ errors = <<>>
  /\ log = "bootstrap"

\* A process that ends without the destructors of main's locals.
LogNotUnwound == log

\* ~Logger, which does nothing unless the logger was initialized.
LogAfterShutdown == IF log = "async" THEN "down" ELSE log

\* The catch of main: EXIT_FAILURE, and the locals go.
Throw ==
  /\ stage' = "failed"
  /\ log' = LogAfterShutdown

Parse ==
  /\ stage = "bootstrap"
  /\ IF file.parses THEN stage' = "tables" /\ UNCHANGED log ELSE Throw
  /\ UNCHANGED <<file, config, errors>>

\* A look-up of an absent key goes through a null pointer.
Crash ==
  /\ stage = "tables"
  /\ \E t \in file.server \cup file.logging : NullValue(t)
  /\ stage' = "crashed"
  /\ UNCHANGED <<file, config, errors, log>>

\* The rest of load_file: a configuration, or a ConfigException, or what
\* is_directory threw.
LoadFile ==
  /\ stage = "tables"
  /\ \A t \in file.server \cup file.logging : ~NullValue(t)
  /\ LET c == Load(file) IN
     \/ /\ ValidateThrows(c)
        /\ Throw
        /\ UNCHANGED <<config, errors>>
     \/ /\ ~ValidateThrows(c) /\ Validate(c) # <<>>
        /\ errors' = Validate(c)
        /\ Throw
        /\ UNCHANGED config
     \/ /\ ~ValidateThrows(c) /\ Validate(c) = <<>>
        /\ config' = {c}
        /\ stage' = "loaded"
        /\ UNCHANGED <<errors, log>>
  /\ UNCHANGED file

\* The constructor of the rotating_file_sink takes the sizes, and the file
\* can be opened.
FileSinkOpens(c, writable) ==
  c.max_file_size # 0 /\ c.max_files \in 0..MaxLogFiles /\ writable

\* A logger of no sinks will do.
AnySinks(c) == TRUE

SomeSink(c) == c.file_output \/ c.console_output

\* initialize does not throw: the sinks open, there is one, and the logger's
\* name is not that of the default logger, which is registered already.
LoggerStarts(c, writable) ==
  /\ c.file_output => FileSinkOpens(c, writable)
  /\ SomeSink(c)
  /\ c.name # ""

InitializeLogger ==
  /\ stage = "loaded"
  /\ \E writable \in BOOLEAN, c \in config :
       IF LoggerStarts(c, writable)
       THEN stage' = "logging" /\ log' = "async"
       ELSE Throw
  /\ UNCHANGED <<file, config, errors>>

\* The HttpServer is made; its acceptor binds unless the port is taken.
MakeServer ==
  /\ stage = "logging"
  /\ \/ stage' = "running" /\ UNCHANGED log
     \/ Throw
  /\ UNCHANGED <<file, config, errors>>

\* server.run(), the signal_set or ioc.run() throws.
RunThrows ==
  /\ stage = "running"
  /\ Throw
  /\ UNCHANGED <<file, config, errors>>

\* The event loop is stopped and main returns EXIT_SUCCESS.
Return ==
  /\ stage = "running"
  /\ stage' = "returned"
  /\ log' = LogAfterShutdown
  /\ UNCHANGED <<file, config, errors>>

Next ==
  \/ Parse \/ Crash \/ LoadFile
  \/ InitializeLogger \/ MakeServer
  \/ RunThrows \/ Return

Spec == Init /\ [][Next]_vars

-----------------------------------------------------------------------------
(* Safety.                                                                 *)

Stages == {"bootstrap", "tables", "loaded", "logging", "running", "returned",
           "failed", "crashed"}

RouteConfigs ==
  [path : Texts, type : {"static", "proxy"}, root : Texts, upstream : Texts]

Configs ==
  [name : Texts, host : Texts, port : 0..(2 * IntMax + 1),
   timeout_seconds : Ints, max_connections : Ints,
   console_output : BOOLEAN, file_output : BOOLEAN,
   max_file_size : Ints, max_files : Ints, routes : Seq(RouteConfigs)]

Fields == {"host", "port", "timeout", "max_connections", "path", "root", "type",
           "upstream"}

\* The type of every variable of the start.
TypeOK ==
  /\ file.parses \in BOOLEAN
  /\ stage \in Stages
  /\ \A c \in config : c \in Configs
  /\ errors \in Seq(Nat \X Fields)
  /\ log \in {"bootstrap", "async", "down"}

\* An int of the file that is not in S.
IntOutside(v, S) == IsInt(v) /\ Number(v) \notin S

\* A switch of the file that is off.
SwitchedOff(v) == v \in {Bool(FALSE), Integer(0)}

\* The ports the validator takes.
MaxPort == 65535
Ports == 1..MaxPort

\* A route table with a path.
Given(t) == t.path[1] = "text" /\ t.path # Text("")

\* How many of the first k tables have a path.
Place(tables, k) == Cardinality({j \in 1..k : Given(tables[j])})

\* The routes are those of the tables with a path, in their order, each is
\* served from a directory, and none is a proxy.
ServesTables(routes, tables) ==
  /\ Len(routes) = Place(tables, Len(tables))
  /\ \A k \in DOMAIN tables :
       LET r == routes[Place(tables, k)] IN
       Given(tables[k]) =>
         /\ r.path = tables[k].path[2]
         /\ r.type = "static" /\ tables[k].type # Text("proxy")
         /\ r.root \in Directories

\* A server that runs was configured by its file: the port is the one given,
\* as an int or as what converts to one, and it is a port; the file does not
\* switch off both outputs of the log; and its routes are served.
RunsAsConfigured ==
  stage \in {"running", "returned"} =>
    /\ file.parses
    /\ \E c \in config :
         /\ c.port \in Ports
         /\ \A t \in file.server :
              IsInt(t.port) => c.port = Number(t.port)
         /\ \A t \in file.logging :
              ~(SwitchedOff(t.console_output) /\ SwitchedOff(t.file_output))
         /\ \A tables \in file.routes : ServesTables(c.routes, tables)
         /\ file.routes = {} => c.routes = <<>>

\* The fields of a [server] table and of a route with a path that a
\* ConfigException has to tell.
WrongInServer(t) ==
  (IF t.host[1] = "text" /\ t.host[2] \notin Addresses THEN {"host"} ELSE {})
  \cup (IF IntOutside(t.port, Ports) THEN {"port"} ELSE {})
  \cup (IF IntOutside(t.timeout_seconds, 1..IntMax) THEN {"timeout"} ELSE {})
  \cup (IF IntOutside(t.max_connections, 1..IntMax) THEN {"max_connections"} ELSE {})

WrongInRoute(t) ==
  (IF t.path[2] \notin Rooted THEN {"path"} ELSE {})
  \cup (IF t.type = Text("proxy")
        THEN {"type"} \cup (IF t.upstream[1] # "text" \/ t.upstream[2] \notin Addresses
                            THEN {"upstream"} ELSE {})
        ELSE IF t.root[1] = "text" /\ t.root[2] \notin Directories THEN {"root"} ELSE {})

\* Is field x at place n, of a route or 0 for the server, wrong?
Wrong(n, x) ==
  \/ n = 0 /\ \E t \in file.server : x \in WrongInServer(t)
  \/ \E tables \in file.routes : \E k \in DOMAIN tables :
       Given(tables[k]) /\ n = Place(tables, k) /\ x \in WrongInRoute(tables[k])

\* The places there may be.
Places == {0} \cup UNION {0..Len(tables) : tables \in file.routes}

\* A refused configuration is refused with every wrong field at once, those
\* of the server and of each route, each with its place, and no other.
TellsEveryError ==
  errors # <<>> =>
    ToSet(errors) = {y \in Places \X Fields : Wrong(y[1], y[2])}

\* However main() ends short of a crash, no asynchronous logger outlives it:
\* its queue was flushed and its thread joined.
LoggerDownAtExit == stage \in {"returned", "failed"} => log # "async"

\* "Enable console logging by default", "Enable file logging by default"
\* (ConfigLoader.hpp): a key left out of a table takes its default.
DefaultsFillIn == stage # "crashed"

=============================================================================
