---------------------------- MODULE ConfigLoader -----------------------------
(***************************************************************************)
(* ConfigLoader::load_file and ConfigValidator::validate: what becomes of  *)
(* a TOML file, as operators.                                              *)
(*                                                                         *)
(* A file is [parses, server, logging, routes]; its tables are sets with   *)
(* at most one element.  A table gives each key the loader looks up a      *)
(* value: Absent, or one of the kinds below; log_file is left out.         *)
(***************************************************************************)
EXTENDS Integers, Sequences, SequencesExt

CONSTANTS
  IntMax,  \* the largest int
  Texts    \* the strings

ASSUME IntAssumption == IntMax \in Nat /\ IntMax >= 65535

\* The defaults are strings.
ASSUME TextsAssumption == {"", "VeloxServ", "127.0.0.1", "./public"} \subseteq Texts

Absent == <<"absent">>
Integer(n) == <<"int", n>>    \* n may be any 64-bit integer
Whole(n) == <<"float", n>>    \* a float without a fraction
Text(t) == <<"text", t>>
Bool(b) == <<"bool", b>>
Other == <<"other">>          \* any other float, a date, an array, a table

Ints == (-IntMax - 1)..IntMax

Values ==
  {Absent, Other} \cup ({"int", "float"} \X Int) \cup ({"text"} \X Texts) \cup ({"bool"} \X BOOLEAN)

\* What toml::parse_file may read.
TomlFiles ==
  [parses : BOOLEAN,
   server : SUBSET [name : Values, host : Values, port : Values,
                    timeout_seconds : Values, max_connections : Values],
   logging : SUBSET [console_output : Values, file_output : Values,
                     max_file_size : Values, max_files : Values],
   routes : SUBSET Seq([path : Values, type : Values, root : Values,
                        upstream : Values])]

-----------------------------------------------------------------------------
(* toml++: value_or converts as value does, and gives the default for what *)
(* it cannot convert.  A Boolean is the int 0 or 1, a float without a      *)
(* fraction its int, an int another than 0 is TRUE; a text is never one.   *)

Number(v) == IF v[1] = "bool" THEN (IF v[2] THEN 1 ELSE 0) ELSE v[2]

\* Does v convert to an int?
IsInt(v) == v[1] \in {"int", "float", "bool"} /\ Number(v) \in Ints

TextOr(v, default) == IF v[1] = "text" THEN v[2] ELSE default
IntOr(v, default) == IF IsInt(v) THEN Number(v) ELSE default

BoolOr(v, default) ==
  CASE v[1] = "bool" -> v[2]
    [] v[1] = "int"  -> v[2] # 0
    [] OTHER         -> default

\* static_cast<unsigned int> of an int: modulo one more than the largest
\* unsigned int.
Unsigned(n) == IF n < 0 THEN n + 2 * (IntMax + 1) ELSE n

\* get() of an absent key is a null pointer, and value_or is called on it.
NullValue(table) == \E key \in DOMAIN table : table[key] = Absent

-----------------------------------------------------------------------------
(* ConfigLoader.                                                           *)

Defaults ==
  [name |-> "VeloxServ", host |-> "127.0.0.1", port |-> 8080,
   timeout_seconds |-> 30, max_connections |-> 10000,
   console_output |-> TRUE, file_output |-> TRUE,
   max_file_size |-> 10, max_files |-> 3, routes |-> <<>>]

\* Seconds read as a 64-bit integer.
SecondsWide(v) == IF v[1] = "int" THEN v[2] ELSE 30

Seconds(v) == IntOr(v, 30)

WithServer(c, t) ==
  [c EXCEPT !.name = TextOr(t.name, "VeloxServ"),
            !.host = TextOr(t.host, "127.0.0.1"),
            !.port = Unsigned(IntOr(t.port, 8080)),
            !.timeout_seconds = Seconds(t.timeout_seconds),
            !.max_connections = IntOr(t.max_connections, 10000)]

\* max_file_size counts megabytes here.
WithLogging(c, t) ==
  [c EXCEPT !.console_output = BoolOr(t.console_output, TRUE),
            !.file_output = BoolOr(t.file_output, TRUE),
            !.max_file_size = IntOr(t.max_file_size, 10),
            !.max_files = IntOr(t.max_files, 3)]

\* route_type_from_string, with static for what it does not know.
RouteType(value) == IF value = "proxy" THEN "proxy" ELSE "static"

\* A route table, whose keys may be absent.
Route(t) ==
  [path |-> TextOr(t.path, ""), type |-> RouteType(TextOr(t.type, "static")),
   root |-> TextOr(t.root, "./public"), upstream |-> TextOr(t.upstream, "")]

\* Routes without a path are left out.
Kept(r) == IF r.path = "" THEN <<>> ELSE <<r>>

WithRoutes(c, tables) ==
  [c EXCEPT !.routes = FlattenSeq([i \in DOMAIN tables |-> Kept(Route(tables[i]))])]

\* The configuration of a file, table by table.
Load(file) ==
  LET With(c, Op(_, _), tables) ==
        IF tables = {} THEN c ELSE Op(c, CHOOSE t \in tables : TRUE)
  IN  With(With(With(Defaults, WithServer, file.server),
                WithLogging, file.logging),
           WithRoutes, file.routes)

-----------------------------------------------------------------------------
(* ConfigValidator.  Hosts, paths and directories are named for what the   *)
(* checks tell apart.                                                      *)

Addresses == {"127.0.0.1", "0.0.0.0"}  \* make_address takes them
Rooted == {"/", "/api"}                \* start with a slash
Directories == {"./public"}            \* is_directory
Unreadable == {"./locked/public"}      \* is_directory throws

\* add_error, for what is wrong.
Told(wrong, field) == IF wrong THEN <<field>> ELSE <<>>

\* The fields that are wrong, in the order validate checks them.
ServerErrors(c) ==
  FlattenSeq(<<
    Told(c.host = "", "host"),
    Told(c.host \notin Addresses, "host"),
    Told(c.port < 1 \/ c.port > 65535, "port"),
    Told(c.timeout_seconds <= 0, "timeout"),
    Told(c.max_connections <= 0, "max_connections") >>)

RouteErrors(r) ==
  LET static == r.type = "static" IN
  FlattenSeq(<<
    Told(r.path \notin Rooted, "path"),
    Told(static /\ (r.root = "" \/ r.root \notin Directories), "root"),
    Told(~static, "type"),
    Told(~static /\ r.upstream = "", "upstream"),
    Told(~static /\ r.upstream \notin Addresses, "upstream") >>)

\* A validate that returns after the first group of fields that is wrong.
FirstWrong(server, routes) == IF server # <<>> THEN server ELSE routes

AllWrong(server, routes) == server \o routes

\* Fields told without their route.
Nowhere(n, fields) == [i \in DOMAIN fields |-> <<0, fields[i]>>]

\* Fields told with the number of their route, or 0 for the server.
At(n, fields) == [i \in DOMAIN fields |-> <<n, fields[i]>>]

\* The diagnostics.
Validate(c) ==
  AllWrong(At(0, ServerErrors(c)),
           FlattenSeq([n \in DOMAIN c.routes |-> At(n, RouteErrors(c.routes[n]))]))

\* A throw out of is_directory.
ValidateThrows(c) ==
  \E n \in DOMAIN c.routes :
    c.routes[n].type = "static" /\ c.routes[n].root \in Unreadable

=============================================================================
