------------------------------ MODULE MCStartup ------------------------------
(* Small instances of Startup for TLC.                                     *)
EXTENDS Startup

MCTexts == STRING

\* The keys are independent, so each table is varied with the others as they
\* are in default.toml, and the routes in pairs.
ServerTables ==
  [name : {Absent, Text(""), Text("VeloxServ")},
   host : {Absent, Text(""), Text("nowhere"), Text("0.0.0.0"), Integer(1)},
   port : {Absent, Other, Text("http"), Bool(FALSE), Bool(TRUE), Whole(0), Whole(80),
           Integer(-1), Integer(0), Integer(80), Integer(65535), Integer(65536),
           Integer(IntMax + 1)},
   timeout_seconds : {Absent, Bool(FALSE), Whole(-1), Integer(-1), Integer(0),
                      Integer(1), Integer(IntMax + 1)},
   max_connections : {Bool(FALSE), Bool(TRUE), Whole(IntMax + 1), Integer(0), Integer(1)}]

LoggingTables ==
  [console_output : {Absent, Text("yes"), Bool(FALSE), Bool(TRUE), Whole(0),
                     Integer(0), Integer(2)},
   file_output : {Absent, Bool(FALSE), Bool(TRUE), Integer(0)},
   max_file_size : {Absent, Bool(FALSE), Integer(-1), Integer(0), Integer(10)},
   max_files : {Bool(TRUE), Integer(-1), Integer(3), Integer(MaxLogFiles + 1)}]

RouteTables ==
  [path : {Absent, Integer(1), Text(""), Text("/"), Text("api")},
   type : {Absent, Text("static"), Text("proxy"), Text("cgi")},
   root : {Absent, Text(""), Text("./nowhere"), Text("./locked/public")},
   upstream : {Absent, Text("127.0.0.1"), Text("http://127.0.0.1:3000")}]

DefaultServer ==
  [name |-> Text("VeloxServ"), host |-> Text("127.0.0.1"), port |-> Integer(8080),
   timeout_seconds |-> Integer(30), max_connections |-> Integer(10000)]

DefaultLogging ==
  [console_output |-> Bool(TRUE), file_output |-> Bool(TRUE),
   max_file_size |-> Integer(10), max_files |-> Integer(3)]

DefaultRoute ==
  [path |-> Text("/"), type |-> Text("static"), root |-> Text("./public"),
   upstream |-> Absent]

FileOf(server, logging, routes) ==
  [parses |-> TRUE, server |-> server, logging |-> logging, routes |-> routes]

MCFiles ==
  {FileOf({t}, {DefaultLogging}, {<<DefaultRoute>>}) : t \in ServerTables}
  \cup {FileOf({DefaultServer}, {t}, {<<DefaultRoute>>}) : t \in LoggingTables}
  \cup {FileOf({DefaultServer}, {DefaultLogging}, {<<t, u>>}) :
          t \in RouteTables, u \in {DefaultRoute, [DefaultRoute EXCEPT !.path = Text("api")]}}
  \cup {FileOf({[DefaultServer EXCEPT !.port = Integer(0)]}, {}, {<<t>>}) : t \in RouteTables}
  \cup {FileOf(s, g, {}) : s \in SUBSET {DefaultServer}, g \in SUBSET {DefaultLogging}}
  \cup {[FileOf({}, {}, {}) EXCEPT !.parses = FALSE]}

=============================================================================
