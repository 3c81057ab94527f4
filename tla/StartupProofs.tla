---------------------------- MODULE StartupProofs ----------------------------
(***************************************************************************)
(* That no asynchronous logger outlives main(), that a server runs as its  *)
(* file configured it and that a refused file is refused with every wrong  *)
(* field, for any configuration file and any way the start fails.          *)
(***************************************************************************)
EXTENDS Startup, Induction, SequenceTheorems

-----------------------------------------------------------------------------
(* Flattened sequences.                                                    *)

\* The elements of a concatenation.
LEMMA ConcatElements ==
  ASSUME NEW S, NEW s \in Seq(S), NEW t \in Seq(S)
  PROVE  /\ s \o t \in Seq(S)
         /\ \A x : x \in ToSet(s \o t) <=> x \in ToSet(s) \/ x \in ToSet(t)
  <1> DEFINE both == s \o t
             m == Len(s)
  <1>1. /\ both \in Seq(S) /\ Len(both) = m + Len(t)
        /\ \A i \in 1..m : both[i] = s[i]
        /\ \A i \in 1..Len(t) : both[m + i] = t[i]
    BY ConcatProperties
  <1> HIDE DEF both
  <1>2. /\ m \in Nat /\ Len(t) \in Nat
        /\ DOMAIN s = 1..m /\ DOMAIN t = 1..Len(t) /\ DOMAIN both = 1..(m + Len(t))
    BY <1>1
  <1>3. ASSUME NEW i \in DOMAIN both PROVE both[i] \in ToSet(s) \cup ToSet(t)
    <2>1. CASE i <= m
      <3>1. i \in DOMAIN s /\ both[i] = s[i] BY <1>1, <1>2, <2>1
      <3> QED BY <3>1 DEF ToSet
    <2>2. CASE ~(i <= m)
      <3>1. i - m \in DOMAIN t /\ m + (i - m) = i BY <1>2, <2>2
      <3>2. both[i] = t[i - m] BY <1>1, <1>2, <3>1
      <3> QED BY <3>1, <3>2 DEF ToSet
    <2> QED BY <2>1, <2>2
  <1>4. ASSUME NEW i \in DOMAIN s PROVE s[i] \in ToSet(both)
    <2>1. i \in DOMAIN both /\ both[i] = s[i] BY <1>1, <1>2
    <2> QED BY <2>1 DEF ToSet
  <1>5. ASSUME NEW i \in DOMAIN t PROVE t[i] \in ToSet(both)
    <2>1. m + i \in DOMAIN both /\ both[m + i] = t[i] BY <1>1, <1>2
    <2> QED BY <2>1 DEF ToSet
  <1>6. \A x : x \in ToSet(both) <=> x \in ToSet(s) \/ x \in ToSet(t)
    BY <1>3, <1>4, <1>5 DEF ToSet
  <1> QED BY <1>1, <1>6 DEF both

\* Induction over a flattened sequence: what holds of the empty sequence and no
\* parts, and goes on with each part, holds of all of them flattened.
LEMMA FlattenSeqBy ==
  ASSUME NEW S, NEW parts \in Seq(Seq(S)), NEW T,
         <<<<>>, 0>> \in T,
         \A m \in 1..Len(parts) : \A all \in Seq(S) :
           <<all, m - 1>> \in T => <<all \o parts[m], m>> \in T
  PROVE  FlattenSeq(parts) \in Seq(S) /\ <<FlattenSeq(parts), Len(parts)>> \in T
  <1> DEFINE n == Len(parts)
  <1>1. n \in Nat /\ \A i \in 1..n : parts[i] \in Seq(S) OBVIOUS
  <1>2. <<>> \in Seq(S) OBVIOUS
  <1>3. CASE n = 0
    <2>1. FlattenSeq(parts) = parts BY <1>3 DEF FlattenSeq
    <2>2. parts = <<>> BY <1>3
    <2> QED BY <1>2, <1>3, <2>1, <2>2
  <1>4. CASE n # 0
    <2>1. parts # <<>> BY <1>4
    <2>2. PICK flatten :
            /\ FlattenSeq(parts) = flatten[n]
            /\ \A i \in 1..n :
                 flatten[i] = IF i = 1 THEN parts[i] ELSE flatten[i - 1] \o parts[i]
      BY <2>1, FlattenSeqIs
    <2> DEFINE U == {m \in 0..n :
                       m = 0 \/ (flatten[m] \in Seq(S) /\ <<flatten[m], m>> \in T)}
    <2>3. 0 \in U BY <1>1
    <2>4. ASSUME NEW m \in 1..n, m - 1 \in U PROVE m \in U
      <3>1. PICK all \in Seq(S) : <<all, m - 1>> \in T /\ flatten[m] = all \o parts[m]
        <4>1. CASE m = 1
          <5>1. flatten[m] = parts[m] BY <2>2, <4>1
          <5>2. <<>> \o parts[m] = parts[m] BY <1>1
          <5>3. m - 1 = 0 BY <4>1
          <5> QED BY <1>2, <5>1, <5>2, <5>3
        <4>2. CASE m # 1
          <5>1. m - 1 # 0 BY <4>2
          <5>2. flatten[m - 1] \in Seq(S) /\ <<flatten[m - 1], m - 1>> \in T
            BY <2>4, <5>1
          <5>3. flatten[m] = flatten[m - 1] \o parts[m] BY <2>2, <4>2
          <5> QED BY <5>2, <5>3
        <4> QED BY <4>1, <4>2
      <3>2. <<all \o parts[m], m>> \in T BY <3>1
      <3>3. all \o parts[m] \in Seq(S) BY <1>1
      <3>4. m \in 0..n BY <1>1
      <3>5. flatten[m] \in Seq(S) /\ <<flatten[m], m>> \in T BY <3>1, <3>2, <3>3
      <3> QED BY <3>4, <3>5
    <2> HIDE DEF U
    <2>5. \A m \in 0..n : m \in U BY <1>1, <2>3, <2>4, UpTo
    <2>6. n \in U BY <1>1, <2>5
    <2> QED BY <1>4, <2>2, <2>6 DEF U
  <1> QED BY <1>3, <1>4

\* all has the elements of the first m parts.
Gathers(all, parts, m) ==
  \A x : x \in ToSet(all) <=> \E k \in 1..m : x \in ToSet(parts[k])

\* The elements of a flattened sequence are those of its parts.
LEMMA FlattenSeqElements ==
  ASSUME NEW S, NEW parts \in Seq(Seq(S))
  PROVE  /\ FlattenSeq(parts) \in Seq(S)
         /\ \A x : x \in ToSet(FlattenSeq(parts)) <=>
              \E k \in 1..Len(parts) : x \in ToSet(parts[k])
  <1> DEFINE n == Len(parts)
             P == Seq(S)
             T == {p \in P \X (0..n) : Gathers(p[1], parts, p[2])}
  <1>1. n \in Nat /\ \A i \in 1..n : parts[i] \in P OBVIOUS
  <1>2. <<<<>>, 0>> \in T
    <2>1. ToSet(<<>>) = {} BY DEF ToSet
    <2>2. Gathers(<<>>, parts, 0) BY <2>1 DEF Gathers
    <2>3. <<>> \in P /\ 0 \in 0..n BY <1>1
    <2> QED BY <2>2, <2>3
  <1>3. ASSUME NEW m \in 1..n, NEW all \in P, <<all, m - 1>> \in T
        PROVE  <<all \o parts[m], m>> \in T
    <2>1. parts[m] \in Seq(S) /\ all \in Seq(S) BY <1>1
    <2>2. /\ all \o parts[m] \in P
          /\ \A x : x \in ToSet(all \o parts[m]) <=>
               x \in ToSet(all) \/ x \in ToSet(parts[m])
      BY <2>1, ConcatElements
    <2>3. Gathers(all, parts, m - 1) BY <1>3
    <2>4. \A k : k \in 1..m <=> k \in 1..(m - 1) \/ k = m OBVIOUS
    <2>5. Gathers(all \o parts[m], parts, m) BY <2>2, <2>3, <2>4 DEF Gathers
    <2>6. m \in 0..n BY <1>1
    <2> QED BY <2>2, <2>5, <2>6
  <1> HIDE DEF T
  <1>4. FlattenSeq(parts) \in Seq(S) /\ <<FlattenSeq(parts), n>> \in T
    BY <1>2, <1>3, FlattenSeqBy
  <1>5. Gathers(FlattenSeq(parts), parts, n) BY <1>4 DEF T
  <1> QED BY <1>4, <1>5 DEF Gathers

Five(a, b, c, d, e) == <<a, b, c, d, e>>

\* The same of five parts.
LEMMA FlattenFive ==
  ASSUME NEW S, NEW a \in Seq(S), NEW b \in Seq(S), NEW c \in Seq(S),
         NEW d \in Seq(S), NEW e \in Seq(S)
  PROVE  /\ FlattenSeq(Five(a, b, c, d, e)) \in Seq(S)
         /\ \A x : x \in ToSet(FlattenSeq(Five(a, b, c, d, e))) <=>
              x \in ToSet(a) \/ x \in ToSet(b) \/ x \in ToSet(c)
                \/ x \in ToSet(d) \/ x \in ToSet(e)
  <1> DEFINE parts == <<a, b, c, d, e>>
  <1>1. parts \in Seq(Seq(S)) OBVIOUS
  <1>2. /\ Len(parts) = 5
        /\ parts[1] = a /\ parts[2] = b /\ parts[3] = c /\ parts[4] = d /\ parts[5] = e
    OBVIOUS
  <1>3. 1..5 = {1, 2, 3, 4, 5} OBVIOUS
  <1> HIDE DEF parts, Five
  <1>4. FlattenSeq(parts) \in Seq(S)
        /\ \A x : x \in ToSet(FlattenSeq(parts)) <=>
             \E k \in 1..Len(parts) : x \in ToSet(parts[k])
    BY <1>1, FlattenSeqElements
  <1>5. \A x : x \in ToSet(FlattenSeq(parts)) <=>
          \E k \in {1, 2, 3, 4, 5} : x \in ToSet(parts[k])
    BY <1>2, <1>3, <1>4
  <1> QED BY <1>2, <1>4, <1>5 DEF parts, Five

-----------------------------------------------------------------------------
(* Values of a file.                                                       *)

\* A value is of one kind.
LEMMA Kinds ==
  ASSUME NEW v \in Values
  PROVE  /\ v[1] \in {"int", "float"} => v[2] \in Int
         /\ v[1] = "text" => v[2] \in Texts
         /\ v[1] = "bool" => v[2] \in BOOLEAN
         /\ \A s : v = Text(s) <=> v[1] = "text" /\ v[2] = s
  <1>1. CASE v = Absent
    <2>1. v[1] = "absent" /\ DOMAIN v = {1} BY <1>1 DEF Absent
    <2>2. \A s : Text(s)[1] = "text" BY DEF Text
    <2> QED BY <2>1, <2>2
  <1>2. CASE v = Other
    <2>1. v[1] = "other" BY <1>2 DEF Other
    <2>2. \A s : Text(s)[1] = "text" BY DEF Text
    <2> QED BY <2>1, <2>2
  <1>3. CASE v \in {"int", "float"} \X Int BY <1>3 DEF Text
  <1>4. CASE v \in {"text"} \X Texts BY <1>4 DEF Text
  <1>5. CASE v \in {"bool"} \X BOOLEAN BY <1>5 DEF Text
  <1> QED BY <1>1, <1>2, <1>3, <1>4, <1>5 DEF Values

\* What is read of a value has the type of the default.
LEMMA ReadTypes ==
  ASSUME NEW v \in Values
  PROVE  /\ \A d \in Texts : TextOr(v, d) \in Texts
         /\ \A d \in BOOLEAN : BoolOr(v, d) \in BOOLEAN
         /\ \A d \in Ints : IntOr(v, d) \in Ints
  <1>1. \A d \in Texts : TextOr(v, d) \in Texts BY Kinds DEF TextOr
  <1>2. \A d \in BOOLEAN : BoolOr(v, d) \in BOOLEAN BY Kinds DEF BoolOr
  <1>3. \A d \in Ints : IntOr(v, d) \in Ints BY DEF IntOr, IsInt
  <1> QED BY <1>1, <1>2, <1>3

\* The conversion to an unsigned number gives one.
LEMMA UnsignedType == \A n \in Ints : Unsigned(n) \in 0..(2 * IntMax + 1)
  BY IntAssumption DEF Ints, Unsigned

-----------------------------------------------------------------------------
(* The configuration of a file.                                            *)

\* One file, with its tables.
Sound(f) ==
  /\ f \in TomlFiles
  /\ AtMostOne(f.server) /\ AtMostOne(f.logging) /\ AtMostOne(f.routes)

\* The default configuration is one.
LEMMA DefaultsType == Defaults \in Configs
  <1> DEFINE Routes == Seq(RouteConfigs)
             Unsigneds == 0..(2 * IntMax + 1)
  <1>1. /\ 8080 \in Unsigneds
        /\ 30 \in Ints /\ 10000 \in Ints /\ 10 \in Ints /\ 3 \in Ints
    BY IntAssumption DEF Ints
  <1>2. <<>> \in Routes OBVIOUS
  <1>3. "VeloxServ" \in Texts /\ "127.0.0.1" \in Texts BY TextsAssumption
  <1>4. Configs = [name : Texts, host : Texts, port : Unsigneds,
                   timeout_seconds : Ints, max_connections : Ints,
                   console_output : BOOLEAN, file_output : BOOLEAN,
                   max_file_size : Ints, max_files : Ints, routes : Routes]
    BY DEF Configs
  <1> HIDE DEF Routes, Unsigneds
  <1> QED BY <1>1, <1>2, <1>3, <1>4 DEF Defaults

\* The keys of [server], read.
ReadsServer(c, t) ==
  /\ c.name = TextOr(t.name, "VeloxServ")
  /\ c.host = TextOr(t.host, "127.0.0.1")
  /\ c.port = Unsigned(IntOr(t.port, 8080))
  /\ c.timeout_seconds = IntOr(t.timeout_seconds, 30)
  /\ c.max_connections = IntOr(t.max_connections, 10000)

DefaultServer(c) ==
  /\ c.name = "VeloxServ" /\ c.host = "127.0.0.1" /\ c.port = 8080
  /\ c.timeout_seconds = 30 /\ c.max_connections = 10000

\* The server's fields are read into a configuration.
LEMMA WithServerReads ==
  ASSUME NEW f, Sound(f), NEW t \in f.server, NEW c \in Configs
  PROVE  /\ WithServer(c, t) \in Configs
         /\ ReadsServer(WithServer(c, t), t)
         /\ WithServer(c, t).routes = c.routes
  <1>1. t \in [name : Values, host : Values, port : Values,
               timeout_seconds : Values, max_connections : Values]
    BY DEF Sound, TomlFiles
  <1>2. 8080 \in Ints /\ 30 \in Ints /\ 10000 \in Ints BY IntAssumption DEF Ints
  <1>3. /\ TextOr(t.name, "VeloxServ") \in Texts
        /\ TextOr(t.host, "127.0.0.1") \in Texts
        /\ Unsigned(IntOr(t.port, 8080)) \in 0..(2 * IntMax + 1)
        /\ IntOr(t.timeout_seconds, 30) \in Ints
        /\ IntOr(t.max_connections, 10000) \in Ints
    <2>1. /\ t.name \in Values /\ t.host \in Values /\ t.port \in Values
          /\ t.timeout_seconds \in Values /\ t.max_connections \in Values
      BY <1>1
    <2>2. "VeloxServ" \in Texts /\ "127.0.0.1" \in Texts BY TextsAssumption
    <2>3. IntOr(t.port, 8080) \in Ints BY <1>2, <2>1, ReadTypes
    <2>4. Unsigned(IntOr(t.port, 8080)) \in 0..(2 * IntMax + 1) BY <2>3, UnsignedType
    <2> QED BY <1>2, <2>1, <2>2, <2>4, ReadTypes
  <1> DEFINE name == TextOr(t.name, "VeloxServ")
             host == TextOr(t.host, "127.0.0.1")
             port == Unsigned(IntOr(t.port, 8080))
             seconds == IntOr(t.timeout_seconds, 30)
             connections == IntOr(t.max_connections, 10000)
  <1>4. WithServer(c, t) = [c EXCEPT !.name = name, !.host = host, !.port = port,
                                     !.timeout_seconds = seconds,
                                     !.max_connections = connections]
    BY DEF WithServer, Seconds
  <1>5. ReadsServer(WithServer(c, t), t) <=>
          /\ WithServer(c, t).name = name /\ WithServer(c, t).host = host
          /\ WithServer(c, t).port = port /\ WithServer(c, t).timeout_seconds = seconds
          /\ WithServer(c, t).max_connections = connections
    BY DEF ReadsServer
  <1> HIDE DEF name, host, port, seconds, connections
  <1>6. /\ name \in Texts /\ host \in Texts /\ port \in 0..(2 * IntMax + 1)
        /\ seconds \in Ints /\ connections \in Ints
    BY <1>3 DEF name, host, port, seconds, connections
  <1> QED BY <1>4, <1>5, <1>6 DEF Configs

\* The switches of [logging], read.
ReadsLogging(c, t) ==
  /\ c.console_output = BoolOr(t.console_output, TRUE)
  /\ c.file_output = BoolOr(t.file_output, TRUE)

\* The logger's fields are read into a configuration.
LEMMA WithLoggingReads ==
  ASSUME NEW f, Sound(f), NEW t \in f.logging, NEW c \in Configs
  PROVE  /\ WithLogging(c, t) \in Configs
         /\ ReadsLogging(WithLogging(c, t), t)
         /\ \A key \in {"name", "host", "port", "timeout_seconds",
                        "max_connections", "routes"} :
              WithLogging(c, t)[key] = c[key]
  <1>1. t \in [console_output : Values, file_output : Values,
               max_file_size : Values, max_files : Values]
    BY DEF Sound, TomlFiles
  <1>2. 10 \in Ints /\ 3 \in Ints BY IntAssumption DEF Ints
  <1>3. /\ BoolOr(t.console_output, TRUE) \in BOOLEAN
        /\ BoolOr(t.file_output, TRUE) \in BOOLEAN
        /\ IntOr(t.max_file_size, 10) \in Ints
        /\ IntOr(t.max_files, 3) \in Ints
    BY <1>1, <1>2, ReadTypes
  <1> DEFINE console == BoolOr(t.console_output, TRUE)
             output == BoolOr(t.file_output, TRUE)
             size == IntOr(t.max_file_size, 10)
             files == IntOr(t.max_files, 3)
  <1>4. WithLogging(c, t) = [c EXCEPT !.console_output = console, !.file_output = output,
                                      !.max_file_size = size, !.max_files = files]
    BY DEF WithLogging
  <1>5. ReadsLogging(WithLogging(c, t), t) <=>
          /\ WithLogging(c, t).console_output = console
          /\ WithLogging(c, t).file_output = output
    BY DEF ReadsLogging
  <1>6. console \in BOOLEAN /\ output \in BOOLEAN /\ size \in Ints /\ files \in Ints
    BY <1>3
  <1> HIDE DEF console, output, size, files
  <1> QED BY <1>4, <1>5, <1>6 DEF Configs

RouteTables == [path : Values, type : Values, root : Values, upstream : Values]

\* A table of the file is read into a route.
LEMMA RouteTyped ==
  ASSUME NEW t \in RouteTables
  PROVE  Route(t) \in RouteConfigs
  <1>1. /\ t.path \in Values /\ t.type \in Values
        /\ t.root \in Values /\ t.upstream \in Values
    BY DEF RouteTables
  <1>2. "" \in Texts /\ "./public" \in Texts BY TextsAssumption
  <1>3. /\ TextOr(t.path, "") \in Texts /\ TextOr(t.root, "./public") \in Texts
        /\ TextOr(t.upstream, "") \in Texts
    BY <1>1, <1>2, ReadTypes
  <1>4. RouteType(TextOr(t.type, "static")) \in {"static", "proxy"} BY DEF RouteType
  <1> QED BY <1>3, <1>4 DEF Route, RouteConfigs

\* A value that is wrong is given as wrong: the defaults are right.
LEMMA WrongText ==
  ASSUME NEW v, NEW A, NEW d \in A
  PROVE  TextOr(v, d) \notin A <=> v[1] = "text" /\ v[2] \notin A
  BY DEF TextOr

\* The fields of a route are what its table gives.
LEMMA RouteOfTable ==
  ASSUME NEW t \in RouteTables
  PROVE  /\ Route(t).path # "" <=> Given(t)
         /\ Given(t) => Route(t).path = t.path[2]
         /\ Route(t).type = "static" <=> t.type # Text("proxy")
         /\ Route(t).root \notin Directories <=>
              t.root[1] = "text" /\ t.root[2] \notin Directories
         /\ Route(t).upstream \notin Addresses <=>
              t.upstream[1] # "text" \/ t.upstream[2] \notin Addresses
  <1>1. /\ t.path \in Values /\ t.type \in Values
        /\ t.root \in Values /\ t.upstream \in Values
    BY DEF RouteTables
  <1>2. /\ Route(t).path = TextOr(t.path, "")
        /\ Route(t).type = RouteType(TextOr(t.type, "static"))
        /\ Route(t).root = TextOr(t.root, "./public")
        /\ Route(t).upstream = TextOr(t.upstream, "")
    BY DEF Route
  <1>3. Given(t) <=> t.path[1] = "text" /\ t.path[2] # ""
    <2>1. t.path = Text("") <=> t.path[1] = "text" /\ t.path[2] = ""
      BY <1>1, Kinds
    <2> QED BY <2>1 DEF Given
  <1>4. t.type = Text("proxy") <=> t.type[1] = "text" /\ t.type[2] = "proxy"
    BY <1>1, Kinds
  <1>5. Route(t).type = "static" <=> t.type # Text("proxy")
    BY <1>2, <1>4 DEF RouteType, TextOr
  <1>6. "./public" \in Directories /\ "" \notin Addresses BY DEF Directories, Addresses
  <1>7. Route(t).root \notin Directories <=>
          t.root[1] = "text" /\ t.root[2] \notin Directories
    <2>1. TextOr(t.root, "./public") \notin Directories <=>
            t.root[1] = "text" /\ t.root[2] \notin Directories
      BY <1>6, WrongText
    <2> QED BY <1>2, <2>1
  <1>8. Route(t).upstream \notin Addresses <=>
          t.upstream[1] # "text" \/ t.upstream[2] \notin Addresses
    BY <1>2, <1>6 DEF TextOr
  <1>9. (Route(t).path # "" <=> Given(t)) /\ (Given(t) => Route(t).path = t.path[2])
    BY <1>2, <1>3 DEF TextOr
  <1> QED BY <1>5, <1>7, <1>8, <1>9

\* One table more with a path counts one more.
LEMMA PlaceStep ==
  ASSUME NEW tables, NEW m \in Nat, m # 0
  PROVE  /\ Place(tables, m - 1) \in Nat
         /\ Place(tables, m) = IF Given(tables[m]) THEN Place(tables, m - 1) + 1
                                                   ELSE Place(tables, m - 1)
  <1> DEFINE A(k) == {j \in 1..k : Given(tables[j])}
  <1>1. IsFiniteSet(A(m - 1)) /\ Cardinality(A(m - 1)) \in Nat
    <2>1. IsFiniteSet(1..(m - 1)) BY FS_Interval
    <2>2. A(m - 1) \subseteq 1..(m - 1) OBVIOUS
    <2> HIDE DEF A
    <2> QED BY <2>1, <2>2, FS_Subset, FS_CardinalityType
  <1>2. A(m) = IF Given(tables[m]) THEN A(m - 1) \cup {m} ELSE A(m - 1)
    <2>1. 1..m = 1..(m - 1) \cup {m} OBVIOUS
    <2> QED BY <2>1
  <1>3. m \notin A(m - 1) OBVIOUS
  <1>4. \A k : Place(tables, k) = Cardinality(A(k)) BY DEF Place
  <1> HIDE DEF A
  <1>5. Cardinality(A(m - 1) \cup {m}) = Cardinality(A(m - 1)) + 1
    BY <1>1, <1>3, FS_AddElement
  <1> QED BY <1>1, <1>2, <1>4, <1>5

\* No more tables have a path than there are.
LEMMA PlaceBound == \A tables : \A n \in Nat : Place(tables, 0) = 0 /\ Place(tables, n) \in 0..n
  <1> TAKE tables
  <1> TAKE n \in Nat
  <1> DEFINE T == {m \in 0..n : Place(tables, m) \in 0..m}
  <1>1. Place(tables, 0) = 0
    <2>1. {j \in 1..0 : Given(tables[j])} = {} OBVIOUS
    <2> QED BY <2>1, FS_EmptySet DEF Place
  <1>2. 0 \in T BY <1>1
  <1>3. ASSUME NEW m \in 1..n, m - 1 \in T PROVE m \in T
    <2>1. m \in Nat /\ m # 0 OBVIOUS
    <2> QED BY <1>3, <2>1, PlaceStep
  <1> HIDE DEF T
  <1>4. n \in T BY <1>2, <1>3, UpTo
  <1> QED BY <1>1, <1>4 DEF T

\* The routes of the first m tables, at the places of those with a path.
RoutesOf(routes, tables, m) ==
  /\ Len(routes) = Place(tables, m)
  /\ \A k \in 1..m : Given(tables[k]) =>
       /\ Place(tables, k) \in 1..Len(routes)
       /\ routes[Place(tables, k)] = Route(tables[k])
  /\ \A i \in 1..Len(routes) : \E k \in 1..m : Given(tables[k]) /\ i = Place(tables, k)

\* One table more.
LEMMA RoutesOneMore ==
  ASSUME NEW tables, NEW m \in Nat, m # 0, tables[m] \in RouteTables,
         NEW all \in Seq(RouteConfigs), RoutesOf(all, tables, m - 1)
  PROVE  RoutesOf(all \o Kept(Route(tables[m])), tables, m)
  <1> DEFINE n == Len(all)
             P(k) == Place(tables, k)
  <1>1. n \in Nat /\ \A k : k \in 1..m <=> k \in 1..(m - 1) \/ k = m OBVIOUS
  <1>2. n = P(m - 1) /\ P(m) = IF Given(tables[m]) THEN n + 1 ELSE n
    BY PlaceStep DEF RoutesOf
  <1>3. /\ \A k \in 1..(m - 1) : Given(tables[k]) =>
             P(k) \in 1..n /\ all[P(k)] = Route(tables[k])
        /\ \A i \in 1..n : \E k \in 1..(m - 1) : Given(tables[k]) /\ i = P(k)
    BY DEF RoutesOf
  <1>4. Route(tables[m]).path # "" <=> Given(tables[m]) BY RouteOfTable
  <1>5. CASE ~Given(tables[m])
    <2>1. Kept(Route(tables[m])) = <<>> BY <1>4, <1>5 DEF Kept
    <2>2. all \o <<>> = all OBVIOUS
    <2>3. RoutesOf(all, tables, m)
      <3> HIDE DEF P
      <3> QED BY <1>1, <1>2, <1>3, <1>5 DEF RoutesOf, P
    <2> QED BY <2>1, <2>2, <2>3
  <1>6. CASE Given(tables[m])
    <2>1. PICK r \in RouteConfigs : r = Route(tables[m]) BY RouteTyped
    <2>2. Kept(Route(tables[m])) = <<r>> BY <1>4, <1>6, <2>1 DEF Kept
    <2> DEFINE more == all \o <<r>>
    <2>3. /\ Len(more) = n + 1 /\ more[n + 1] = r
          /\ \A i \in 1..n : more[i] = all[i]
      OBVIOUS
    <2> HIDE DEF more, P
    <2>4. ASSUME NEW k \in 1..m, Given(tables[k])
          PROVE  P(k) \in 1..Len(more) /\ more[P(k)] = Route(tables[k])
      <3>1. CASE k = m BY <1>1, <1>2, <1>6, <2>1, <2>3, <3>1
      <3>2. CASE k # m
        <4>1. P(k) \in 1..n /\ all[P(k)] = Route(tables[k])
          BY <1>1, <1>3, <2>4, <3>2
        <4> QED BY <1>1, <2>3, <4>1
      <3> QED BY <3>1, <3>2
    <2>5. ASSUME NEW i \in 1..Len(more)
          PROVE  \E k \in 1..m : Given(tables[k]) /\ i = P(k)
      <3>1. CASE i = n + 1 BY <1>1, <1>2, <1>6, <3>1
      <3>2. CASE i # n + 1
        <4>1. i \in 1..n BY <1>1, <2>3, <3>2
        <4> QED BY <1>1, <1>3, <4>1
      <3> QED BY <3>1, <3>2
    <2>6. Len(more) = P(m) BY <1>2, <1>6, <2>3
    <2>7. RoutesOf(more, tables, m) BY <2>4, <2>5, <2>6 DEF RoutesOf, P
    <2> QED BY <2>2, <2>7 DEF more
  <1> QED BY <1>5, <1>6

\* The tables with a path make the routes of a configuration.
LEMMA WithRoutesReads ==
  ASSUME NEW f, Sound(f), NEW tables \in f.routes, NEW c \in Configs
  PROVE  /\ WithRoutes(c, tables) \in Configs
         /\ \A key \in {"name", "host", "port", "timeout_seconds", "max_connections",
                        "console_output", "file_output"} :
              WithRoutes(c, tables)[key] = c[key]
         /\ RoutesOf(WithRoutes(c, tables).routes, tables, Len(tables))
  <1> DEFINE parts == [i \in DOMAIN tables |-> Kept(Route(tables[i]))]
             routes == FlattenSeq(parts)
             n == Len(tables)
             R == Seq(RouteConfigs)
             T == {p \in R \X (0..n) : RoutesOf(p[1], tables, p[2])}
  <1>1. /\ n \in Nat /\ DOMAIN tables = 1..n
        /\ \A i \in 1..n : tables[i] \in RouteTables
    <2>1. tables \in Seq(RouteTables) BY DEF Sound, TomlFiles, RouteTables
    <2> HIDE DEF RouteTables
    <2> QED BY <2>1
  <1>2. ASSUME NEW i \in 1..n PROVE Kept(Route(tables[i])) \in R
    <2>1. PICK r \in RouteConfigs : r = Route(tables[i]) BY <1>1, RouteTyped
    <2>2. <<>> \in R /\ <<r>> \in R OBVIOUS
    <2> HIDE DEF R
    <2> QED BY <2>1, <2>2 DEF Kept
  <1>3. /\ parts \in Seq(R) /\ Len(parts) = n
        /\ \A i \in 1..n : parts[i] = Kept(Route(tables[i]))
    <2> HIDE DEF R
    <2> QED BY <1>1, <1>2
  <1> HIDE DEF parts
  <1>4. <<<<>>, 0>> \in T
    <2>1. Len(<<>>) = 0 /\ 1..0 = {} /\ <<>> \in R /\ 0 \in 0..n BY <1>1
    <2>2. Place(tables, 0) = 0 BY PlaceBound
    <2>3. RoutesOf(<<>>, tables, 0) BY <2>1, <2>2 DEF RoutesOf
    <2>4. <<<<>>, 0>> \in R \X (0..n)
      <3> HIDE DEF R
      <3> QED BY <2>1
    <2>5. <<<<>>, 0>>[1] = <<>> /\ <<<<>>, 0>>[2] = 0 OBVIOUS
    <2> QED BY <2>3, <2>4, <2>5
  <1>5. ASSUME NEW m \in 1..n, NEW all \in R, <<all, m - 1>> \in T
        PROVE  <<all \o parts[m], m>> \in T
    <2>1. m \in Nat /\ m # 0 /\ m \in 0..n BY <1>1
    <2>2. RoutesOf(all, tables, m - 1) BY <1>5
    <2>3. RoutesOf(all \o parts[m], tables, m)
      <3> HIDE DEF T
      <3> QED BY <1>1, <1>3, <2>1, <2>2, RoutesOneMore
    <2>4. all \o parts[m] \in R
      <3>1. parts[m] \in R BY <1>2, <1>3
      <3> QED BY <3>1
    <2> QED BY <2>1, <2>3, <2>4
  <1> HIDE DEF T
  <1>6. routes \in R /\ <<routes, n>> \in T
    <2>1. /\ parts \in Seq(Seq(RouteConfigs))
          /\ \A m \in 1..Len(parts) : \A all \in Seq(RouteConfigs) :
               <<all, m - 1>> \in T => <<all \o parts[m], m>> \in T
      BY <1>3, <1>5
    <2> QED BY <1>3, <1>4, <2>1, FlattenSeqBy
  <1>7. RoutesOf(routes, tables, n) BY <1>6 DEF T
  <1>8. WithRoutes(c, tables) = [c EXCEPT !.routes = routes] BY DEF WithRoutes, parts
  <1> HIDE DEF routes
  <1>9. /\ WithRoutes(c, tables) \in Configs
        /\ \A key \in {"name", "host", "port", "timeout_seconds", "max_connections",
                       "console_output", "file_output"} :
             WithRoutes(c, tables)[key] = c[key]
        /\ WithRoutes(c, tables).routes = routes
    BY <1>6, <1>8 DEF Configs
  <1> QED BY <1>7, <1>9

\* What is loaded of a file: the keys of its tables, or the defaults.
LEMMA Loads ==
  ASSUME NEW f, Sound(f)
  PROVE  /\ Load(f) \in Configs
         /\ \A t \in f.server : ReadsServer(Load(f), t)
         /\ f.server = {} => DefaultServer(Load(f))
         /\ \A t \in f.logging : ReadsLogging(Load(f), t)
         /\ f.routes = {} => Load(f).routes = <<>>
         /\ \A tables \in f.routes : RoutesOf(Load(f).routes, tables, Len(tables))
  <1> DEFINE a == IF f.server = {} THEN Defaults
                  ELSE WithServer(Defaults, CHOOSE t \in f.server : TRUE)
             b == IF f.logging = {} THEN a
                  ELSE WithLogging(a, CHOOSE t \in f.logging : TRUE)
             c == IF f.routes = {} THEN b
                  ELSE WithRoutes(b, CHOOSE t \in f.routes : TRUE)
  <1>1. Load(f) = c BY DEF Load
  <1>2. /\ a \in Configs /\ a.routes = <<>>
        /\ \A t \in f.server : ReadsServer(a, t)
        /\ f.server = {} => DefaultServer(a)
    <2>1. CASE f.server = {}
      BY <2>1, DefaultsType DEF Defaults, DefaultServer
    <2>2. CASE f.server # {}
      <3>1. PICK t \in f.server : a = WithServer(Defaults, t)
        <4>1. (CHOOSE t \in f.server : TRUE) \in f.server BY <2>2
        <4> QED BY <2>2, <4>1
      <3>2. f.server = {t} BY <3>1 DEF Sound, AtMostOne
      <3>3. Defaults.routes = <<>> BY DEF Defaults
      <3> HIDE DEF a
      <3> QED BY <2>2, <3>1, <3>2, <3>3, WithServerReads, DefaultsType
    <2> QED BY <2>1, <2>2
  <1> HIDE DEF a
  <1>3. /\ b \in Configs
        /\ \A key \in {"name", "host", "port", "timeout_seconds",
                       "max_connections", "routes"} : b[key] = a[key]
        /\ \A t \in f.logging : ReadsLogging(b, t)
    <2>1. CASE f.logging = {} BY <1>2, <2>1
    <2>2. CASE f.logging # {}
      <3>1. PICK t \in f.logging : b = WithLogging(a, t)
        <4>1. (CHOOSE t \in f.logging : TRUE) \in f.logging BY <2>2
        <4> QED BY <2>2, <4>1
      <3>2. f.logging = {t} BY <3>1 DEF Sound, AtMostOne
      <3> HIDE DEF b
      <3> QED BY <1>2, <3>1, <3>2, WithLoggingReads
    <2> QED BY <2>1, <2>2
  <1> HIDE DEF b
  <1>4. /\ c \in Configs
        /\ \A key \in {"name", "host", "port", "timeout_seconds", "max_connections",
                       "console_output", "file_output"} : c[key] = b[key]
        /\ f.routes = {} => c.routes = b.routes
        /\ \A tables \in f.routes : RoutesOf(c.routes, tables, Len(tables))
    <2>1. CASE f.routes = {} BY <1>3, <2>1
    <2>2. CASE f.routes # {}
      <3>1. PICK t \in f.routes : c = WithRoutes(b, t)
        <4>1. (CHOOSE t \in f.routes : TRUE) \in f.routes BY <2>2
        <4> QED BY <2>2, <4>1
      <3>2. f.routes = {t} BY <3>1 DEF Sound, AtMostOne
      <3> HIDE DEF c
      <3> QED BY <1>3, <2>2, <3>1, <3>2, WithRoutesReads
    <2> QED BY <2>1, <2>2
  <1> HIDE DEF c
  <1>5. /\ c.name = a.name /\ c.host = a.host /\ c.port = a.port
        /\ c.timeout_seconds = a.timeout_seconds
        /\ c.max_connections = a.max_connections
        /\ c.console_output = b.console_output /\ c.file_output = b.file_output
        /\ b.routes = a.routes
    BY <1>3, <1>4
  <1>6. ASSUME NEW t \in f.server PROVE ReadsServer(c, t)
    <2>1. ReadsServer(a, t) BY <1>2
    <2> QED BY <1>5, <2>1 DEF ReadsServer
  <1>7. f.server = {} => DefaultServer(c) BY <1>2, <1>5 DEF DefaultServer
  <1>8. ASSUME NEW t \in f.logging PROVE ReadsLogging(c, t)
    <2>1. ReadsLogging(b, t) BY <1>3
    <2> QED BY <1>5, <2>1 DEF ReadsLogging
  <1>9. f.routes = {} => c.routes = <<>> BY <1>2, <1>4, <1>5
  <1> QED BY <1>1, <1>4, <1>6, <1>7, <1>8, <1>9

-----------------------------------------------------------------------------
(* The diagnostics.                                                        *)

\* add_error tells a field when it is wrong.
LEMMA ToldElements ==
  ASSUME NEW field \in Fields, NEW wrong \in BOOLEAN
  PROVE  /\ Told(wrong, field) \in Seq(Fields)
         /\ \A x : x \in ToSet(Told(wrong, field)) <=> wrong /\ x = field
  <1>1. CASE wrong
    <2>1. Told(wrong, field) = <<field>> BY <1>1 DEF Told
    <2>2. <<field>> \in Seq(Fields) /\ ToSet(<<field>>) = {field}
      <3>1. Len(<<field>>) = 1 /\ <<field>>[1] = field /\ DOMAIN <<field>> = {1} OBVIOUS
      <3> QED BY <3>1 DEF ToSet
    <2> QED BY <1>1, <2>1, <2>2
  <1>2. CASE ~wrong
    <2>1. Told(wrong, field) = <<>> BY <1>2 DEF Told
    <2>2. <<>> \in Seq(Fields) /\ ToSet(<<>>) = {} BY DEF ToSet
    <2> QED BY <1>2, <2>1, <2>2
  <1> QED BY <1>1, <1>2

\* What is wrong with the server part of a configuration.
WrongServer(c, x) ==
  \/ x = "host" /\ c.host \notin Addresses
  \/ x = "port" /\ (c.port < 1 \/ c.port > 65535)
  \/ x = "timeout" /\ c.timeout_seconds <= 0
  \/ x = "max_connections" /\ c.max_connections <= 0

\* The server's diagnostics name exactly its fields that are wrong.
LEMMA ServerErrorsTell ==
  ASSUME NEW c \in Configs
  PROVE  /\ ServerErrors(c) \in Seq(Fields)
         /\ \A x : x \in ToSet(ServerErrors(c)) <=> WrongServer(c, x)
  <1> DEFINE w1 == c.host = ""
             w2 == c.host \notin Addresses
             w3 == c.port < 1 \/ c.port > 65535
             w4 == c.timeout_seconds <= 0
             w5 == c.max_connections <= 0
  <1>1. ServerErrors(c) =
          FlattenSeq(<<Told(w1, "host"), Told(w2, "host"), Told(w3, "port"),
                       Told(w4, "timeout"), Told(w5, "max_connections")>>)
    BY DEF ServerErrors
  <1>2. /\ "host" \in Fields /\ "port" \in Fields /\ "timeout" \in Fields
        /\ "max_connections" \in Fields
    BY DEF Fields
  <1>3. /\ w1 \in BOOLEAN /\ w2 \in BOOLEAN /\ w3 \in BOOLEAN
        /\ w4 \in BOOLEAN /\ w5 \in BOOLEAN
    OBVIOUS
  <1> HIDE DEF w1, w2, w3, w4, w5
  <1>4. /\ Told(w1, "host") \in Seq(Fields)
        /\ \A x : x \in ToSet(Told(w1, "host")) <=> w1 /\ x = "host"
    BY <1>2, <1>3, ToldElements
  <1>5. /\ Told(w2, "host") \in Seq(Fields)
        /\ \A x : x \in ToSet(Told(w2, "host")) <=> w2 /\ x = "host"
    BY <1>2, <1>3, ToldElements
  <1>6. /\ Told(w3, "port") \in Seq(Fields)
        /\ \A x : x \in ToSet(Told(w3, "port")) <=> w3 /\ x = "port"
    BY <1>2, <1>3, ToldElements
  <1>7. /\ Told(w4, "timeout") \in Seq(Fields)
        /\ \A x : x \in ToSet(Told(w4, "timeout")) <=> w4 /\ x = "timeout"
    BY <1>2, <1>3, ToldElements
  <1>8. /\ Told(w5, "max_connections") \in Seq(Fields)
        /\ \A x : x \in ToSet(Told(w5, "max_connections")) <=> w5 /\ x = "max_connections"
    BY <1>2, <1>3, ToldElements
  <1>9. /\ ServerErrors(c) \in Seq(Fields)
        /\ \A x : x \in ToSet(ServerErrors(c)) <=>
             \/ x = "host" /\ (w1 \/ w2)
             \/ x = "port" /\ w3
             \/ x = "timeout" /\ w4
             \/ x = "max_connections" /\ w5
    <2> DEFINE t1 == Told(w1, "host")
               t2 == Told(w2, "host")
               t3 == Told(w3, "port")
               t4 == Told(w4, "timeout")
               t5 == Told(w5, "max_connections")
    <2>1. ServerErrors(c) = FlattenSeq(Five(t1, t2, t3, t4, t5)) BY <1>1 DEF Five
    <2>2. /\ t1 \in Seq(Fields) /\ t2 \in Seq(Fields) /\ t3 \in Seq(Fields)
          /\ t4 \in Seq(Fields) /\ t5 \in Seq(Fields)
      BY <1>4, <1>5, <1>6, <1>7, <1>8
    <2>3. \A x : /\ x \in ToSet(t1) <=> w1 /\ x = "host"
                 /\ x \in ToSet(t2) <=> w2 /\ x = "host"
                 /\ x \in ToSet(t3) <=> w3 /\ x = "port"
                 /\ x \in ToSet(t4) <=> w4 /\ x = "timeout"
                 /\ x \in ToSet(t5) <=> w5 /\ x = "max_connections"
      BY <1>4, <1>5, <1>6, <1>7, <1>8
    <2> HIDE DEF t1, t2, t3, t4, t5
    <2>4. /\ FlattenSeq(Five(t1, t2, t3, t4, t5)) \in Seq(Fields)
          /\ \A x : x \in ToSet(FlattenSeq(Five(t1, t2, t3, t4, t5))) <=>
               x \in ToSet(t1) \/ x \in ToSet(t2) \/ x \in ToSet(t3)
                 \/ x \in ToSet(t4) \/ x \in ToSet(t5)
      BY <2>2, FlattenFive
    <2> QED BY <2>1, <2>3, <2>4
  <1>10. \A x : WrongServer(c, x) <=>
           \/ x = "host" /\ (w1 \/ w2)
           \/ x = "port" /\ w3
           \/ x = "timeout" /\ w4
           \/ x = "max_connections" /\ w5
    <2> TAKE x
    <2>1. x = "host" => (WrongServer(c, x) <=> w1 \/ w2)
      <3>1. w1 \/ w2 <=> c.host \notin Addresses BY DEF w1, w2, Addresses
      <3>2. x = "host" => (WrongServer(c, x) <=> c.host \notin Addresses)
        BY DEF WrongServer
      <3> QED BY <3>1, <3>2
    <2>2. x = "port" => (WrongServer(c, x) <=> w3) BY DEF WrongServer, w3
    <2>3. x = "timeout" => (WrongServer(c, x) <=> w4) BY DEF WrongServer, w4
    <2>4. x = "max_connections" => (WrongServer(c, x) <=> w5) BY DEF WrongServer, w5
    <2>5. x # "host" /\ x # "port" /\ x # "timeout" /\ x # "max_connections"
            => ~WrongServer(c, x)
      BY DEF WrongServer
    <2> QED BY <2>1, <2>2, <2>3, <2>4, <2>5
  <1> QED BY <1>9, <1>10

\* What is wrong with a route of a configuration.
LEMMA RouteErrorsTell ==
  ASSUME NEW r
  PROVE  /\ RouteErrors(r) \in Seq(Fields)
         /\ \A x : x \in ToSet(RouteErrors(r)) <=>
              \/ x = "path" /\ r.path \notin Rooted
              \/ x = "root" /\ r.type = "static" /\ r.root \notin Directories
              \/ x = "type" /\ r.type # "static"
              \/ x = "upstream" /\ r.type # "static" /\ r.upstream \notin Addresses
  <1> DEFINE static == r.type = "static"
             w1 == r.path \notin Rooted
             w2 == static /\ (r.root = "" \/ r.root \notin Directories)
             w3 == ~static
             w4 == ~static /\ r.upstream = ""
             w5 == ~static /\ r.upstream \notin Addresses
  <1>1. RouteErrors(r) =
          FlattenSeq(<<Told(w1, "path"), Told(w2, "root"), Told(w3, "type"),
                       Told(w4, "upstream"), Told(w5, "upstream")>>)
    BY DEF RouteErrors
  <1>2. "path" \in Fields /\ "root" \in Fields /\ "type" \in Fields /\ "upstream" \in Fields
    BY DEF Fields
  <1>3. /\ w1 \in BOOLEAN /\ w2 \in BOOLEAN /\ w3 \in BOOLEAN
        /\ w4 \in BOOLEAN /\ w5 \in BOOLEAN
    OBVIOUS
  <1> HIDE DEF w1, w2, w3, w4, w5
  <1>4. /\ Told(w1, "path") \in Seq(Fields)
        /\ \A x : x \in ToSet(Told(w1, "path")) <=> w1 /\ x = "path"
    BY <1>2, <1>3, ToldElements
  <1>5. /\ Told(w2, "root") \in Seq(Fields)
        /\ \A x : x \in ToSet(Told(w2, "root")) <=> w2 /\ x = "root"
    BY <1>2, <1>3, ToldElements
  <1>6. /\ Told(w3, "type") \in Seq(Fields)
        /\ \A x : x \in ToSet(Told(w3, "type")) <=> w3 /\ x = "type"
    BY <1>2, <1>3, ToldElements
  <1>7. /\ Told(w4, "upstream") \in Seq(Fields)
        /\ \A x : x \in ToSet(Told(w4, "upstream")) <=> w4 /\ x = "upstream"
    BY <1>2, <1>3, ToldElements
  <1>8. /\ Told(w5, "upstream") \in Seq(Fields)
        /\ \A x : x \in ToSet(Told(w5, "upstream")) <=> w5 /\ x = "upstream"
    BY <1>2, <1>3, ToldElements
  <1>9. /\ RouteErrors(r) \in Seq(Fields)
        /\ \A x : x \in ToSet(RouteErrors(r)) <=>
             \/ x = "path" /\ w1
             \/ x = "root" /\ w2
             \/ x = "type" /\ w3
             \/ x = "upstream" /\ (w4 \/ w5)
    <2> DEFINE t1 == Told(w1, "path")
               t2 == Told(w2, "root")
               t3 == Told(w3, "type")
               t4 == Told(w4, "upstream")
               t5 == Told(w5, "upstream")
    <2>1. RouteErrors(r) = FlattenSeq(Five(t1, t2, t3, t4, t5)) BY <1>1 DEF Five
    <2>2. /\ t1 \in Seq(Fields) /\ t2 \in Seq(Fields) /\ t3 \in Seq(Fields)
          /\ t4 \in Seq(Fields) /\ t5 \in Seq(Fields)
      BY <1>4, <1>5, <1>6, <1>7, <1>8
    <2>3. \A x : /\ x \in ToSet(t1) <=> w1 /\ x = "path"
                 /\ x \in ToSet(t2) <=> w2 /\ x = "root"
                 /\ x \in ToSet(t3) <=> w3 /\ x = "type"
                 /\ x \in ToSet(t4) <=> w4 /\ x = "upstream"
                 /\ x \in ToSet(t5) <=> w5 /\ x = "upstream"
      BY <1>4, <1>5, <1>6, <1>7, <1>8
    <2> HIDE DEF t1, t2, t3, t4, t5
    <2>4. /\ FlattenSeq(Five(t1, t2, t3, t4, t5)) \in Seq(Fields)
          /\ \A x : x \in ToSet(FlattenSeq(Five(t1, t2, t3, t4, t5))) <=>
               x \in ToSet(t1) \/ x \in ToSet(t2) \/ x \in ToSet(t3)
                 \/ x \in ToSet(t4) \/ x \in ToSet(t5)
      BY <2>2, FlattenFive
    <2> QED BY <2>1, <2>3, <2>4
  <1>10. /\ w1 <=> r.path \notin Rooted
         /\ w2 <=> r.type = "static" /\ r.root \notin Directories
         /\ w3 <=> r.type # "static"
         /\ w4 \/ w5 <=> r.type # "static" /\ r.upstream \notin Addresses
    BY DEF w1, w2, w3, w4, w5, Directories, Addresses
  <1> QED BY <1>9, <1>10

\* The errors of a route, each with the route's place.
LEMMA AtElements ==
  ASSUME NEW n \in Nat, NEW fields \in Seq(Fields)
  PROVE  /\ At(n, fields) \in Seq(Nat \X Fields)
         /\ \A y : y \in ToSet(At(n, fields)) <=>
              \E x \in ToSet(fields) : y = <<n, x>>
  <1> DEFINE all == At(n, fields)
  <1>1. /\ DOMAIN fields = 1..Len(fields) /\ Len(fields) \in Nat
        /\ \A i \in 1..Len(fields) : fields[i] \in Fields
    OBVIOUS
  <1>2. /\ all \in Seq(Nat \X Fields) /\ DOMAIN all = DOMAIN fields
        /\ \A i \in DOMAIN fields : all[i] = <<n, fields[i]>>
    <2>1. \A i \in 1..Len(fields) : <<n, fields[i]>> \in Nat \X Fields BY <1>1
    <2> QED BY <1>1, <2>1 DEF At
  <1> HIDE DEF all
  <1>3. /\ ToSet(all) = {all[i] : i \in DOMAIN fields}
        /\ ToSet(fields) = {fields[i] : i \in DOMAIN fields}
    BY <1>2 DEF ToSet
  <1>4. ASSUME NEW y \in ToSet(all) PROVE \E x \in ToSet(fields) : y = <<n, x>>
    BY <1>2, <1>3
  <1>5. ASSUME NEW x \in ToSet(fields) PROVE <<n, x>> \in ToSet(all)
    <2>1. PICK i \in DOMAIN fields : x = fields[i] BY <1>3
    <2>2. all[i] = <<n, x>> BY <1>2, <2>1
    <2> QED BY <1>3, <2>2
  <1> QED BY <1>2, <1>4, <1>5 DEF all

\* The validator tells what is wrong with the server, at place 0, and what is
\* wrong with each route, at its place.
LEMMA ValidateTells ==
  ASSUME NEW c \in Configs
  PROVE  /\ Validate(c) \in Seq(Nat \X Fields)
         /\ \A y : y \in ToSet(Validate(c)) <=>
              \/ \E x \in ToSet(ServerErrors(c)) : y = <<0, x>>
              \/ \E n \in 1..Len(c.routes) :
                   \E x \in ToSet(RouteErrors(c.routes[n])) : y = <<n, x>>
  <1> DEFINE routes == c.routes
             S == Nat \X Fields
             server == At(0, ServerErrors(c))
             parts == [n \in DOMAIN routes |-> At(n, RouteErrors(routes[n]))]
             all == server \o FlattenSeq(parts)
  <1>1. Validate(c) = all BY DEF Validate, AllWrong
  <1>2. /\ server \in Seq(S)
        /\ \A y : y \in ToSet(server) <=> \E x \in ToSet(ServerErrors(c)) : y = <<0, x>>
    <2>1. ServerErrors(c) \in Seq(Fields) BY ServerErrorsTell
    <2>2. 0 \in Nat OBVIOUS
    <2> QED BY <2>1, <2>2, AtElements
  <1>3. /\ routes \in Seq(RouteConfigs)
        /\ DOMAIN routes = 1..Len(routes) /\ Len(routes) \in Nat
    BY DEF Configs
  <1>4. /\ parts \in Seq(Seq(S)) /\ Len(parts) = Len(routes)
        /\ \A n \in 1..Len(routes) :
             \A y : y \in ToSet(parts[n]) <=>
               \E x \in ToSet(RouteErrors(routes[n])) : y = <<n, x>>
    <2>1. ASSUME NEW n \in 1..Len(routes)
          PROVE  /\ At(n, RouteErrors(routes[n])) \in Seq(S)
                 /\ \A y : y \in ToSet(At(n, RouteErrors(routes[n]))) <=>
                      \E x \in ToSet(RouteErrors(routes[n])) : y = <<n, x>>
      <3>1. n \in Nat BY <1>3
      <3> QED BY <3>1, RouteErrorsTell, AtElements
    <2>2. /\ DOMAIN parts = 1..Len(routes)
          /\ \A n \in 1..Len(routes) : parts[n] = At(n, RouteErrors(routes[n]))
      BY <1>3
    <2> HIDE DEF S
    <2>3. parts \in Seq(Seq(S)) /\ Len(parts) = Len(routes) BY <1>3, <2>1
    <2> QED BY <2>1, <2>2, <2>3
  <1> HIDE DEF parts, server
  <1>5. /\ FlattenSeq(parts) \in Seq(S)
        /\ \A y : y \in ToSet(FlattenSeq(parts)) <=>
             \E n \in 1..Len(parts) : y \in ToSet(parts[n])
    <2> HIDE DEF S
    <2> QED BY <1>4, FlattenSeqElements
  <1>6. all \in Seq(S) /\ \A y : y \in ToSet(all) <=>
          y \in ToSet(server) \/ y \in ToSet(FlattenSeq(parts))
    <2> DEFINE rest == FlattenSeq(parts)
    <2> HIDE DEF S, rest
    <2>1. server \in Seq(S) /\ rest \in Seq(S) BY <1>2, <1>5 DEF rest
    <2> QED BY <2>1, ConcatElements DEF rest
  <1> HIDE DEF all, S
  <1> QED BY <1>1, <1>2, <1>4, <1>5, <1>6 DEF S

-----------------------------------------------------------------------------
(* The file and what is told of it.                                        *)

\* A number below 1 is read exactly where the file gives one.
LEMMA WrongNumber ==
  ASSUME NEW v, NEW d \in 1..IntMax
  PROVE  IntOr(v, d) <= 0 <=> IntOutside(v, 1..IntMax)
  <1>1. CASE IsInt(v)
    <2>1. PICK n \in Ints : n = Number(v) BY <1>1 DEF IsInt
    <2>2. IntOr(v, d) = n BY <1>1, <2>1 DEF IntOr
    <2>3. \A S : IntOutside(v, S) <=> n \notin S BY <1>1, <2>1 DEF IntOutside
    <2>4. n <= 0 <=> n \notin 1..IntMax BY IntAssumption DEF Ints
    <2> QED BY <2>2, <2>3, <2>4
  <1>2. CASE ~IsInt(v)
    <2>1. IntOr(v, d) = d BY <1>2 DEF IntOr
    <2>2. \A S : ~IntOutside(v, S) BY <1>2 DEF IntOutside
    <2>3. ~(d <= 0) BY IntAssumption
    <2> QED BY <2>1, <2>2, <2>3
  <1> QED BY <1>1, <1>2

\* The ports are the numbers from 1 to 65535.
LEMMA PortsAre == \A n \in Int : n \in Ports <=> 1 <= n /\ n <= 65535
  <1>1. MaxPort \in Nat BY DEF MaxPort
  <1>2. MaxPort = 65535 BY DEF MaxPort
  <1>3. \A n \in Int : n \in Ports <=> 1 <= n /\ n <= MaxPort BY <1>1 DEF Ports
  <1> QED BY <1>2, <1>3

\* A port that is none is read exactly where the file gives one.
LEMMA WrongPort ==
  ASSUME NEW v
  PROVE  Unsigned(IntOr(v, 8080)) \notin Ports <=> IntOutside(v, Ports)
  <1>1. CASE IsInt(v)
    <2>1. PICK n \in Ints : n = Number(v) BY <1>1 DEF IsInt
    <2>2. IntOr(v, 8080) = n BY <1>1, <2>1 DEF IntOr
    <2>3. \A S : IntOutside(v, S) <=> n \notin S BY <1>1, <2>1 DEF IntOutside
    <2>4. Unsigned(n) \notin Ports <=> n \notin Ports
      <3>1. n \in Int /\ -IntMax - 1 <= n BY IntAssumption DEF Ints
      <3>2. CASE n < 0
        <4>1. Unsigned(n) = n + 2 * (IntMax + 1) BY <3>2 DEF Unsigned
        <4>2. Unsigned(n) > 65535 /\ Unsigned(n) \in Int BY <3>1, <4>1, IntAssumption
        <4> QED BY <3>1, <3>2, <4>2, PortsAre
      <3>3. CASE ~(n < 0)
        <4>1. Unsigned(n) = n BY <3>3 DEF Unsigned
        <4> QED BY <4>1
      <3> QED BY <3>2, <3>3
    <2> QED BY <2>2, <2>3, <2>4
  <1>2. CASE ~IsInt(v)
    <2>1. IntOr(v, 8080) = 8080 BY <1>2 DEF IntOr
    <2>2. \A S : ~IntOutside(v, S) BY <1>2 DEF IntOutside
    <2>3. Unsigned(8080) = 8080 /\ 8080 \in Ports BY PortsAre DEF Unsigned
    <2> QED BY <2>1, <2>2, <2>3
  <1> QED BY <1>1, <1>2

\* What is wrong with the server part is what the [server] table has wrong.
LEMMA ServerTells ==
  ASSUME NEW f, Sound(f), NEW x
  PROVE  WrongServer(Load(f), x) <=> \E t \in f.server : x \in WrongInServer(t)
  <1> DEFINE c == Load(f)
  <1>1. /\ \A t \in f.server : ReadsServer(c, t)
        /\ f.server = {} => DefaultServer(c)
    BY Loads
  <1> HIDE DEF c
  <1>2. CASE f.server = {}
    <2>1. c.host = "127.0.0.1" /\ c.port = 8080 /\ c.timeout_seconds = 30
          /\ c.max_connections = 10000
      BY <1>1, <1>2 DEF DefaultServer
    <2>2. c.host \in Addresses BY <2>1 DEF Addresses
    <2>3. ~WrongServer(c, x) BY <2>1, <2>2 DEF WrongServer
    <2> QED BY <1>2, <2>3 DEF c
  <1>3. CASE f.server # {}
    <2>1. PICK t \in f.server : ReadsServer(c, t) BY <1>1, <1>3
    <2>2. f.server = {t} BY <2>1 DEF Sound, AtMostOne
    <2>3. /\ t.host \in Values /\ t.port \in Values
          /\ t.timeout_seconds \in Values /\ t.max_connections \in Values
      <3>1. t \in [name : Values, host : Values, port : Values,
                   timeout_seconds : Values, max_connections : Values]
        BY DEF Sound, TomlFiles
      <3> QED BY <3>1
    <2>4. c.host \notin Addresses <=> t.host[1] = "text" /\ t.host[2] \notin Addresses
      <3>1. c.host = TextOr(t.host, "127.0.0.1") BY <2>1 DEF ReadsServer
      <3>2. "127.0.0.1" \in Addresses BY DEF Addresses
      <3> QED BY <3>1, <3>2, WrongText
    <2>5. c.port < 1 \/ c.port > 65535 <=> IntOutside(t.port, Ports)
      <3>1. c.port = Unsigned(IntOr(t.port, 8080)) BY <2>1 DEF ReadsServer
      <3>2. c.port \in Nat
        <4>1. c \in Configs BY Loads DEF c
        <4> QED BY <4>1, IntAssumption DEF Configs
      <3>3. c.port < 1 \/ c.port > 65535 <=> c.port \notin Ports
        BY <3>2, PortsAre
      <3>4. c.port \notin Ports <=> IntOutside(t.port, Ports)
        BY <3>1, WrongPort
      <3> QED BY <3>3, <3>4
    <2>6. c.timeout_seconds <= 0 <=> IntOutside(t.timeout_seconds, 1..IntMax)
      <3>1. c.timeout_seconds = IntOr(t.timeout_seconds, 30) BY <2>1 DEF ReadsServer
      <3>2. 30 \in 1..IntMax BY IntAssumption
      <3> QED BY <3>1, <3>2, WrongNumber
    <2>7. c.max_connections <= 0 <=> IntOutside(t.max_connections, 1..IntMax)
      <3>1. c.max_connections = IntOr(t.max_connections, 10000) BY <2>1 DEF ReadsServer
      <3>2. 10000 \in 1..IntMax BY IntAssumption
      <3> QED BY <3>1, <3>2, WrongNumber
    <2>8. WrongServer(c, x) <=> x \in WrongInServer(t)
      <3>1. CASE x = "host" BY <2>4, <3>1 DEF WrongServer, WrongInServer
      <3>2. CASE x = "port"
        <4>1. WrongServer(c, x) <=> c.port < 1 \/ c.port > 65535
          BY <3>2 DEF WrongServer
        <4>2. x \in WrongInServer(t) <=> IntOutside(t.port, Ports)
          BY <3>2 DEF WrongInServer
        <4> QED BY <2>5, <4>1, <4>2
      <3>3. CASE x = "timeout" BY <2>6, <3>3 DEF WrongServer, WrongInServer
      <3>4. CASE x = "max_connections" BY <2>7, <3>4 DEF WrongServer, WrongInServer
      <3>5. CASE x # "host" /\ x # "port" /\ x # "timeout" /\ x # "max_connections"
        BY <3>5 DEF WrongServer, WrongInServer
      <3> QED BY <3>1, <3>2, <3>3, <3>4, <3>5
    <2> QED BY <2>2, <2>8 DEF c
  <1> QED BY <1>2, <1>3

\* A route's diagnostics name exactly its fields that are wrong.
LEMMA RouteTells ==
  ASSUME NEW t \in RouteTables, Given(t), NEW x
  PROVE  x \in ToSet(RouteErrors(Route(t))) <=> x \in WrongInRoute(t)
  <1> DEFINE r == Route(t)
  <1>1. /\ r.path = t.path[2]
        /\ r.type = "static" <=> t.type # Text("proxy")
        /\ r.root \notin Directories <=> t.root[1] = "text" /\ t.root[2] \notin Directories
        /\ r.upstream \notin Addresses <=>
             t.upstream[1] # "text" \/ t.upstream[2] \notin Addresses
    BY RouteOfTable
  <1> HIDE DEF r
  <1>2. x \in ToSet(RouteErrors(r)) <=>
          \/ x = "path" /\ r.path \notin Rooted
          \/ x = "root" /\ r.type = "static" /\ r.root \notin Directories
          \/ x = "type" /\ r.type # "static"
          \/ x = "upstream" /\ r.type # "static" /\ r.upstream \notin Addresses
    BY RouteErrorsTell
  <1>3. CASE t.type = Text("proxy") BY <1>1, <1>2, <1>3 DEF WrongInRoute, r
  <1>4. CASE t.type # Text("proxy") BY <1>1, <1>2, <1>4 DEF WrongInRoute, r
  <1> QED BY <1>3, <1>4

-----------------------------------------------------------------------------
(* The invariant of the start.                                             *)

\* Only what load_file returned for the file is the configuration, and only
\* what the validator told of it is thrown.
LoadedInv ==
  /\ file \in Files
  /\ stage \in {"tables", "loaded", "logging", "running", "returned"} => file.parses
  /\ stage \in {"loaded", "logging", "running", "returned"} => config = {Load(file)}
  /\ config # {} => config = {Load(file)} /\ Validate(Load(file)) = <<>>
  /\ stage \in {"logging", "running", "returned"} => \A c \in config : SomeSink(c)
  /\ errors # <<>> => errors = Validate(Load(file))

\* The asynchronous logger is the default one only while the server is made
\* and runs.
AsyncWhileServing == log = "async" => stage \in {"logging", "running"}

\* Every throw and every return of main() passes ~Logger.
LEMMA NextAsyncWhileServing ==
  AsyncWhileServing /\ [Next]_vars => AsyncWhileServing'
  <1> SUFFICES ASSUME AsyncWhileServing, [Next]_vars
      PROVE  AsyncWhileServing'
    OBVIOUS
  <1> USE DEF AsyncWhileServing, LogAfterShutdown, Throw
  <1>1. CASE Parse BY <1>1 DEF Parse
  <1>2. CASE Crash BY <1>2 DEF Crash
  <1>3. CASE LoadFile BY <1>3 DEF LoadFile
  <1>4. CASE InitializeLogger BY <1>4 DEF InitializeLogger
  <1>5. CASE MakeServer BY <1>5 DEF MakeServer
  <1>6. CASE RunThrows BY <1>6 DEF RunThrows
  <1>7. CASE Return BY <1>7 DEF Return
  <1>8. CASE UNCHANGED vars BY <1>8 DEF vars
  <1> QED BY <1>1, <1>2, <1>3, <1>4, <1>5, <1>6, <1>7, <1>8 DEF Next

\* However main() ends short of a crash, the logger's queue was flushed and
\* its thread joined.
THEOREM LoggerDown == Spec => []LoggerDownAtExit
  <1>1. Init => AsyncWhileServing BY DEF Init, AsyncWhileServing
  <1>2. AsyncWhileServing => LoggerDownAtExit
    BY DEF AsyncWhileServing, LoggerDownAtExit
  <1> QED BY <1>1, <1>2, NextAsyncWhileServing, PTL DEF Spec

\* Sound files are started with.
LEMMA FilesAreSound == \A f \in Files : Sound(f)
  BY FilesAssumption DEF Sound

\* The diagnostics are a list of fields with their places.
LEMMA ValidateType == \A f \in Files : Validate(Load(f)) \in Seq(Nat \X Fields)
  BY FilesAreSound, Loads, ValidateTells

\* The invariant holds at the start.
LEMMA InitInv == Init => TypeOK /\ LoadedInv
  <1> SUFFICES ASSUME Init PROVE TypeOK /\ LoadedInv OBVIOUS
  <1>1. file.parses \in BOOLEAN
    BY FilesAreSound DEF Init, Sound, TomlFiles
  <1>2. <<>> \in Seq(Nat \X Fields) OBVIOUS
  <1> QED BY <1>1, <1>2 DEF Init, TypeOK, Stages, LoadedInv

\* A step keeps the type of the variables and the configuration that of the
\* file.
LEMMA NextInv == TypeOK /\ LoadedInv /\ [Next]_vars => TypeOK' /\ LoadedInv'
  <1> SUFFICES ASSUME TypeOK, LoadedInv, [Next]_vars PROVE TypeOK' /\ LoadedInv'
    OBVIOUS
  <1> DEFINE loaded == Load(file)
             told == Validate(loaded)
  <1>1. loaded \in Configs /\ told \in Seq(Nat \X Fields)
    BY FilesAreSound, Loads, ValidateType DEF LoadedInv
  <1> HIDE DEF loaded, told
  <1> USE DEF TypeOK, Stages
  <1>2. /\ file \in Files
        /\ stage \in {"tables", "loaded", "logging", "running", "returned"} => file.parses
        /\ stage \in {"loaded", "logging", "running", "returned"} => config = {loaded}
        /\ config # {} => config = {loaded} /\ told = <<>>
        /\ stage \in {"logging", "running", "returned"} => \A c \in config : SomeSink(c)
        /\ errors # <<>> => errors = told
    BY DEF LoadedInv, loaded, told
  <1>3. SUFFICES
          /\ TypeOK'
          /\ file' = file
          /\ stage' \in {"tables", "loaded", "logging", "running", "returned"} => file.parses
          /\ stage' \in {"loaded", "logging", "running", "returned"} => config' = {loaded}
          /\ config' # {} => config' = {loaded} /\ told = <<>>
          /\ stage' \in {"logging", "running", "returned"} => \A c \in config' : SomeSink(c)
          /\ errors' # <<>> => errors' = told
    BY <1>2 DEF LoadedInv, loaded, told
  <1>4. LogAfterShutdown \in {"async", "bootstrap", "down"} BY DEF LogAfterShutdown
  <1>5. CASE Parse BY <1>2, <1>4, <1>5 DEF Parse, Throw
  <1>6. CASE Crash BY <1>2, <1>4, <1>6 DEF Crash
  <1>7. CASE LoadFile
    <2>1. /\ stage = "tables" /\ file' = file
          /\ \/ Throw /\ UNCHANGED <<config, errors>>
             \/ errors' = told /\ Throw /\ UNCHANGED config
             \/ told = <<>> /\ config' = {loaded} /\ stage' = "loaded"
                /\ UNCHANGED <<errors, log>>
      BY <1>7 DEF LoadFile, loaded, told
    <2>2. CASE Throw /\ UNCHANGED <<config, errors>> BY <1>2, <1>4, <2>1, <2>2 DEF Throw
    <2>3. CASE errors' = told /\ Throw /\ UNCHANGED config
      BY <1>1, <1>2, <1>4, <2>1, <2>3 DEF Throw
    <2>4. CASE told = <<>> /\ config' = {loaded} /\ stage' = "loaded"
               /\ UNCHANGED <<errors, log>>
      BY <1>1, <1>2, <2>1, <2>4
    <2> QED BY <2>1, <2>2, <2>3, <2>4
  <1>8. CASE InitializeLogger
    <2>1. PICK writable \in BOOLEAN, c \in config :
            IF LoggerStarts(c, writable) THEN stage' = "logging" /\ log' = "async" ELSE Throw
      BY <1>8 DEF InitializeLogger
    <2>2. stage = "loaded" /\ UNCHANGED <<file, config, errors>>
      BY <1>8 DEF InitializeLogger
    <2>3. config = {c} BY <1>2, <2>2
    <2>4. CASE LoggerStarts(c, writable)
      <3>1. SomeSink(c) BY <2>4 DEF LoggerStarts
      <3> QED BY <1>2, <2>1, <2>2, <2>3, <2>4, <3>1
    <2>5. CASE ~LoggerStarts(c, writable)
      BY <1>2, <1>4, <2>1, <2>2, <2>5 DEF Throw
    <2> QED BY <2>4, <2>5
  <1>9. CASE MakeServer BY <1>2, <1>4, <1>9 DEF MakeServer, Throw
  <1>10. CASE RunThrows BY <1>2, <1>4, <1>10 DEF RunThrows, Throw
  <1>11. CASE Return BY <1>2, <1>4, <1>11 DEF Return
  <1>12. CASE UNCHANGED vars BY <1>2, <1>12 DEF vars
  <1> QED BY <1>5, <1>6, <1>7, <1>8, <1>9, <1>10, <1>11, <1>12 DEF Next

\* Every variable of the start keeps its type.
THEOREM TypeCorrect == Spec => []TypeOK
  BY InitInv, NextInv, PTL DEF Spec

-----------------------------------------------------------------------------
(* A refused file.                                                         *)

\* What is wrong with a file has a place and a field.
LEMMA WrongPlaces ==
  ASSUME file \in Files, NEW n, NEW x, Wrong(n, x)
  PROVE  n \in Places /\ x \in Fields
  <1>1. \A t : WrongInServer(t) \subseteq Fields BY DEF WrongInServer, Fields
  <1>2. \A t : WrongInRoute(t) \subseteq Fields BY DEF WrongInRoute, Fields
  <1>3. CASE n = 0 /\ \E t \in file.server : x \in WrongInServer(t)
    BY <1>1, <1>3 DEF Places
  <1>4. ASSUME NEW tables \in file.routes, NEW k \in DOMAIN tables,
               n = Place(tables, k), x \in WrongInRoute(tables[k])
        PROVE  n \in Places /\ x \in Fields
    <2>1. tables \in Seq(RouteTables)
      BY FilesAreSound DEF Sound, TomlFiles, RouteTables
    <2>2. k \in Nat /\ k <= Len(tables) /\ Len(tables) \in Nat BY <2>1
    <2>3. Place(tables, k) \in 0..k BY <2>2, PlaceBound
    <2>4. n \in 0..Len(tables) BY <1>4, <2>2, <2>3
    <2> QED BY <1>2, <1>4, <2>4 DEF Places
  <1> QED BY <1>3, <1>4 DEF Wrong

\* What the validator tells of a file is what the file has wrong.
LEMMA ToldIsWrong ==
  ASSUME file \in Files
  PROVE  \A n, x : <<n, x>> \in ToSet(Validate(Load(file))) <=> Wrong(n, x)
  <1> DEFINE c == Load(file)
  <1>1. Sound(file) BY FilesAreSound
  <1>2. /\ c \in Configs
        /\ file.routes = {} => c.routes = <<>>
        /\ \A tables \in file.routes : RoutesOf(c.routes, tables, Len(tables))
    BY <1>1, Loads
  <1>3. ASSUME NEW tables \in file.routes
        PROVE  /\ DOMAIN tables = 1..Len(tables)
               /\ \A k \in 1..Len(tables) : tables[k] \in RouteTables
    <2>1. tables \in Seq(RouteTables) BY <1>1 DEF Sound, TomlFiles, RouteTables
    <2> HIDE DEF RouteTables
    <2> QED BY <2>1
  <1>4. \A x : x \in ToSet(ServerErrors(c)) <=>
                 \E t \in file.server : x \in WrongInServer(t)
    BY <1>1, <1>2, ServerErrorsTell, ServerTells
  <1>5. \A n, x : <<n, x>> \in ToSet(Validate(c)) <=>
          \/ n = 0 /\ x \in ToSet(ServerErrors(c))
          \/ n \in 1..Len(c.routes) /\ x \in ToSet(RouteErrors(c.routes[n]))
    BY <1>2, ValidateTells
  <1> HIDE DEF c
  <1>6. ASSUME NEW n, NEW x,
               n \in 1..Len(c.routes), x \in ToSet(RouteErrors(c.routes[n]))
        PROVE  Wrong(n, x)
    <2>1. PICK tables \in file.routes : TRUE
      <3>1. Len(<<>>) = 0 /\ 1..0 = {} OBVIOUS
      <3> QED BY <1>2, <1>6, <3>1
    <2>2. PICK k \in 1..Len(tables) : Given(tables[k]) /\ n = Place(tables, k)
      BY <1>2, <1>6 DEF RoutesOf
    <2>3. c.routes[n] = Route(tables[k]) BY <1>2, <2>2 DEF RoutesOf
    <2>4. x \in WrongInRoute(tables[k]) BY <1>3, <1>6, <2>2, <2>3, RouteTells
    <2>5. k \in DOMAIN tables BY <1>3
    <2> QED BY <2>2, <2>4, <2>5 DEF Wrong
  <1>7. ASSUME NEW n, NEW x, NEW tables \in file.routes, NEW k \in DOMAIN tables,
               Given(tables[k]), n = Place(tables, k), x \in WrongInRoute(tables[k])
        PROVE  n \in 1..Len(c.routes) /\ x \in ToSet(RouteErrors(c.routes[n]))
    <2>1. k \in 1..Len(tables) /\ tables[k] \in RouteTables BY <1>3
    <2>2. n \in 1..Len(c.routes) /\ c.routes[n] = Route(tables[k])
      BY <1>2, <1>7, <2>1 DEF RoutesOf
    <2> QED BY <1>7, <2>1, <2>2, RouteTells
  <1>8. ASSUME NEW n, NEW x
        PROVE  <<n, x>> \in ToSet(Validate(c)) <=> Wrong(n, x)
    <2>1. ASSUME n = 0, x \in ToSet(ServerErrors(c)) PROVE Wrong(n, x)
      BY <1>4, <2>1 DEF Wrong
    <2>2. ASSUME Wrong(n, x)
          PROVE  \/ n = 0 /\ x \in ToSet(ServerErrors(c))
                 \/ n \in 1..Len(c.routes) /\ x \in ToSet(RouteErrors(c.routes[n]))
      BY <1>4, <1>7, <2>2 DEF Wrong
    <2> QED BY <1>5, <1>6, <2>1, <2>2
  <1> QED BY <1>8 DEF c

\* A refused configuration is refused with every field of the file that is
\* wrong, the server's and each route's with the number of the route, and no
\* other.
THEOREM ToldEveryError == Spec => []TellsEveryError
  <1>1. TypeOK /\ LoadedInv => TellsEveryError
    <2> SUFFICES ASSUME TypeOK, LoadedInv, errors # <<>>
        PROVE  ToSet(errors) = {y \in Places \X Fields : Wrong(y[1], y[2])}
      BY DEF TellsEveryError
    <2>1. errors = Validate(Load(file)) /\ file \in Files BY DEF LoadedInv
    <2>2. \A n, x : <<n, x>> \in ToSet(errors) <=> Wrong(n, x) BY <2>1, ToldIsWrong
    <2>3. \A y \in ToSet(errors) : y \in Nat \X Fields BY DEF TypeOK, ToSet
    <2>4. \A n, x : Wrong(n, x) => n \in Places /\ x \in Fields BY <2>1, WrongPlaces
    <2>5. ASSUME NEW y \in ToSet(errors)
          PROVE  y \in Places \X Fields /\ Wrong(y[1], y[2])
      <3>1. y = <<y[1], y[2]>> BY <2>3
      <3>2. Wrong(y[1], y[2]) BY <2>2, <3>1
      <3> QED BY <2>4, <3>1, <3>2
    <2>6. ASSUME NEW y \in Places \X Fields, Wrong(y[1], y[2])
          PROVE  y \in ToSet(errors)
      <3>1. y = <<y[1], y[2]>> OBVIOUS
      <3> QED BY <2>2, <2>6, <3>1
    <2> QED BY <2>5, <2>6
  <1> QED BY <1>1, InitInv, NextInv, PTL DEF Spec

-----------------------------------------------------------------------------
(* A file that is run.                                                     *)

\* A file of which nothing is told has nothing wrong.
LEMMA NothingTold ==
  ASSUME file \in Files, Validate(Load(file)) = <<>>
  PROVE  /\ \A x : ~WrongServer(Load(file), x)
         /\ \A tables \in file.routes : \A k \in DOMAIN tables :
              Given(tables[k]) => WrongInRoute(tables[k]) = {}
  <1>1. \A n, x : ~Wrong(n, x)
    <2>1. ToSet(<<>>) = {} BY DEF ToSet
    <2> QED BY <2>1, ToldIsWrong
  <1>2. \A t \in file.server : WrongInServer(t) = {} BY <1>1 DEF Wrong
  <1>3. \A x : ~WrongServer(Load(file), x) BY <1>2, FilesAreSound, ServerTells
  <1>4. ASSUME NEW tables \in file.routes, NEW k \in DOMAIN tables,
               Given(tables[k]), NEW x \in WrongInRoute(tables[k])
        PROVE  FALSE
    <2>1. Wrong(Place(tables, k), x) BY <1>4 DEF Wrong
    <2> QED BY <1>1, <2>1
  <1> QED BY <1>3, <1>4

\* Some output of the log is not switched off in the file.
LEMMA SomeOutput ==
  ASSUME NEW c, NEW t, ReadsLogging(c, t), SomeSink(c)
  PROVE  ~(SwitchedOff(t.console_output) /\ SwitchedOff(t.file_output))
  <1>1. \A v : SwitchedOff(v) => BoolOr(v, TRUE) = FALSE
    <2> TAKE v
    <2> HAVE SwitchedOff(v)
    <2>1. CASE v = <<"bool", FALSE>>
      <3>1. v[1] = "bool" /\ v[2] = FALSE BY <2>1
      <3> QED BY <3>1 DEF BoolOr
    <2>2. CASE v = <<"int", 0>>
      <3>1. v[1] = "int" /\ v[2] = 0 BY <2>2
      <3> QED BY <3>1 DEF BoolOr
    <2> QED BY <2>1, <2>2 DEF SwitchedOff, Bool, Integer
  <1> QED BY <1>1 DEF ReadsLogging, SomeSink

\* Routes of which nothing is wrong are served as their tables say.
LEMMA TablesServed ==
  ASSUME file \in Files, Validate(Load(file)) = <<>>, NEW tables \in file.routes
  PROVE  ServesTables(Load(file).routes, tables)
  <1> DEFINE routes == Load(file).routes
  <1>1. Sound(file) BY FilesAreSound
  <1>2. RoutesOf(routes, tables, Len(tables)) BY <1>1, Loads
  <1> HIDE DEF routes
  <1>3. Len(routes) = Place(tables, Len(tables)) BY <1>2 DEF RoutesOf
  <1>4. ASSUME NEW k \in DOMAIN tables, Given(tables[k])
        PROVE  /\ routes[Place(tables, k)].path = tables[k].path[2]
               /\ routes[Place(tables, k)].type = "static"
               /\ tables[k].type # Text("proxy")
               /\ routes[Place(tables, k)].root \in Directories
    <2>1. k \in 1..Len(tables) /\ tables[k] \in RouteTables
      <3>1. tables \in Seq(RouteTables) BY <1>1 DEF Sound, TomlFiles, RouteTables
      <3> HIDE DEF RouteTables
      <3> QED BY <3>1
    <2>2. routes[Place(tables, k)] = Route(tables[k]) BY <1>2, <1>4, <2>1 DEF RoutesOf
    <2>3. PICK t \in RouteTables : t = tables[k] BY <2>1
    <2>4. WrongInRoute(t) = {} BY <1>4, <2>3, NothingTold
    <2>5. t.type # Text("proxy") BY <2>4 DEF WrongInRoute
    <2>6. ~(t.root[1] = "text" /\ t.root[2] \notin Directories)
      BY <2>4, <2>5 DEF WrongInRoute
    <2>7. /\ Route(t).path = t.path[2] /\ Route(t).type = "static"
          /\ Route(t).root \in Directories
      BY <1>4, <2>3, <2>5, <2>6, RouteOfTable
    <2> QED BY <2>2, <2>3, <2>5, <2>7
  <1>5. ServesTables(routes, tables) BY <1>3, <1>4 DEF ServesTables
  <1> QED BY <1>5 DEF routes

\* A server that runs was configured by its file.
THEOREM RunAsConfigured == Spec => []RunsAsConfigured
  <1>1. LoadedInv => RunsAsConfigured
    <2> SUFFICES ASSUME LoadedInv, stage \in {"running", "returned"}
        PROVE  /\ file.parses
               /\ \E c \in config :
                    /\ c.port \in Ports
                    /\ \A t \in file.server : IsInt(t.port) => c.port = Number(t.port)
                    /\ \A t \in file.logging :
                         ~(SwitchedOff(t.console_output) /\ SwitchedOff(t.file_output))
                    /\ \A tables \in file.routes : ServesTables(c.routes, tables)
                    /\ file.routes = {} => c.routes = <<>>
      BY DEF RunsAsConfigured
    <2> DEFINE c == Load(file)
    <2>1. /\ file \in Files /\ file.parses
          /\ config = {c} /\ Validate(c) = <<>> /\ SomeSink(c)
      BY DEF LoadedInv
    <2>2. Sound(file) BY <2>1, FilesAreSound
    <2>3. /\ c \in Configs
          /\ \A t \in file.server : ReadsServer(c, t)
          /\ \A t \in file.logging : ReadsLogging(c, t)
          /\ file.routes = {} => c.routes = <<>>
      BY <2>2, Loads
    <2>4. c.port \in Ports
      <3>1. ~WrongServer(c, "port") BY <2>1, NothingTold
      <3>2. ~(c.port < 1 \/ c.port > 65535) BY <3>1 DEF WrongServer
      <3>3. c.port \in 0..(2 * IntMax + 1) BY <2>3 DEF Configs
      <3> HIDE DEF c
      <3>4. c.port \in Int BY <3>3, IntAssumption
      <3> QED BY <3>2, <3>4, PortsAre
    <2>5. ASSUME NEW t \in file.server, IsInt(t.port)
          PROVE  c.port = Number(t.port)
      <3>1. c.port = Unsigned(IntOr(t.port, 8080)) BY <2>3 DEF ReadsServer
      <3>2. PICK n \in Ints : n = Number(t.port) BY <2>5 DEF IsInt
      <3>3. IntOr(t.port, 8080) = n BY <2>5, <3>2 DEF IntOr
      <3>4. c.port = Unsigned(n) BY <3>1, <3>3
      <3> HIDE DEF c
      <3>5. n \in Int /\ -IntMax - 1 <= n BY IntAssumption DEF Ints
      <3>6. n < 0 => Unsigned(n) > 65535 /\ Unsigned(n) \in Int
        BY <3>5, IntAssumption DEF Unsigned
      <3>7. ~(n < 0) BY <2>4, <3>4, <3>6, PortsAre
      <3> QED BY <3>2, <3>4, <3>7 DEF Unsigned
    <2>6. ASSUME NEW t \in file.logging
          PROVE  ~(SwitchedOff(t.console_output) /\ SwitchedOff(t.file_output))
      BY <2>1, <2>3, SomeOutput
    <2>7. \A tables \in file.routes : ServesTables(c.routes, tables)
      BY <2>1, TablesServed
    <2> HIDE DEF c
    <2> QED BY <2>1, <2>3, <2>4, <2>5, <2>6, <2>7
  <1> QED BY <1>1, InitInv, NextInv, PTL DEF Spec

=============================================================================
