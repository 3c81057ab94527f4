------------------------------ MODULE MimeTypes ------------------------------
(***************************************************************************)
(* The two tables of content types and how each is searched: the mime_type *)
(* of the static file handler, which takes what stands behind the last dot *)
(* of the whole path as it is written, and MimeTypes::from_path, which     *)
(* scans the path's last component backwards and folds case.               *)
(*                                                                         *)
(* Text is a sequence of symbols: "/", ".", ".." and words.                *)
(***************************************************************************)
EXTENDS Naturals, Sequences

CONSTANT Folded  \* from words with capitals to the words without

DEFAULT_MIME_TYPE == "application/octet-stream"

\* The symbols that end with a dot.
Dots == {".", ".."}

\* ascii_lower changes letters: what has some has some afterwards, too, and
\* dots and slashes stay.
ASSUME FoldedAssumption ==
  /\ DOMAIN Folded \cap (Dots \cup {"/"}) = {}
  /\ \A word \in DOMAIN Folded : Folded[word] \notin Dots

\* By the word behind the dot.
MIME_TYPES ==
  [htm |-> "text/html", html |-> "text/html", php |-> "text/html",
   css |-> "text/css", txt |-> "text/plain",
   js |-> "application/javascript", json |-> "application/json",
   png |-> "image/png", jpe |-> "image/jpeg", jpeg |-> "image/jpeg",
   jpg |-> "image/jpeg", gif |-> "image/gif", bmp |-> "image/bmp",
   ico |-> "image/vnd.microsoft.icon", svg |-> "image/svg+xml",
   svgz |-> "image/svg+xml"]

\* The server's own table has the same entries.
mime_types == MIME_TYPES

ascii_lower(text) ==
  [i \in DOMAIN text |-> IF text[i] \in DOMAIN Folded THEN Folded[text[i]] ELSE text[i]]

\* The table's entry for an extension, a dot and one word, if it has one.
Find(table, extension) ==
  IF Len(extension) = 2 /\ extension[1] \in Dots /\ extension[2] \in DOMAIN table
  THEN {table[extension[2]]} ELSE {}

\* The value of an optional, or the default.
OrDefault(found) ==
  IF found = {} THEN DEFAULT_MIME_TYPE ELSE CHOOSE type \in found : TRUE

\* rfind takes the last dot wherever it is.
mime_type(path) ==
  LET dots == {i \in DOMAIN path : path[i] \in Dots}
      pos == CHOOSE i \in dots : \A j \in dots : j <= i
  IN  OrDefault(IF dots = {} THEN {}
                ELSE Find(mime_types, SubSeq(path, pos, Len(path))))

\* The scan stops at a slash, and goes on behind a dot that finds nothing.
from_path(path) ==
  LET found(i) == Find(MIME_TYPES, ascii_lower(SubSeq(path, i, Len(path))))
      hits == {i \in DOMAIN path :
                 /\ path[i] \in Dots /\ found(i) # {}
                 /\ \A j \in i..Len(path) : path[j] # "/"}
  IN  OrDefault(IF hits = {} THEN {}
                ELSE found(CHOOSE i \in hits : \A j \in hits : j <= i))

-----------------------------------------------------------------------------

\* What a file's name says of its type: the word behind its last dot.
TypeOfName(name) ==
  IF Len(name) > 1 /\ name[Len(name) - 1] \in Dots
  THEN OrDefault(Find(MIME_TYPES, SubSeq(name, Len(name) - 1, Len(name))))
  ELSE DEFAULT_MIME_TYPE

=============================================================================
