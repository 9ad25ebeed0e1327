--------------------------- MODULE MCSourceEvidence ---------------------------
(***************************************************************************)
(* What a review gathers from a small repository, and how a small file is  *)
(* cut into chunks.  A behaviour is of one of the two: the evidence takes  *)
(* its chunks as they come.                                                *)
(***************************************************************************)
EXTENDS SourceEvidence, Chunking

VARIABLE work

(***************************************************************************)
(* A small repository: a changed module and a changed script, a sibling    *)
(* that both imports and directory relate, an imported library of two      *)
(* chunks, and a test.                                                     *)
(***************************************************************************)
MCPaths == {"app/main", "app/util", "lib/core", "tests/main", "ui.js", "eslint.config.js", "tsconfig.json"}

MCChunk == <<
  [path |-> "app/main", lines |-> {1, 2}, size |-> 2, symbol |-> "run", mentions |-> {"run"}],
  [path |-> "app/main", lines |-> {3}, size |-> 1, symbol |-> NoSymbol, mentions |-> {}],
  [path |-> "app/util", lines |-> {1}, size |-> 2, symbol |-> "help", mentions |-> {"help"}],
  [path |-> "lib/core", lines |-> {1}, size |-> 1, symbol |-> "core", mentions |-> {"core"}],
  [path |-> "lib/core", lines |-> {2}, size |-> 3, symbol |-> NoSymbol, mentions |-> {}],
  [path |-> "tests/main", lines |-> {1}, size |-> 1, symbol |-> "test", mentions |-> {"run", "test"}],
  [path |-> "ui.js", lines |-> {1}, size |-> 1, symbol |-> "ui", mentions |-> {"help"}]>>

MCSymbols == {"run", "help", "core", "test", "ui"}

MCImports == [p \in MCPaths |-> IF p = "app/main" THEN {"app/util", "lib/core"} ELSE {}]

MCDirectory ==
  [p \in MCPaths |-> CASE p \in {"app/main", "app/util"} -> "app" [] p = "lib/core" -> "lib"
                       [] p = "tests/main" -> "tests" [] OTHER -> "."]

File(path, size) == [path |-> path, size |-> size, indexable |-> TRUE]

MCArchives ==
  LET whole == <<File("app/main", 3), File("app/util", 2), File("lib/core", 4), File("tests/main", 1)>>
      script == <<File("ui.js", 1), File("eslint.config.js", 1),
                  [path |-> "tsconfig.json", size |-> 1, indexable |-> FALSE]>>
  IN {whole, whole \o script, <<File("app/main", 3), File("app/main", 3)>> \o script}

MCChanges ==
  {<<[path |-> "app/main", lines |-> {1, 3}]>>,
   <<[path |-> "ui.js", lines |-> {1}], [path |-> "app/main", lines |-> {2}]>>,
   <<[path |-> "app/util", lines |-> {1}], [path |-> "app/main", lines |-> {3}]>>,
   <<[path |-> "app/main", lines |-> {1, 3}], [path |-> "app/main", lines |-> {2, 3}]>>}

MCRequests ==
  [maxFiles : {3, 6}, maxBytes : {5, 12}, maxFileBytes : {3, 4}, contextChunks : {0, 1, 3, 10},
   contextBytes : {4, 10}, toolOutput : {3}, changes : MCChanges,
   wantContext : {TRUE}, wantTools : {FALSE}, lexical : {TRUE}]
  \cup
  [maxFiles : {3, 6}, maxBytes : {5, 12}, maxFileBytes : {4}, contextChunks : {3},
   contextBytes : {10}, toolOutput : {0, 2, 3}, changes : MCChanges,
   wantContext : BOOLEAN, wantTools : {TRUE}, lexical : BOOLEAN]

(***************************************************************************)
(* Files of up to six lines: functions and classes, one in another, and    *)
(* methods too short to stand alone; any lines blank.                      *)
(***************************************************************************)
Def(start, end, class, inClass) ==
  [start |-> start, end |-> end, class |-> class, inClass |-> inClass]

Layouts == {
  <<>>,
  <<Def(2, 3, FALSE, FALSE)>>,
  <<Def(1, 1, FALSE, FALSE), Def(3, 6, FALSE, FALSE)>>,
  <<Def(2, 6, TRUE, FALSE), Def(3, 3, FALSE, TRUE), Def(4, 6, FALSE, TRUE)>>,
  <<Def(1, 4, TRUE, FALSE), Def(2, 4, TRUE, TRUE), Def(3, 4, FALSE, TRUE)>>,
  <<Def(1, 3, TRUE, FALSE), Def(2, 3, FALSE, TRUE), Def(5, 5, FALSE, FALSE)>>}

MCTexts ==
  [language : {"python"}, parses : {TRUE}, lines : {6}, feeds : {0, 1},
   definitions : Layouts, starts : {{}}, blank : SUBSET (1..7)]
  \cup
  [language : {"python"}, parses : BOOLEAN, lines : {0, 6}, feeds : {0, 1},
   definitions : {<<>>}, starts : {{}}, blank : {{}}]
  \cup
  [language : {"script", "other"}, parses : {TRUE}, lines : {4}, feeds : {0},
   definitions : {<<>>}, starts : SUBSET (1..4), blank : {{}}]

------------------------------------------------------------------------------
NoText == text = CHOOSE t \in Texts : t.lines = 0

NoEvidence == request = (CHOOSE r \in Requests : TRUE) /\ archive = CHOOSE a \in Archives : TRUE

MCInit ==
  /\ \/ work = "gathering" /\ NoText
     \/ work = "chunking" /\ NoEvidence
  /\ Init /\ CutInit

MCNext ==
  /\ UNCHANGED work
  /\ \/ work = "gathering" /\ Next /\ UNCHANGED cutVars
     \/ work = "chunking" /\ CutNext /\ UNCHANGED vars

MCSpec == MCInit /\ [][MCNext]_<<vars, cutVars, work>>
==============================================================================
