------------------------------- MODULE Chunking -------------------------------
(***************************************************************************)
(* How a source file is cut into chunks (chunking.chunk_source): a Python  *)
(* file by the classes and functions the parser finds, with what is left   *)
(* over in runs of its own; a script from one declaration to the next.     *)
(*                                                                         *)
(* Lines are counted twice: the parser's lines end at line feeds, while    *)
(* str.splitlines, which the text of a chunk is cut from, also ends one at *)
(* a form feed or a line separator.                                        *)
(***************************************************************************)
EXTENDS Naturals, Sequences, FiniteSets

CONSTANTS
  Texts,                  \* what source files may hold
  MinStandalone           \* _MIN_STANDALONE_LINES

\* `lines` is the parser's count and `feeds` how often splitlines splits one more;
\* `definitions` are those the visit comes to, in its order, each in a class or in
\* none; `starts` are the lines a script's declarations begin on.
Definitions == [start : Nat, end : Nat, class : BOOLEAN, inClass : BOOLEAN]

ASSUME TextsFit ==
  /\ MinStandalone \in Nat
  /\ \A text \in Texts :
       /\ text.language \in {"python", "script", "other"} /\ text.parses \in BOOLEAN
       /\ text.lines \in Nat /\ text.feeds \in Nat
       /\ text.definitions \in Seq(Definitions)
       /\ text.starts \subseteq 1..(text.lines + text.feeds) /\ text.blank \subseteq Nat

\* The parser's definitions are within its lines, and overlap only where one is in
\* a class around it.
ASSUME DefinitionsNest ==
  \A text \in Texts : \A i \in DOMAIN text.definitions :
    LET d == text.definitions[i]
    IN  /\ 1 <= d.start /\ d.start <= d.end /\ d.end <= text.lines
        /\ \A j \in DOMAIN text.definitions \ {i} :
             LET e == text.definitions[j]
             IN  \/ d.end < e.start \/ e.end < d.start
                 \/ d.class /\ d.start <= e.start /\ e.end <= d.end
                 \/ e.class /\ e.start <= d.start /\ d.end <= e.end

VARIABLES
  text,
  visited,                \* definitions visited
  chunks, claimed,        \* as in chunk_python
  cut                     \* whether the file is done

cutVars == <<text, visited, chunks, claimed, cut>>

ChunkOf(kind, start, end) == [kind |-> kind, start |-> start, end |-> end]

\* len(source.splitlines()).
Count == IF text.lines = 0 THEN 0 ELSE text.lines + text.feeds

CutInit ==
  /\ text \in Texts
  /\ visited = 0 /\ chunks = {} /\ claimed = {} /\ cut = FALSE

------------------------------------------------------------------------------
IsPython == ~cut /\ text.language = "python" /\ Count > 0

\* A file that does not parse is one chunk.
Unparsed ==
  /\ IsPython /\ ~text.parses
  /\ chunks' = {ChunkOf("unparsed_module", 1, Count)}
  /\ cut' = TRUE
  /\ UNCHANGED <<text, visited, claimed>>

\* A short method is left to the chunk of its class.
Folded(d) == ~d.class /\ d.inClass /\ d.end - d.start + 1 < MinStandalone

Visit ==
  /\ IsPython /\ text.parses /\ visited < Len(text.definitions)
  /\ LET d == text.definitions[visited + 1]
     IN  /\ chunks' = IF Folded(d) THEN chunks
                      ELSE chunks \cup {ChunkOf(IF d.class THEN "class" ELSE "function",
                                              d.start, d.end)}
         /\ claimed' = IF Folded(d) THEN claimed ELSE claimed \cup (d.start..d.end)
  /\ visited' = visited + 1
  /\ UNCHANGED <<text, cut>>

\* Slip: the last run is forgotten.
RunsForgetLast(numbers) ==
  {r \in numbers \X numbers :
     /\ r[1]..r[2] \subseteq numbers /\ r[1] <= r[2]
     /\ r[1] - 1 \notin numbers /\ r[2] + 1 \notin numbers
     /\ \E n \in numbers : n > r[2]}

\* _contiguous_ranges: the longest runs of consecutive numbers.
Runs(numbers) ==
  {r \in numbers \X numbers :
     /\ r[1]..r[2] \subseteq numbers /\ r[1] <= r[2]
     /\ r[1] - 1 \notin numbers /\ r[2] + 1 \notin numbers}

\* What no definition claims, but for runs of blank lines.
Remain ==
  /\ IsPython /\ text.parses /\ visited = Len(text.definitions)
  /\ chunks' = chunks \cup {ChunkOf("module_level", r[1], r[2]) :
                              r \in {s \in Runs((1..Count) \ claimed) :
                                       ~(s[1]..s[2] \subseteq text.blank)}}
  /\ cut' = TRUE
  /\ UNCHANGED <<text, visited, claimed>>

\* chunk_javascript: what comes before the first declaration, and each declaration
\* up to the next.
Declare ==
  /\ ~cut /\ text.language = "script" /\ Count > 0
  /\ LET Until(start) == CHOOSE end \in start..Count :
                           /\ (start + 1)..end \cap text.starts = {}
                           /\ end = Count \/ end + 1 \in text.starts
         declared == {ChunkOf("declaration", start, Until(start)) : start \in text.starts}
         preamble == IF 1 \in text.starts THEN {}
                     ELSE {ChunkOf("module_level", 1, Until(1))}
     IN  chunks' = declared \cup preamble
  /\ cut' = TRUE
  /\ UNCHANGED <<text, visited, claimed>>

\* An empty file, or one of another language.
Nothing ==
  /\ ~cut /\ (text.language = "other" \/ Count = 0)
  /\ cut' = TRUE
  /\ UNCHANGED <<text, visited, chunks, claimed>>

CutNext == Unparsed \/ Visit \/ Remain \/ Declare \/ Nothing

CutSpec == CutInit /\ [][CutNext]_cutVars

------------------------------------------------------------------------------
\* No line a reviewer may ask about is lost and none is told twice (chunk_python,
\* chunk_javascript): every line that is not blank is in a chunk; two chunks overlap
\* only when one is a class around the other; and a definition that stands alone has
\* a chunk of exactly its lines.
ChunksCover ==
  cut /\ text.language # "other" =>
    /\ \A line \in (1..Count) \ text.blank : \E c \in chunks : line \in c.start..c.end
    /\ \A c, d \in chunks :
         \/ c = d \/ c.start..c.end \cap d.start..d.end = {}
         \/ \E outer \in {c, d} : outer.kind = "class"
              /\ \A inner \in {c, d} : inner.start..inner.end \subseteq outer.start..outer.end
    /\ text.language = "python" /\ text.parses =>
         \A i \in DOMAIN text.definitions :
           LET d == text.definitions[i]
           IN  \/ ChunkOf(IF d.class THEN "class" ELSE "function", d.start, d.end) \in chunks
               \/ d.inClass /\ d.end - d.start < MinStandalone - 1
==============================================================================
