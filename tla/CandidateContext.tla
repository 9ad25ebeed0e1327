--------------------------- MODULE CandidateContext ---------------------------
(***************************************************************************)
(* The source a verifier is shown of one finding                           *)
(* (verification_context.build_candidate_context): the function around the *)
(* finding's line, the function of the same qualified name in the base,    *)
(* and up to two helpers, within a byte and a line limit.                  *)
(*                                                                         *)
(* A source is the sizes of its lines and the functions and classes that   *)
(* are in it; a qualified name is the sequence of the names around it.     *)
(***************************************************************************)
EXTENDS Integers, Sequences, FiniteSets, Functions, SequencesExt

CONSTANTS
  Paths, Names,
  PathOrder,              \* where each path sorts
  UnsafePaths,            \* those _safe_path refuses
  MaxBytes, MaxLines      \* max_bytes, max_lines

\* `calls` is the names each line calls; a symbol is some of the lines; a file that is not Python parses to nothing.
Sources ==
  {s \in [sizes : Seq(Nat), calls : Seq(SUBSET Names), parses : BOOLEAN,
          symbols : SUBSET [name : Seq(Names), start : Nat, end : Nat, function : BOOLEAN]] :
     /\ Len(s.calls) = Len(s.sizes)
     /\ \A d \in s.symbols :
          d.name # <<>> /\ 1 <= d.start /\ d.start <= d.end /\ d.end <= Len(s.sizes)}

ASSUME LimitsArePositive ==
  MaxBytes \in Nat \ {0} /\ MaxLines \in Nat \ {0} /\ PathOrder \in [Paths -> Nat]

Smaller(m, n) == IF m < n THEN m ELSE n

Greater(m, n) == IF m < n THEN n ELSE m

------------------------------------------------------------------------------
(***************************************************************************)
(* Regions and snippets.                                                   *)
(***************************************************************************)

\* _enclosing: the shortest function around the line, of equals the later one.
Around(source, line) ==
  {s \in source.symbols : s.function /\ s.start <= line /\ line <= s.end}

Enclosing(source, line) ==
  CHOOSE s \in Around(source, line) :
    \A t \in Around(source, line) :
      \/ s.end - s.start < t.end - t.start
      \/ s.end - s.start = t.end - t.start /\ s.start >= t.start

\* _region: a function, or the whole file.
Region(side, path, source, anchor, symbols) ==
  LET symbol == CHOOSE s \in symbols : TRUE
  IN  [side |-> side, path |-> path, source |-> source, anchor |-> anchor,
       start |-> IF symbols = {} THEN 1 ELSE symbol.start,
       end |-> IF symbols = {} THEN Len(source.sizes) ELSE symbol.end]

\* Some lines of a region, as many on one side of the anchor as on the other unless
\* the region ends before.
Window(region, count) ==
  LET start == Greater(region.start,
                       Smaller(region.anchor - count \div 2, region.end - count + 1))
  IN  <<start, start + count - 1>>

\* _bounded_span: MaxLines of them, or all.
Count(region) == Smaller(MaxLines, region.end - region.start + 1)

\* The bytes of some lines, from the first to the last.
Bytes(source, span) == SumFunctionOnSet(source.sizes, span[1]..span[2])

\* _size.
Size(region) == Bytes(region.source, Window(region, Count(region)))

\* _snippet's loop: while it is too large, a line is dropped from the end that is
\* farther from the anchor, which leaves the window of one line less.
Clip(region, budget) ==
  LET fitting == {count \in 1..Count(region) :
                    Bytes(region.source, Window(region, count)) <= budget}
  IN  Window(region, IF fitting = {} THEN 1 ELSE Max(fitting))

\* _snippet, of the lines that are left; its bytes may still be too many.
Snippet(region, span) ==
  [side |-> region.side, path |-> region.path, start |-> span[1], end |-> span[2],
   bytes |-> Bytes(region.source, span),
   truncated |-> span # <<region.start, region.end>>]

------------------------------------------------------------------------------
(***************************************************************************)
(* The primary regions.                                                    *)
(***************************************************************************)

\* An input: the finding's path and line, the words of its text, the sources by
\* path, the path in the base, the paths helpers may come from, and whether the
\* file is new.
HeadSymbols(in) ==
  LET head == in.head[in.path]
  IN  IF Around(head, in.line) = {} THEN {} ELSE {Enclosing(head, in.line)}

\* Why there is nothing to start from.
Unreachable(in) ==
  CASE in.path \in UnsafePaths -> {"unsafe_head_path"}
    [] in.path \notin UnsafePaths /\ in.path \notin DOMAIN in.head -> {"missing_head_source"}
    [] OTHER -> IF in.line \in 1..Len(in.head[in.path].sizes) THEN {}
                ELSE {"head_line_out_of_range"}

HasBase(in) ==
  /\ ~in.absent /\ in.old \notin UnsafePaths
  /\ in.old \in DOMAIN in.base /\ in.base[in.old].sizes # <<>>

\* Functions of the base with the head function's qualified name.
Counterparts(in) ==
  {s \in in.base[in.old].symbols : s.function /\ \E h \in HeadSymbols(in) : h.name = s.name}

\* The base's function must be exactly one, unless the base does not parse.
BaseFails(in) ==
  HeadSymbols(in) # {} /\ in.base[in.old].parses /\ Cardinality(Counterparts(in)) # 1

HeadRegion(in) == Region("head", in.path, in.head[in.path], in.line, HeadSymbols(in))

BaseRegion(in) ==
  LET base == in.base[in.old]
      counterparts == Counterparts(in)
      counterpart == CHOOSE s \in counterparts : TRUE
      symbol == CHOOSE s \in HeadSymbols(in) : TRUE
  IN  Region("base", in.old, base,
             IF counterparts = {} THEN Smaller(in.line, Len(base.sizes))
             ELSE Smaller(counterpart.end, counterpart.start + in.line - symbol.start),
             counterparts)

Primary(in) ==
  IF HasBase(in) /\ ~BaseFails(in) THEN <<HeadRegion(in), BaseRegion(in)>>
  ELSE <<HeadRegion(in)>>

BaseIssues(in) ==
  IF in.absent THEN {}
  ELSE IF in.old \in UnsafePaths THEN {"unsafe_base_path"}
  ELSE IF ~HasBase(in) THEN {"missing_base_source"}
  ELSE (IF in.base[in.old].parses THEN {} ELSE {"base_parse_failed"})
         \cup (IF BaseFails(in) THEN {"base_symbol"} ELSE {})

\* Slip: the head may take everything.
HeadBudgetAll(primary) == MaxBytes

\* What the head may take: room is kept for the base, at most half.
HeadBudget(primary) ==
  IF Len(primary) = 1 THEN MaxBytes
  ELSE MaxBytes - Smaller(Size(primary[2]), MaxBytes \div 2)

------------------------------------------------------------------------------
(***************************************************************************)
(* Helpers, and the context.                                               *)
(***************************************************************************)

\* The names the head's region calls.
Called(region) ==
  IF ~region.source.parses THEN {}
  ELSE UNION {region.source.calls[l] : l \in region.start..region.end}

Known(in) == {path \in in.related \ UnsafePaths : path \in DOMAIN in.head}

\* Functions of the related files that the code calls or the finding names, but
\* not those inside the primary function.
Helpers(in, region) ==
  {h \in Known(in) \X UNION {in.head[path].symbols : path \in Known(in)} :
     /\ h[2] \in in.head[h[1]].symbols /\ h[2].function
     /\ Last(h[2].name) \in in.words \cup Called(region)
     /\ ~(h[1] = in.path /\ region.start <= h[2].start /\ h[2].end <= region.end)}

\* Called ones first, then module-level ones, then by path and place.
Rank(called, h) ==
  <<IF Last(h[2].name) \in called THEN 0 ELSE 1, IF Len(h[2].name) = 1 THEN 0 ELSE 1,
    PathOrder[h[1]], h[2].start, h[2].end>>

Before(a, b) == \E i \in DOMAIN a : a[i] < b[i] /\ \A j \in 1..(i - 1) : a[j] = b[j]

Foremost(helpers, called) ==
  CHOOSE h \in helpers : \A g \in helpers : ~Before(Rank(called, g), Rank(called, h))

\* The first two, if there are as many.
Chosen(helpers, called) ==
  LET first == Foremost(helpers, called)
      others == helpers \ {first}
  IN  IF helpers = {} THEN <<>>
      ELSE IF others = {} THEN <<first>>
      ELSE <<first, Foremost(others, called)>>

HelperRegion(in, h) == Region("head", h[1], in.head[h[1]], h[2].start, {h[2]})

\* A snippet that fits joins the context, one that does not is noted as lost.
Join(context, snippet, budget, loss) ==
  IF snippet.bytes > budget
  THEN [context EXCEPT !.issues = @ \cup {loss}, !.truncated = TRUE]
  ELSE [context EXCEPT !.snippets = Append(@, snippet), !.left = @ - snippet.bytes,
                       !.truncated = @ \/ snippet.truncated]

Add(context, region, budget, loss) ==
  Join(context, Snippet(region, Clip(region, budget)), budget, loss)

\* With all that is left.
AddRest(context, region, loss) == Add(context, region, context.left, loss)

Empty(issues) ==
  [snippets |-> <<>>, issues |-> issues, truncated |-> FALSE, left |-> MaxBytes]

\* What is known to be missing before the first snippet.
Gaps(in) ==
  BaseIssues(in)
    \cup (IF in.head[in.path].parses THEN {} ELSE {"head_parse_failed"})
    \cup {"unsafe_related_path" : path \in in.related \cap UnsafePaths}
    \cup {"missing_related_source" : path \in (in.related \ UnsafePaths) \ Known(in)}

AddPrimary(context, primary) ==
  LET head == Add(context, primary[1], HeadBudget(primary), "line_exceeds_byte_budget")
  IN  IF Len(primary) = 1 THEN head ELSE AddRest(head, primary[2], "line_exceeds_byte_budget")

AddHelpers(context, in, region) ==
  LET chosen == Chosen(Helpers(in, region), Called(region))
      Added(acc, i) ==
        IF i \notin DOMAIN chosen THEN acc
        ELSE AddRest(acc, HelperRegion(in, chosen[i]), "helper_exceeds_byte_budget")
  IN  Added(Added(context, 1), 2)

\* build_candidate_context.
Context(in) ==
  IF Unreachable(in) # {} THEN Empty(Unreachable(in))
  ELSE AddHelpers(AddPrimary(Empty(Gaps(in)), Primary(in)), in, HeadRegion(in))
==============================================================================
