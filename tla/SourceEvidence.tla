---------------------------- MODULE SourceEvidence ----------------------------
(***************************************************************************)
(* The evidence of one review (review.gather_evidence): the archive of the *)
(* head is downloaded and its indexable sources written to a temporary     *)
(* workspace, within bounds (workspace.extract_source_archive); static     *)
(* analysis runs there (tools.run_static_analysis); the workspace is       *)
(* removed; and the context of the changed regions is retrieved from the   *)
(* sources kept in memory (retrieval.retrieve_context).                    *)
(*                                                                         *)
(* What a file holds is a constant: its chunks, numbered in the order of   *)
(* path and line, with the lines, size, symbol and identifiers of each.    *)
(***************************************************************************)
EXTENDS Integers, Sequences, FiniteSetsExt, Functions

CONSTANTS
  Paths,
  Chunk,                  \* chunk number -> [path, lines, size, symbol, mentions]
  Symbols,                \* names of functions and classes
  Imports,                \* the paths a path's imports resolve to
  Directory,              \* the directory of a path
  TestPaths,              \* _is_test_path
  Python, Script,         \* paths by language: Python, and JavaScript or TypeScript
  EslintConfigs, TsConfig,
  Requests,               \* what gather_evidence may be called with: settings, changes, wishes
  Archives,               \* what the archive may hold: sequences of members
  MaxProblems,            \* bound on what ruff finds
  MaxLikeness             \* bound on a similarity score

Chunks == DOMAIN Chunk

\* A chunk outside any definition has no symbol to look for in tests.
NoSymbol == "module_level"

Weight == [imported_by_changed_file |-> 4, test_for_changed_symbol |-> 3,
           same_directory |-> 2, lexical_similarity |-> 1]

Reasons == DOMAIN Weight

ToolStatuses ==
  {"absent", "ok", "not_applicable", "not_installed", "refused_unsafe", "timed_out", "failed"}

ASSUME ConstantsFit ==
  /\ MaxProblems \in Nat /\ MaxLikeness \in Nat \ {0}
  /\ Chunks \subseteq Nat
  /\ \A c \in Chunks :
       Chunk[c] \in [path : Paths, lines : SUBSET Nat, size : Nat,
                     symbol : Symbols \cup {NoSymbol}, mentions : SUBSET Symbols]
  /\ Imports \in [Paths -> SUBSET Paths]
  /\ \A r \in Requests :
       /\ {r.maxFiles, r.maxBytes, r.maxFileBytes, r.contextBytes, r.contextChunks,
            r.toolOutput} \subseteq Nat
       /\ r.changes \in Seq([path : Paths, lines : SUBSET Nat])
       /\ {r.wantContext, r.wantTools, r.lexical} \subseteq BOOLEAN /\ (r.wantContext \/ r.wantTools)
  /\ Archives \subseteq Seq([path : Paths, size : Nat, indexable : BOOLEAN])

VARIABLES
  request, archive,       \* the call's arguments, and what the archive holds
  phase, failed,          \* what is being done, and whether an exception is on its way out
  at, files, bytes,       \* the member extraction is at, written_files, written_bytes
  disk, sources,          \* paths in the workspace, and in memory
  tools,                  \* the tool runs
  problems, printed,      \* how many problems ruff had to report, how much it printed
  file, todo,             \* the changed file in turn, and its changed chunks still to come
  focus, spent, truncated,
  why, likeness,          \* the candidates' reasons and similarities
  highest,                \* the highest similarity, 1 where there is none
  rest, related           \* candidates still to be kept or left out, and those kept

extraction == <<at, files, bytes, disk, sources>>
analysis   == <<tools, problems, printed>>
retrieval  == <<file, todo, focus, spent, truncated, why, likeness, highest, rest, related>>
vars == <<request, archive, phase, failed, extraction, analysis, retrieval>>

TypeOK ==
  /\ request \in Requests /\ archive \in Archives
  /\ phase \in {"download", "extract", "tools", "leave", "focus", "relate", "rank", "trim",
                "done", "raised"}
  /\ failed \in BOOLEAN
  /\ at \in 1..(Len(archive) + 1) /\ files \in Nat /\ bytes \in Nat
  /\ disk \subseteq Paths /\ sources \subseteq Paths
  /\ tools \in [{"ruff", "eslint", "tsc"} ->
                  [status : ToolStatuses, reported : 0..MaxProblems, checked : SUBSET Paths]]
  /\ problems \in 0..MaxProblems /\ printed \in Nat
  /\ file \in 0..Len(request.changes) /\ todo \subseteq Chunks
  /\ focus \in Seq(Chunks) /\ related \in Seq(Chunks)
  /\ spent \in Nat /\ truncated \in BOOLEAN
  /\ DOMAIN why \subseteq Chunks /\ \A c \in DOMAIN why : why[c] \in Reasons
  /\ highest \in Nat \ {0} /\ likeness \in [DOMAIN why -> 0..highest]
  /\ rest \subseteq DOMAIN why

NotRun == [status |-> "not_applicable", reported |-> 0, checked |-> {}]

Absent == [NotRun EXCEPT !.status = "absent"]

Init ==
  /\ request \in Requests /\ archive \in Archives
  /\ phase = "download" /\ failed = FALSE
  /\ at = 1 /\ files = 0 /\ bytes = 0 /\ disk = {} /\ sources = {}
  /\ tools = [tool \in {"ruff", "eslint", "tsc"} |-> Absent]
  /\ problems = 0 /\ printed = 0
  /\ file = 0 /\ todo = {} /\ focus = <<>> /\ spent = 0 /\ truncated = FALSE
  /\ why = <<>> /\ likeness = <<>> /\ highest = 1 /\ rest = {} /\ related = <<>>

------------------------------------------------------------------------------
(* The archive. *)

Arrive ==
  /\ phase = "download"
  /\ phase' = "extract"
  /\ UNCHANGED <<request, archive, failed, extraction, analysis, retrieval>>

\* GitHubClientError, or TarError at any member: out through the workspace's exit.
Break ==
  /\ phase \in {"download", "extract"}
  /\ failed' = TRUE /\ phase' = "leave"
  /\ UNCHANGED <<request, archive, extraction, analysis, retrieval>>

Member == archive[at]

Extracting == phase = "extract" /\ at <= Len(archive)

Wanted(m) == m.indexable /\ m.size <= request.maxFileBytes

SkipMember ==
  /\ Extracting /\ ~Wanted(Member)
  /\ at' = at + 1
  /\ UNCHANGED <<request, archive, phase, failed, files, bytes, disk, sources, analysis, retrieval>>

\* Slip: the member that overruns the bound is still written.
FitsBefore == files <= request.maxFiles /\ bytes <= request.maxBytes

Fits == files + 1 <= request.maxFiles /\ bytes + Member.size <= request.maxBytes

WriteMember ==
  /\ Extracting /\ Wanted(Member) /\ Fits
  /\ at' = at + 1 /\ files' = files + 1 /\ bytes' = bytes + Member.size
  /\ disk' = disk \cup {Member.path} /\ sources' = sources \cup {Member.path}
  /\ UNCHANGED <<request, archive, phase, failed, analysis, retrieval>>

OverBound ==
  /\ Extracting /\ Wanted(Member) /\ ~Fits
  /\ files' = files + 1 /\ bytes' = bytes + Member.size
  /\ failed' = TRUE /\ phase' = "leave"
  /\ UNCHANGED <<request, archive, at, disk, sources, analysis, retrieval>>

EndArchive ==
  /\ phase = "extract" /\ at > Len(archive)
  /\ phase' = IF request.wantTools THEN "tools" ELSE "leave"
  /\ UNCHANGED <<request, archive, failed, extraction, analysis, retrieval>>

------------------------------------------------------------------------------
(* Static analysis, inside the workspace. *)

ChangedPaths == {request.changes[i].path : i \in DOMAIN request.changes}

\* Changed files the snapshot has.
Present == ChangedPaths \cap disk

\* ruff's answer of n problems, to be read whole, is longer than n.
AnswerSize(n) == n + 2

Clean(n) == [status |-> "ok", reported |-> n, checked |-> Present \cap Python]

\* What is left of `size` bytes printed, at the output cap.
Shown(size) == Min({size, request.toolOutput})

\* Slip: an answer cut at the cap is taken for a clean one.
ReadsCutAsClean(n, size) == IF Shown(size) = AnswerSize(n) THEN Clean(n) ELSE Clean(0)

\* parse_ruff_diagnostics of what is shown: nothing is no problems, the answer is its
\* problems, and what is cut inside is not valid JSON.
Read(n, size) ==
  CASE Shown(size) = 0 -> Clean(0)
    [] Shown(size) = AnswerSize(n) -> Clean(n)
    [] OTHER -> [NotRun EXCEPT !.status = "failed"]

\* The ways _run_ruff ends: no Python, no executable outside the workspace, a
\* timeout or a bad exit code, an answer.
RuffRuns(n, size) ==
  IF Present \cap Python = {} THEN {NotRun}
  ELSE {[NotRun EXCEPT !.status = s] : s \in {"not_installed", "timed_out", "failed"}}
         \cup {Read(n, size)}

\* _javascript_runs: neither tool is ever run, and each says why.
Gate(configs) ==
  IF Present \cap Script = {} THEN Absent
  ELSE IF configs \cap disk = {} THEN NotRun
  ELSE [NotRun EXCEPT !.status = "refused_unsafe"]

Analyse ==
  /\ phase = "tools"
  /\ \E n \in 0..MaxProblems : \E size \in {0, AnswerSize(n)} : \E ruff \in RuffRuns(n, size) :
       /\ problems' = n /\ printed' = size
       /\ tools' = [ruff |-> ruff, eslint |-> Gate(EslintConfigs), tsc |-> Gate({TsConfig})]
  /\ phase' = "leave"
  /\ UNCHANGED <<request, archive, failed, extraction, retrieval>>

\* The workspace is removed on every way out; a similarity or an acceleration that
\* does not exist is refused before anything is retrieved.
LeaveWorkspace ==
  /\ phase = "leave"
  /\ disk' = {}
  /\ phase' = IF failed \/ (request.wantContext /\ ~request.lexical) THEN "raised"
              ELSE IF request.wantContext THEN "focus" ELSE "done"
  /\ UNCHANGED <<request, archive, failed, at, files, bytes, sources, analysis, retrieval>>

------------------------------------------------------------------------------
(* Retrieval: the changed chunks first, within a share of the budget. *)

Indexed == {c \in Chunks : Chunk[c].path \in sources}

\* The chunks a changed file's added lines touch.
Touched(change) == {c \in Indexed : Chunk[c].path = change.path /\ Chunk[c].lines \cap change.lines # {}}

\* int(budget * _FOCUS_BUDGET_SHARE), the rounding of 0.7 left out.
FocusBytes == (request.contextBytes * 7) \div 10

FocusChunks == Max({1, (request.contextChunks * 7) \div 10})

FocusFits(c) == Len(focus) < FocusChunks /\ spent + Chunk[c].size <= FocusBytes

OpenFile ==
  /\ phase = "focus" /\ todo = {} /\ file < Len(request.changes)
  /\ file' = file + 1 /\ todo' = Touched(request.changes[file'])
  /\ UNCHANGED <<request, archive, phase, failed, extraction, analysis,
                 focus, spent, truncated, why, likeness, highest, rest, related>>

\* A touched chunk goes in focus, or is left out and the file's next one tried.
TakeFocus(c) ==
  /\ phase = "focus" /\ c \in todo /\ \A d \in todo : c <= d
  /\ todo' = todo \ {c}
  /\ IF FocusFits(c)
     THEN focus' = Append(focus, c) /\ spent' = spent + Chunk[c].size /\ UNCHANGED truncated
     ELSE truncated' = TRUE /\ UNCHANGED <<focus, spent>>
  /\ UNCHANGED <<request, archive, phase, failed, extraction, analysis,
                 file, why, likeness, highest, rest, related>>

EndFocus ==
  /\ phase = "focus" /\ todo = {} /\ file = Len(request.changes)
  /\ phase' = "relate"
  /\ UNCHANGED <<request, archive, failed, extraction, analysis, retrieval>>

------------------------------------------------------------------------------
(* Related chunks, each with the strongest reason it is offered for. *)

\* `offer`: a chunk keeps the strongest reason it was offered for.
Offer(known, chunks, reason) ==
  [c \in DOMAIN known \cup (chunks \ Range(focus)) |->
     IF c \in DOMAIN known /\ (c \notin chunks \/ Weight[known[c]] >= Weight[reason])
     THEN known[c] ELSE reason]

\* Chunks of files the pull request does not change.
Elsewhere == {c \in Indexed : Chunk[c].path \notin ChangedPaths}

Imported == {c \in Elsewhere : \E p \in ChangedPaths \cap sources : Chunk[c].path \in Imports[p]}

Siblings == {c \in Elsewhere : \E p \in ChangedPaths : Directory[Chunk[c].path] = Directory[p]}

ChangedSymbols ==
  {Chunk[c].symbol : c \in UNION {Touched(request.changes[i]) : i \in DOMAIN request.changes}}
    \ {NoSymbol}

Tests == {c \in Elsewhere : Chunk[c].path \in TestPaths /\ Chunk[c].mentions \cap ChangedSymbols # {}}

Relate ==
  /\ phase = "relate"
  /\ why' = Offer(Offer(Offer(<<>>, Imported, "imported_by_changed_file"), Siblings, "same_directory"),
                  Tests, "test_for_changed_symbol")
  /\ likeness' = [c \in DOMAIN why' |-> 0]
  /\ phase' = "rank"
  /\ UNCHANGED <<request, archive, failed, extraction, analysis,
                 file, todo, focus, spent, truncated, highest, rest, related>>

\* A candidate's similarity is its score, 0 if it has none.
Scored(alike, score, candidates) == [c \in candidates |-> IF c \in alike THEN score[c] ELSE 0]

\* provider.rank: any chunks elsewhere may share identifiers with the focus, to
\* any degree; with nothing in focus there is nothing to compare.
Rank ==
  /\ phase = "rank"
  /\ \E alike \in SUBSET IF focus = <<>> THEN {} ELSE Elsewhere : \E top \in 1..MaxLikeness :
     \E score \in [alike -> 1..top] :
       /\ (alike = {} /\ top = 1) \/ (\E c \in alike : score[c] = top)
       /\ why' = Offer(why, alike, "lexical_similarity")
       /\ likeness' = Scored(alike, score, DOMAIN why') /\ highest' = top
  /\ rest' = DOMAIN why'
  /\ phase' = "trim"
  /\ UNCHANGED <<request, archive, failed, extraction, analysis,
                 file, todo, focus, spent, truncated, related>>

\* Slip: the similarity bonus may be worth more than a tier.
ScoreLifts(c) == (10 * Weight[why[c]]) * highest + 19 * likeness[c]

\* _Candidate.score: the reason's weight and a bonus of 0.9 for the most similar
\* chunk, less in proportion for the others; in units of a tenth of the highest.
Score(c) == (10 * Weight[why[c]]) * highest + 9 * likeness[c]

Precedes(c, d) == Score(c) > Score(d) \/ (Score(c) = Score(d) /\ c <= d)

ContextFull == Len(focus) + Len(related) >= request.contextChunks

ContextFits(c) == spent + Chunk[c].size <= request.contextBytes

Trimming == phase = "trim" /\ rest # {}

StopFull ==
  /\ Trimming /\ ContextFull
  /\ truncated' = TRUE /\ phase' = "done"
  /\ UNCHANGED <<request, archive, failed, extraction, analysis,
                 file, todo, focus, spent, why, likeness, highest, rest, related>>

\* The candidate in turn.
InTurn(c) == Trimming /\ c \in rest /\ \A d \in rest : Precedes(c, d)

LeaveOut(c) ==
  /\ InTurn(c) /\ ~ContextFull /\ ~ContextFits(c)
  /\ truncated' = TRUE /\ rest' = rest \ {c}
  /\ UNCHANGED <<request, archive, phase, failed, extraction, analysis,
                 file, todo, focus, spent, why, likeness, highest, related>>

Keep(c) ==
  /\ InTurn(c) /\ ~ContextFull /\ ContextFits(c)
  /\ related' = Append(related, c) /\ spent' = spent + Chunk[c].size
  /\ rest' = rest \ {c}
  /\ UNCHANGED <<request, archive, phase, failed, extraction, analysis,
                 file, todo, focus, truncated, why, likeness, highest>>

EndTrim ==
  /\ phase = "trim" /\ rest = {}
  /\ phase' = "done"
  /\ UNCHANGED <<request, archive, failed, extraction, analysis, retrieval>>

Next ==
  \/ Arrive \/ Break \/ SkipMember \/ WriteMember \/ OverBound \/ EndArchive
  \/ Analyse \/ LeaveWorkspace
  \/ OpenFile \/ EndFocus \/ Relate \/ Rank \/ StopFull \/ EndTrim
  \/ \E c \in Chunks : TakeFocus(c) \/ LeaveOut(c) \/ Keep(c)

Spec == Init /\ [][Next]_vars

------------------------------------------------------------------------------
SizeOf(chunks) == SumFunctionOnSet([c \in Chunks |-> Chunk[c].size], chunks)

\* The size of the focus, a chunk counted as often as it is there.
InFocus == SumFunction([i \in DOMAIN focus |-> Chunk[focus[i]].size])

\* A path on disk holds the last member that was written there.
LastWritten(p) == Max({i \in 1..(at - 1) : archive[i].path = p /\ Wanted(archive[i])})

DiskSizes == [p \in disk |-> archive[LastWritten(p)].size]

Kept == Range(focus) \cup Range(related)

\* The pull request lists the file twice: nothing checks that it does not.
Twice(path) ==
  \E k, l \in DOMAIN request.changes :
    k # l /\ request.changes[k].path = path /\ request.changes[l].path = path

\* One changed chunk is shown whatever the setting.
Allowed == Max({1, request.contextChunks})

CountsHold ==
  /\ Cardinality(disk) <= request.maxFiles
  /\ Len(focus) + Len(related) <= Allowed
  /\ \A i, j \in DOMAIN focus : focus[i] = focus[j] => i = j \/ Twice(Chunk[focus[i]].path)
  /\ \A i, j \in DOMAIN related : related[i] = related[j] => i = j
  /\ Range(focus) \cap Range(related) = {}

\* What is on disk stays within the archive bounds at every moment, whatever the
\* archive holds, and what the model is shown within the context budget, the changed
\* code in its share; no chunk of it is shown twice unless its file is listed twice,
\* and then each time counts; a budget of no chunk still shows one
\* (extract_source_archive, retrieve_context).
BoundsHold ==
  /\ CountsHold
  /\ SumFunctionOnSet(DiskSizes, disk) <= request.maxBytes
  /\ InFocus + SizeOf(Range(related)) <= request.contextBytes
  /\ InFocus <= FocusBytes

\* Every reason there is to show a chunk.
Signals(c) ==
  {r \in Reasons : \/ r = "imported_by_changed_file" /\ c \in Imported
                   \/ r = "same_directory" /\ c \in Siblings
                   \/ r = "test_for_changed_symbol" /\ c \in Tests
                   \/ r = "lexical_similarity" /\ likeness[c] > 0}

ReasonsHold ==
  \A c \in DOMAIN why :
    why[c] \in Signals(c) /\ \A r \in Signals(c) : Weight[r] <= Weight[why[c]]

TiersHold ==
  \A i, j \in DOMAIN related : i < j => Weight[why[related[i]]] >= Weight[why[related[j]]]

\* The context names for each chunk the strongest reason it has; similarity orders
\* chunks of one reason and lifts none above a stronger one; a chunk is left out
\* only when it did not fit beside the changed code and the chunks with reasons as
\* strong as its own; and the result says so when something was left out, and only
\* then, but for a changed chunk shown of one listing of its file and not of another
\* (retrieve_context; _REASON_WEIGHTS).
StrongestKept ==
  phase = "done" /\ request.wantContext =>
    LET touched == UNION {Touched(request.changes[i]) : i \in DOMAIN request.changes}
        missing == (touched \cup DOMAIN why) \ Kept
    IN
    /\ ReasonsHold
    /\ TiersHold
    /\ \A c \in DOMAIN why \ Kept :
         LET before == {d \in Range(related) : Weight[why[d]] >= Weight[why[c]]}
         IN Len(focus) + Cardinality(before) >= request.contextChunks
            \/ InFocus + SizeOf(before) + Chunk[c].size > request.contextBytes
    /\ missing # {} => truncated
    /\ truncated => missing # {} \/ \E c \in Range(focus) : Twice(Chunk[c].path)

\* A tool's answer is reported as ok only when it covers every changed Python file of
\* the snapshot and was read whole, or when there was nothing to read: a cut or late
\* answer never reads as clean, and no output does (parse_ruff_diagnostics;
\* tests/test_tools.py:210).
OkIsWhole ==
  tools.ruff.status = "ok" =>
    /\ tools.ruff.checked = ChangedPaths \cap sources \cap Python
    /\ tools.ruff.reported = problems \/ Shown(printed) = 0
==============================================================================
