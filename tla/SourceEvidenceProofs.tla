------------------------- MODULE SourceEvidenceProofs -------------------------
(***************************************************************************)
(* The counts and sizes of what is on disk and in the context stay within  *)
(* their bounds, each chunk has the strongest reason there is for it,      *)
(* similarity never lifts one above a stronger reason, only what did not   *)
(* fit is left out and the result says so, and a tool's ok is a whole      *)
(* answer, for any repository, pull request and settings; and the chunks   *)
(* of a file cover it.                                                     *)
(***************************************************************************)
EXTENDS SourceEvidence, Chunking, SumProofs, FiniteSetTheorems, SequenceTheorems, TLAPS

\* TypeOK in parts: the call, extraction and the tools, retrieval.
CallType ==
  /\ request \in Requests /\ archive \in Archives /\ failed \in BOOLEAN
  /\ phase \in {"download", "extract", "tools", "leave", "focus", "relate", "rank", "trim",
                "done", "raised"}

SnapshotType ==
  /\ at \in 1..(Len(archive) + 1) /\ files \in Nat /\ bytes \in Nat
  /\ disk \subseteq Paths /\ sources \subseteq Paths

ToolRuns == [{"ruff", "eslint", "tsc"} ->
               [status : ToolStatuses, reported : 0..MaxProblems, checked : SUBSET Paths]]

ToolsType == tools \in ToolRuns /\ problems \in 0..MaxProblems /\ printed \in Nat

FocusType ==
  /\ file \in 0..Len(request.changes) /\ todo \subseteq Chunks
  /\ focus \in Seq(Chunks) /\ spent \in Nat /\ truncated \in BOOLEAN

RelatedType ==
  /\ DOMAIN why \subseteq Chunks /\ \A c \in DOMAIN why : why[c] \in Reasons
  /\ highest \in Nat \ {0} /\ likeness \in [DOMAIN why -> 0..highest]
  /\ rest \subseteq DOMAIN why /\ related \in Seq(Chunks)

Retrieving == {"focus", "relate", "rank", "trim", "done"}

\* Until the workspace is left the disk has what memory has, each file counted.
SnapshotInv ==
  /\ phase \in {"download", "extract", "tools"} => disk = sources
  /\ IsFiniteSet(disk) /\ Cardinality(disk) <= files
  /\ phase \in {"download", "extract"} => files <= request.maxFiles
  /\ Cardinality(disk) <= request.maxFiles

\* The tools answer once, of the files on disk.
ToolsInv ==
  /\ OkIsWhole
  /\ phase \in {"download", "extract", "tools"} => tools.ruff.status # "ok"

\* The focus is of the files taken in turn so far; only of a file listed twice is a
\* chunk in it again, or still to come.
FocusInv ==
  /\ \A i \in DOMAIN focus : \E k \in 1..file : Chunk[focus[i]].path = request.changes[k].path
  /\ \A i, j \in DOMAIN focus : focus[i] = focus[j] => i = j \/ Twice(Chunk[focus[i]].path)
  /\ \A c \in todo : Chunk[c].path = request.changes[file].path /\ file >= 1
  /\ \A c \in todo, i \in DOMAIN focus : focus[i] = c => Twice(Chunk[c].path)
  /\ Len(focus) <= FocusChunks
  /\ phase \notin Retrieving => focus = <<>> /\ file = 0 /\ todo = {}

\* Candidates come up once the focus is closed; those kept outrank those to come.
RelatedInv ==
  /\ phase \notin {"rank", "trim", "done"} => why = <<>>
  /\ phase \notin {"trim", "done"} => rest = {} /\ related = <<>>
  /\ phase = "rank" => \A c \in DOMAIN why : likeness[c] = 0
  /\ phase = "rank" => \A c \in Imported \cup Siblings \cup Tests : c \in Range(focus) \/ c \in DOMAIN why
  /\ \A c \in DOMAIN why, i \in DOMAIN focus : focus[i] # c
  /\ \A i \in DOMAIN related : related[i] \in DOMAIN why \ rest
  /\ \A i, j \in DOMAIN related : related[i] = related[j] => i = j
  /\ \A i \in DOMAIN related, c \in rest : Weight[why[related[i]]] >= Weight[why[c]]
  /\ Len(focus) + Len(related) <= Allowed

IInv ==
  /\ TypeOK /\ SnapshotInv /\ ToolsInv /\ FocusInv /\ RelatedInv
  /\ ReasonsHold /\ TiersHold

------------------------------------------------------------------------------
(***************************************************************************)
(* Types, bounds and weights.                                              *)
(***************************************************************************)

LEMMA TypeParts ==
  TypeOK <=> CallType /\ SnapshotType /\ ToolsType /\ FocusType /\ RelatedType
  BY Zenon DEF TypeOK, CallType, SnapshotType, ToolsType, ToolRuns, FocusType, RelatedType

LEMMA RequestFits ==
  ASSUME CallType
  PROVE  /\ request.maxFiles \in Nat /\ request.contextBytes \in Nat
         /\ request.contextChunks \in Nat
         /\ request.changes \in Seq([path : Paths, lines : SUBSET Nat])
         /\ Len(request.changes) \in Nat
         /\ archive \in Seq([path : Paths, size : Nat, indexable : BOOLEAN])
  <1>1. request \in Requests /\ archive \in Archives
    BY DEF CallType
  <1>2. {request.maxFiles, request.maxBytes, request.maxFileBytes, request.contextBytes,
         request.contextChunks, request.toolOutput} \subseteq Nat
    BY <1>1, ConstantsFit
  <1>4. request.changes \in Seq([path : Paths, lines : SUBSET Nat])
    BY <1>1, ConstantsFit
  <1>5. archive \in Seq([path : Paths, size : Nat, indexable : BOOLEAN])
    BY <1>1, ConstantsFit
  <1>6. Len(request.changes) \in Nat
    BY <1>4
  <1> QED
    BY <1>2, <1>4, <1>5, <1>6

\* The greatest number of a set is the one that is no less than any.
LEMMA MaxIs ==
  ASSUME NEW T \in SUBSET Nat, NEW n \in T, \A m \in T : n >= m
  PROVE  Max(T) = n
  <1>1. \E x \in T : \A y \in T : x >= y
    OBVIOUS
  <1>2. Max(T) \in T /\ \A y \in T : Max(T) >= y
    BY <1>1 DEF Max
  <1>3. Max(T) >= n /\ n >= Max(T) /\ n \in Nat /\ Max(T) \in Nat
    BY <1>2
  <1> QED
    BY <1>3

LEMMA MaxOfTwo ==
  ASSUME NEW m \in Nat, NEW n \in Nat
  PROVE  Max({m, n}) \in {m, n} /\ Max({m, n}) >= m /\ Max({m, n}) >= n
  <1>1. CASE m >= n
    BY <1>1, MaxIs
  <1>2. CASE ~(m >= n)
    BY <1>2, MaxIs
  <1> QED
    BY <1>1, <1>2

LEMMA ShareFits ==
  ASSUME CallType
  PROVE  /\ FocusChunks \in Nat /\ FocusChunks <= Allowed
         /\ Allowed \in Nat /\ request.contextChunks <= Allowed
  <1>1. \A n \in Nat : (n * 7) \div 10 \in Nat /\ (n * 7) \div 10 <= n
    OBVIOUS
  <1> DEFINE wanted == request.contextChunks
             share == (wanted * 7) \div 10
  <1>2. wanted \in Nat /\ share \in Nat /\ share <= wanted
    BY <1>1, RequestFits
  <1>3. Allowed \in {1, wanted} /\ Allowed >= 1 /\ Allowed >= wanted
    BY <1>2, MaxOfTwo DEF Allowed
  <1>4. FocusChunks \in {1, share}
    BY <1>2, MaxOfTwo DEF FocusChunks
  <1> HIDE DEF share, wanted
  <1>5. /\ FocusChunks \in Nat /\ FocusChunks <= Allowed
        /\ Allowed \in Nat /\ wanted <= Allowed
    BY <1>2, <1>3, <1>4
  <1> QED
    BY <1>5 DEF wanted

\* The shares and the files listed twice are the request's.
LEMMA ShareStays ==
  ASSUME request' = request
  PROVE  /\ FocusChunks' = FocusChunks /\ Allowed' = Allowed
         /\ \A path : Twice(path)' <=> Twice(path)
  BY DEF FocusChunks, Allowed, Twice

LEMMA ChunkSize == ASSUME NEW c \in Chunks PROVE Chunk[c].size \in Nat /\ c \in Nat
  BY ConstantsFit

LEMMA Weights ==
  /\ Reasons = {"imported_by_changed_file", "test_for_changed_symbol", "same_directory",
                "lexical_similarity"}
  /\ Weight["imported_by_changed_file"] = 4 /\ Weight["test_for_changed_symbol"] = 3
  /\ Weight["same_directory"] = 2 /\ Weight["lexical_similarity"] = 1
  /\ \A r \in Reasons : Weight[r] \in 1..4
  BY DEF Reasons, Weight

\* A chunk that precedes another has at least as strong a reason.
LEMMA PrecedesTier ==
  ASSUME RelatedType, NEW c \in DOMAIN why, NEW d \in DOMAIN why, Precedes(c, d)
  PROVE  Weight[why[c]] >= Weight[why[d]]
  <1> DEFINE u == Weight[why[c]]
             v == Weight[why[d]]
             x == likeness[c]
             y == likeness[d]
  <1>1. u \in 1..4 /\ v \in 1..4
    BY Weights DEF RelatedType
  <1>2. highest \in Nat /\ highest >= 1 /\ x \in 0..highest /\ y \in 0..highest
    BY DEF RelatedType
  <1>3. Score(c) = (10 * u) * highest + 9 * x /\ Score(d) = (10 * v) * highest + 9 * y
    BY DEF Score
  <1>4. Score(c) >= Score(d)
    <2>1. Score(c) \in Int /\ Score(d) \in Int
      <3> HIDE DEF u, v, x, y
      <3>1. \A p \in Nat : (10 * p) * highest \in Int
        BY <1>2
      <3> QED
        BY <1>1, <1>2, <1>3, <3>1
    <2> QED
      BY <2>1 DEF Precedes
  <1> HIDE DEF u, v, x, y
  <1>5. SUFFICES ASSUME u < v PROVE FALSE
    BY <1>1 DEF u, v
  <1>6. (10 * u) * highest + 9 * x >= (10 * v) * highest + 9 * y
    BY <1>3, <1>4
  <1>7. (10 * v) * highest >= (10 * u) * highest + 10 * highest
    <2>1. CASE u = 1
      BY <2>1, <1>1, <1>2, <1>5
    <2>2. CASE u = 2
      BY <2>2, <1>1, <1>2, <1>5
    <2>3. CASE u = 3
      BY <2>3, <1>1, <1>2, <1>5
    <2> QED
      BY <2>1, <2>2, <2>3, <1>1, <1>5
  <1>8. \A p \in Nat : (10 * p) * highest \in Int
    BY <1>2
  <1> QED
    BY <1>1, <1>2, <1>6, <1>7, <1>8

\* What an offer keeps.
LEMMA OfferKeeps ==
  ASSUME NEW known, \A c \in DOMAIN known : known[c] \in Reasons,
         NEW offered \in SUBSET Chunks, NEW reason \in Reasons
  PROVE  /\ DOMAIN Offer(known, offered, reason) = DOMAIN known \cup (offered \ Range(focus))
         /\ \A c \in DOMAIN Offer(known, offered, reason) :
              LET w == Offer(known, offered, reason)[c] IN
              /\ w \in Reasons
              /\ (w = reason /\ c \in offered) \/ (c \in DOMAIN known /\ w = known[c])
              /\ c \in offered => Weight[reason] <= Weight[w]
              /\ c \in DOMAIN known => Weight[known[c]] <= Weight[w]
  <1>1. DOMAIN Offer(known, offered, reason) = DOMAIN known \cup (offered \ Range(focus))
    BY DEF Offer
  <1>2. ASSUME NEW c \in DOMAIN Offer(known, offered, reason)
        PROVE  Offer(known, offered, reason)[c] =
                 IF c \in DOMAIN known /\ (c \notin offered \/ Weight[known[c]] >= Weight[reason])
                 THEN known[c] ELSE reason
    BY <1>1, <1>2 DEF Offer
  <1>3. ASSUME NEW c \in DOMAIN Offer(known, offered, reason)
        PROVE  LET w == Offer(known, offered, reason)[c] IN
              /\ w \in Reasons
              /\ (w = reason /\ c \in offered) \/ (c \in DOMAIN known /\ w = known[c])
              /\ c \in offered => Weight[reason] <= Weight[w]
              /\ c \in DOMAIN known => Weight[known[c]] <= Weight[w]
    <2> DEFINE w == Offer(known, offered, reason)[c]
    <2>1. CASE c \in DOMAIN known /\ (c \notin offered \/ Weight[known[c]] >= Weight[reason])
      <3>1. w = known[c] /\ w \in Reasons
        BY <1>2, <1>3, <2>1
      <3> HIDE DEF w
      <3>2. Weight[w] \in 1..4
        BY <3>1, Weights
      <3>3. c \in offered => Weight[reason] <= Weight[w]
        BY <2>1, <3>1, <3>2, Weights
      <3>4. Weight[known[c]] <= Weight[w]
        BY <3>1, <3>2
      <3> QED
        BY <2>1, <3>1, <3>3, <3>4 DEF w
    <2>2. CASE ~(c \in DOMAIN known /\ (c \notin offered \/ Weight[known[c]] >= Weight[reason]))
      <3>1. w = reason /\ w \in Reasons
        BY <1>2, <1>3, <2>2
      <3>2. c \in offered
        BY <1>1, <1>3, <2>2
      <3> HIDE DEF w
      <3>3. Weight[w] \in 1..4 /\ Weight[reason] = Weight[w]
        BY <3>1, Weights
      <3>4. c \in DOMAIN known => Weight[known[c]] <= Weight[w]
        BY <2>2, <3>1, <3>2, <3>3, Weights
      <3> QED
        BY <3>1, <3>2, <3>3, <3>4 DEF w
    <2> QED
      BY <2>1, <2>2
  <1> QED
    BY <1>1, <1>3

------------------------------------------------------------------------------
(***************************************************************************)
(* What a step leaves alone keeps its invariants.                          *)
(***************************************************************************)

\* Before there are candidates, steps that retrieve nothing.
LEMMA EarlyFrame ==
  ASSUME IInv, UNCHANGED <<request, retrieval>>, phase \notin {"rank", "trim", "done"},
         phase \notin Retrieving \/ phase' \in Retrieving, phase' # "rank"
  PROVE  FocusType' /\ RelatedType' /\ FocusInv' /\ RelatedInv' /\ ReasonsHold' /\ TiersHold'
  <1>1. /\ request' = request /\ file' = file /\ todo' = todo /\ focus' = focus /\ spent' = spent
        /\ truncated' = truncated /\ why' = why /\ likeness' = likeness /\ highest' = highest
        /\ rest' = rest /\ related' = related
    BY DEF retrieval
  <1>2. CallType /\ FocusType /\ RelatedType /\ FocusInv /\ RelatedInv
    BY TypeParts DEF IInv
  <1>3. why = <<>> /\ rest = {} /\ related = <<>>
    BY <1>2 DEF RelatedInv
  <1>4. FocusType' /\ RelatedType'
    BY <1>1, <1>2 DEF FocusType, RelatedType
  <1>6. FocusInv'
    BY <1>1, <1>2, ShareStays DEF FocusInv
  <1>7. RelatedInv'
    BY <1>1, <1>2, <1>3, ShareStays DEF RelatedInv
  <1>8. DOMAIN why' = {} /\ DOMAIN related' = {}
    BY <1>1, <1>3
  <1> QED
    BY <1>4, <1>6, <1>7, <1>8 DEF ReasonsHold, TiersHold

\* Once the workspace is left, steps that only retrieve.
LEMMA LateFrame ==
  ASSUME IInv, UNCHANGED <<request, archive, failed, extraction, analysis>>,
         phase \in Retrieving, phase' \in Retrieving
  PROVE  CallType' /\ SnapshotType' /\ ToolsType' /\ SnapshotInv' /\ ToolsInv'
  <1>1. /\ request' = request /\ archive' = archive /\ failed' = failed /\ at' = at
        /\ files' = files /\ bytes' = bytes /\ disk' = disk /\ sources' = sources
        /\ tools' = tools /\ problems' = problems /\ printed' = printed
    BY DEF extraction, analysis
  <1>2. CallType /\ SnapshotType /\ ToolsType /\ SnapshotInv /\ ToolsInv
    BY TypeParts DEF IInv
  <1>3. CallType' /\ SnapshotType' /\ ToolsType'
    BY <1>1, <1>2 DEF CallType, SnapshotType, ToolsType, Retrieving
  <1>4. SnapshotInv'
    BY <1>1, <1>2 DEF SnapshotInv, Retrieving
  <1>5. ToolsInv'
    BY <1>1, <1>2 DEF ToolsInv, OkIsWhole, ChangedPaths, Shown, Retrieving
  <1> QED
    BY <1>3, <1>4, <1>5

\* Steps that read the archive leave the tools alone.
LEMMA ToolsFrame ==
  ASSUME ToolsType, ToolsInv, UNCHANGED analysis, phase \in {"download", "extract"}
  PROVE  ToolsType' /\ ToolsInv'
  <1>1. tools' = tools /\ problems' = problems /\ printed' = printed /\ tools.ruff.status # "ok"
    BY DEF analysis, ToolsInv
  <1> QED
    BY <1>1 DEF ToolsType, ToolsInv, OkIsWhole

------------------------------------------------------------------------------
(***************************************************************************)
(* The archive, the tools and the way out.                                 *)
(***************************************************************************)

LEMMA InitInvariant == Init => IInv
  <1> SUFFICES ASSUME Init PROVE IInv
    OBVIOUS
  <1>1. /\ request \in Requests /\ archive \in Archives /\ phase = "download" /\ failed = FALSE
        /\ at = 1 /\ files = 0 /\ bytes = 0 /\ disk = {} /\ sources = {}
        /\ tools = [tool \in {"ruff", "eslint", "tsc"} |-> Absent]
        /\ problems = 0 /\ printed = 0
        /\ file = 0 /\ todo = {} /\ focus = <<>> /\ spent = 0 /\ truncated = FALSE
        /\ why = <<>> /\ likeness = <<>> /\ highest = 1 /\ rest = {} /\ related = <<>>
    BY DEF Init
  <1>2. CallType
    BY <1>1 DEF CallType
  <1>3. /\ archive \in Seq([path : Paths, size : Nat, indexable : BOOLEAN])
        /\ Len(request.changes) \in Nat /\ request.maxFiles \in Nat
        /\ FocusChunks \in Nat /\ Allowed \in Nat
    BY <1>2, RequestFits, ShareFits
  <1>4. SnapshotType
    BY <1>1, <1>3 DEF SnapshotType
  <1>5. ToolsType /\ tools.ruff.status = "absent"
    <2>1. Absent = [status |-> "absent", reported |-> 0, checked |-> {}]
      BY DEF Absent, NotRun
    <2>2. 0 \in 0..MaxProblems
      BY ConstantsFit
    <2>3. Absent \in [status : ToolStatuses, reported : 0..MaxProblems, checked : SUBSET Paths]
      BY <2>1, <2>2 DEF ToolStatuses
    <2> QED
      BY <1>1, <2>1, <2>2, <2>3 DEF ToolsType, ToolRuns
  <1>6. FocusType
    <2>1. 0 \in 0..Len(request.changes) /\ 0 \in Nat
      BY <1>3
    <2>2. <<>> \in Seq(Chunks)
      OBVIOUS
    <2> QED
      BY <1>1, <2>1, <2>2 DEF FocusType
  <1>7. RelatedType
    <2>1. DOMAIN why = {} /\ likeness \in [DOMAIN why -> 0..highest]
      BY <1>1
    <2> QED
      BY <1>1, <2>1 DEF RelatedType
  <1>8. SnapshotInv
    BY <1>1, <1>3, FS_EmptySet DEF SnapshotInv
  <1>9. ToolsInv
    BY <1>1, <1>5 DEF ToolsInv, OkIsWhole
  <1>10. DOMAIN focus = {} /\ Len(focus) = 0 /\ DOMAIN why = {} /\ DOMAIN related = {} /\ Len(related) = 0
    BY <1>1
  <1>11. FocusInv /\ RelatedInv /\ ReasonsHold /\ TiersHold
    BY <1>1, <1>3, <1>10 DEF FocusInv, RelatedInv, ReasonsHold, TiersHold, Retrieving
  <1> QED
    BY <1>2, <1>4, <1>5, <1>6, <1>7, <1>8, <1>9, <1>11, TypeParts DEF IInv

\* The member under way is a path and a size.
LEMMA MemberFits ==
  ASSUME CallType, SnapshotType, Extracting
  PROVE  Member.path \in Paths /\ Member.size \in Nat /\ at + 1 \in 1..(Len(archive) + 1)
  <1>1. archive \in Seq([path : Paths, size : Nat, indexable : BOOLEAN]) /\ at \in 1..Len(archive)
    BY RequestFits DEF SnapshotType, Extracting
  <1>2. Member \in [path : Paths, size : Nat, indexable : BOOLEAN]
    <2> DEFINE Members == [path : Paths, size : Nat, indexable : BOOLEAN]
    <2>1. archive \in Seq(Members) /\ at \in 1..Len(archive)
      BY <1>1
    <2> HIDE DEF Members
    <2>2. archive[at] \in Members
      BY <2>1
    <2> QED
      BY <2>2 DEF Member, Members
  <1> QED
    BY <1>1, <1>2

LEMMA WriteKeeps ==
  ASSUME IInv, WriteMember
  PROVE  CallType' /\ SnapshotType' /\ SnapshotInv'
  <1>1. CallType /\ SnapshotType /\ SnapshotInv /\ phase = "extract"
    BY TypeParts DEF IInv, WriteMember, Extracting
  <1>2. Member.path \in Paths /\ Member.size \in Nat /\ at + 1 \in 1..(Len(archive) + 1)
    BY <1>1, MemberFits DEF WriteMember
  <1>3. /\ at' = at + 1 /\ files' = files + 1 /\ bytes' = bytes + Member.size
        /\ disk' = disk \cup {Member.path} /\ sources' = sources \cup {Member.path}
        /\ request' = request /\ archive' = archive /\ phase' = phase /\ failed' = failed
        /\ files + 1 <= request.maxFiles
    BY DEF WriteMember, Fits
  <1>4. CallType'
    BY <1>1, <1>3 DEF CallType
  <1>5. SnapshotType'
    BY <1>1, <1>2, <1>3 DEF SnapshotType
  <1>6. IsFiniteSet(disk) /\ Cardinality(disk) \in Nat
    BY <1>1, FS_CardinalityType DEF SnapshotInv
  <1>7. IsFiniteSet(disk') /\ Cardinality(disk') <= Cardinality(disk) + 1
    <2>1. /\ IsFiniteSet(disk \cup {Member.path})
          /\ Cardinality(disk \cup {Member.path}) =
               IF Member.path \in disk THEN Cardinality(disk) ELSE Cardinality(disk) + 1
      BY <1>6, FS_AddElement
    <2> QED
      BY <1>3, <1>6, <2>1
  <1>8. Cardinality(disk') \in Nat
    BY <1>7, FS_CardinalityType
  <1>9. SnapshotInv'
    BY <1>1, <1>3, <1>6, <1>7, <1>8, RequestFits DEF SnapshotInv, SnapshotType
  <1> QED
    BY <1>4, <1>5, <1>9

LEMMA ReadKeeps ==
  ASSUME IInv, Arrive \/ Break \/ SkipMember \/ OverBound \/ EndArchive
  PROVE  CallType' /\ SnapshotType' /\ SnapshotInv'
  <1>1. CallType /\ SnapshotType /\ SnapshotInv
    BY TypeParts DEF IInv
  <1>2. CASE Arrive
    BY <1>1, <1>2 DEF Arrive, CallType, SnapshotType, SnapshotInv, extraction
  <1>3. CASE Break
    BY <1>1, <1>3 DEF Break, CallType, SnapshotType, SnapshotInv, extraction
  <1>4. CASE SkipMember
    <2>1. at + 1 \in 1..(Len(archive) + 1)
      BY <1>1, <1>4, MemberFits DEF SkipMember
    <2> QED
      BY <1>1, <1>4, <2>1 DEF SkipMember, CallType, SnapshotType, SnapshotInv
  <1>5. CASE OverBound
    <2>1. Member.size \in Nat
      BY <1>1, <1>5, MemberFits DEF OverBound
    <2>2. IsFiniteSet(disk) /\ Cardinality(disk) \in Nat
      BY <1>1, FS_CardinalityType DEF SnapshotInv
    <2>3. /\ files' = files + 1 /\ bytes' = bytes + Member.size /\ failed' = TRUE /\ phase' = "leave"
          /\ request' = request /\ archive' = archive /\ at' = at /\ disk' = disk /\ sources' = sources
      BY <1>5 DEF OverBound
    <2> QED
      BY <1>1, <2>1, <2>2, <2>3 DEF CallType, SnapshotType, SnapshotInv
  <1>6. CASE EndArchive
    BY <1>1, <1>6 DEF EndArchive, CallType, SnapshotType, SnapshotInv, extraction
  <1> QED
    BY <1>2, <1>3, <1>4, <1>5, <1>6

LEMMA ArchiveStep ==
  ASSUME IInv, Arrive \/ Break \/ SkipMember \/ WriteMember \/ OverBound \/ EndArchive
  PROVE  IInv'
  <1>1. CallType' /\ SnapshotType' /\ SnapshotInv'
    BY WriteKeeps, ReadKeeps
  <1>2. /\ UNCHANGED <<request, retrieval>> /\ UNCHANGED analysis
        /\ phase \in {"download", "extract"} /\ phase' # "rank"
    BY DEF Arrive, Break, SkipMember, WriteMember, OverBound, EndArchive, Extracting
  <1>3. ToolsType /\ ToolsInv
    BY TypeParts DEF IInv
  <1>4. ToolsType' /\ ToolsInv'
    BY <1>2, <1>3, ToolsFrame
  <1>5. FocusType' /\ RelatedType' /\ FocusInv' /\ RelatedInv' /\ ReasonsHold' /\ TiersHold'
    BY <1>2, EarlyFrame DEF Retrieving
  <1>6. TypeOK'
    BY <1>1, <1>4, <1>5, TypeParts DEF TypeOK, CallType, SnapshotType, ToolsType, ToolRuns, FocusType, RelatedType
  <1> QED
    BY <1>1, <1>4, <1>5, <1>6 DEF IInv

Run == [status : ToolStatuses, reported : 0..MaxProblems, checked : SUBSET Paths]

\* An answer covers what is on disk, and tells of all n problems if anything was shown.
WholeOf(ruff, n, size) ==
  /\ ruff.checked = ChangedPaths \cap disk \cap Python
  /\ ruff.reported = n \/ Shown(size) = 0

LEMMA RunsFit ==
  ASSUME disk \subseteq Paths, NEW n \in 0..MaxProblems, NEW size
  PROVE  /\ \A ruff \in RuffRuns(n, size) :
              /\ ruff \in Run
              /\ ruff.status = "ok" => WholeOf(ruff, n, size)
         /\ \A configs : Gate(configs) \in Run
  <1>1. NotRun = [status |-> "not_applicable", reported |-> 0, checked |-> {}] /\ 0 \in 0..MaxProblems
    BY ConstantsFit DEF NotRun
  <1>2. \A s \in ToolStatuses : [NotRun EXCEPT !.status = s] = [status |-> s, reported |-> 0, checked |-> {}]
    BY <1>1
  <1>3. \A s \in ToolStatuses :
          /\ [NotRun EXCEPT !.status = s] \in Run
          /\ [NotRun EXCEPT !.status = s].status = s
    BY <1>1, <1>2 DEF Run
  <1>4. NotRun \in Run /\ NotRun.status # "ok"
    BY <1>1 DEF Run, ToolStatuses
  <1>5. Absent \in Run
    BY <1>3 DEF Absent, ToolStatuses
  <1>6. /\ Read(n, size) \in Run
        /\ Read(n, size).status = "ok" => WholeOf(Read(n, size), n, size)
    <2>0. /\ \A m : Clean(m) = [status |-> "ok", reported |-> m, checked |-> Present \cap Python]
          /\ Present \cap Python \in SUBSET Paths /\ Present \cap Python = ChangedPaths \cap disk \cap Python
      BY DEF Clean, Present
    <2>9. n \in Nat /\ AnswerSize(n) # 0
      BY ConstantsFit DEF AnswerSize
    <2>1. CASE Shown(size) = 0
      <3>1. Read(n, size) = Clean(0)
        BY <1>1, <2>1, <2>9 DEF Read
      <3> QED
        BY <1>1, <2>0, <2>1, <3>1 DEF Run, ToolStatuses, WholeOf
    <2>2. CASE Shown(size) # 0 /\ Shown(size) = AnswerSize(n)
      <3>1. Read(n, size) = Clean(n)
        BY <2>2 DEF Read
      <3> QED
        BY <2>0, <3>1 DEF Run, ToolStatuses, WholeOf
    <2>3. CASE Shown(size) # 0 /\ Shown(size) # AnswerSize(n)
      <3>1. Read(n, size) = [NotRun EXCEPT !.status = "failed"]
        BY <2>3 DEF Read
      <3> QED
        BY <1>3, <3>1 DEF ToolStatuses
    <2> QED
      BY <2>1, <2>2, <2>3
  <1>7. ASSUME NEW ruff \in RuffRuns(n, size)
        PROVE  /\ ruff \in Run
               /\ ruff.status = "ok" => WholeOf(ruff, n, size)
    <2>1. ruff = NotRun \/ ruff = Read(n, size)
            \/ \E s \in {"not_installed", "timed_out", "failed"} : ruff = [NotRun EXCEPT !.status = s]
      BY <1>7 DEF RuffRuns
    <2>2. CASE ruff = NotRun
      BY <1>4, <2>2
    <2>3. CASE ruff = Read(n, size)
      BY <1>6, <2>3
    <2>4. CASE \E s \in {"not_installed", "timed_out", "failed"} : ruff = [NotRun EXCEPT !.status = s]
      BY <1>3, <2>4 DEF ToolStatuses
    <2> QED
      BY <2>1, <2>2, <2>3, <2>4
  <1>8. ASSUME NEW configs PROVE Gate(configs) \in Run
    BY <1>3, <1>4, <1>5 DEF Gate, ToolStatuses
  <1> QED
    BY <1>7, <1>8

LEMMA AnalyseStep ==
  ASSUME IInv, Analyse PROVE IInv'
  <1>1. CallType /\ SnapshotType /\ ToolsType /\ SnapshotInv /\ phase = "tools"
    BY TypeParts DEF IInv, Analyse
  <1>2. /\ request' = request /\ archive' = archive /\ failed' = failed /\ phase' = "leave"
        /\ at' = at /\ files' = files /\ bytes' = bytes /\ disk' = disk /\ sources' = sources
        /\ UNCHANGED <<request, retrieval>>
    BY DEF Analyse, extraction
  <1>a. PICK n \in 0..MaxProblems : \E size \in {0, AnswerSize(n)} : \E ruff \in RuffRuns(n, size) :
          /\ problems' = n /\ printed' = size
          /\ tools' = [ruff |-> ruff, eslint |-> Gate(EslintConfigs), tsc |-> Gate({TsConfig})]
    BY DEF Analyse
  <1>b. PICK size \in {0, AnswerSize(n)} : \E ruff \in RuffRuns(n, size) :
          /\ problems' = n /\ printed' = size
          /\ tools' = [ruff |-> ruff, eslint |-> Gate(EslintConfigs), tsc |-> Gate({TsConfig})]
    BY <1>a
  <1>3. PICK ruff \in RuffRuns(n, size) :
          /\ problems' = n /\ printed' = size
          /\ tools' = [ruff |-> ruff, eslint |-> Gate(EslintConfigs), tsc |-> Gate({TsConfig})]
    BY <1>b
  <1>4. disk \subseteq Paths /\ disk = sources
    BY <1>1 DEF SnapshotType, SnapshotInv
  <1>5. /\ ruff \in Run /\ Gate(EslintConfigs) \in Run /\ Gate({TsConfig}) \in Run
        /\ ruff.status = "ok" => WholeOf(ruff, n, size)
    BY <1>4, RunsFit
  <1>6. CallType' /\ SnapshotType' /\ SnapshotInv'
    BY <1>1, <1>2 DEF CallType, SnapshotType, SnapshotInv
  <1>7. tools' \in [{"ruff", "eslint", "tsc"} -> Run] /\ tools'.ruff = ruff
    BY <1>3, <1>5
  <1>8. ToolsType'
    <2>1. size \in Nat
      BY ConstantsFit DEF AnswerSize
    <2> QED
      BY <1>3, <1>7, <2>1 DEF ToolsType, ToolRuns, Run
  <1>9. ChangedPaths' = ChangedPaths /\ Shown(size)' = Shown(size)
    BY <1>2 DEF ChangedPaths, Shown
  <1>10. ToolsInv'
    <2>1. Shown(printed)' = Shown(size)
      BY <1>2, <1>3 DEF Shown
    <2> QED
      BY <1>2, <1>3, <1>4, <1>5, <1>7, <1>9, <2>1 DEF ToolsInv, OkIsWhole, WholeOf
  <1>11. FocusType' /\ RelatedType' /\ FocusInv' /\ RelatedInv' /\ ReasonsHold' /\ TiersHold'
    BY <1>1, <1>2, EarlyFrame DEF Retrieving
  <1>12. TypeOK'
    BY <1>6, <1>8, <1>11, TypeParts DEF TypeOK, CallType, SnapshotType, ToolsType, ToolRuns, FocusType, RelatedType
  <1> QED
    BY <1>6, <1>10, <1>11, <1>12 DEF IInv

LEMMA LeaveStep ==
  ASSUME IInv, LeaveWorkspace PROVE IInv'
  <1>1. CallType /\ SnapshotType /\ ToolsType /\ SnapshotInv /\ ToolsInv /\ phase = "leave"
    BY TypeParts DEF IInv, LeaveWorkspace
  <1>2. /\ request' = request /\ archive' = archive /\ failed' = failed
        /\ phase' \in {"raised", "focus", "done"}
        /\ at' = at /\ files' = files /\ bytes' = bytes /\ disk' = {} /\ sources' = sources
        /\ UNCHANGED <<request, retrieval>> /\ tools' = tools /\ problems' = problems /\ printed' = printed
    BY DEF LeaveWorkspace, analysis
  <1>3. CallType' /\ SnapshotType'
    BY <1>1, <1>2 DEF CallType, SnapshotType
  <1>4. SnapshotInv'
    BY <1>1, <1>2, RequestFits, FS_EmptySet DEF SnapshotInv, SnapshotType
  <1>5. ToolsType' /\ ToolsInv'
    BY <1>1, <1>2 DEF ToolsType, ToolsInv, OkIsWhole, ChangedPaths, Shown
  <1>6. FocusType' /\ RelatedType' /\ FocusInv' /\ RelatedInv' /\ ReasonsHold' /\ TiersHold'
    BY <1>1, <1>2, EarlyFrame DEF Retrieving
  <1>7. TypeOK'
    BY <1>3, <1>5, <1>6, TypeParts DEF TypeOK, CallType, SnapshotType, ToolsType, ToolRuns, FocusType, RelatedType
  <1> QED
    BY <1>3, <1>4, <1>5, <1>6, <1>7 DEF IInv

------------------------------------------------------------------------------
(***************************************************************************)
(* The focus.                                                              *)
(***************************************************************************)

\* With no candidates yet, what is said of them holds.
LEMMA NoCandidates ==
  ASSUME IInv, phase \notin {"rank", "trim", "done"}, phase' # "rank", FocusType', FocusInv', CallType',
         UNCHANGED <<request, why, likeness, highest, rest, related>>
  PROVE  RelatedType' /\ RelatedInv' /\ ReasonsHold' /\ TiersHold'
  <1>1. RelatedType /\ RelatedInv
    BY TypeParts DEF IInv
  <1>2. why = <<>> /\ rest = {} /\ related = <<>> /\ DOMAIN why = {} /\ Len(related) = 0
    BY <1>1 DEF RelatedInv
  <1>3. RelatedType'
    BY <1>1 DEF RelatedType
  <1>4. Len(focus') <= FocusChunks' /\ Len(focus') \in Nat
    BY DEF FocusInv, FocusType
  <1>5. CallType
    BY TypeParts DEF IInv
  <1>6. FocusChunks' = FocusChunks /\ Allowed' = Allowed
    BY ShareStays
  <1>7. Len(focus') + 0 <= Allowed'
    BY <1>4, <1>5, <1>6, ShareFits
  <1>8. DOMAIN why' = {} /\ DOMAIN related' = {} /\ Len(related') = 0 /\ rest' = {}
    BY <1>2
  <1>9. RelatedInv'
    BY <1>2, <1>7, <1>8 DEF RelatedInv
  <1> QED
    BY <1>3, <1>8, <1>9 DEF ReasonsHold, TiersHold

LEMMA OpenStep ==
  ASSUME IInv, OpenFile PROVE FocusType' /\ FocusInv'
  <1>1. CallType /\ FocusType /\ FocusInv
    BY TypeParts DEF IInv
  <1>2. /\ phase = "focus" /\ phase' = phase /\ file < Len(request.changes) /\ request' = request
        /\ file' = file + 1 /\ todo' = Touched(request.changes[file + 1])
        /\ focus' = focus /\ spent' = spent /\ truncated' = truncated
    BY DEF OpenFile
  <1>3. file \in Nat /\ file + 1 \in 1..Len(request.changes)
    BY <1>1, <1>2, RequestFits DEF FocusType
  <1>4. todo' \subseteq Chunks /\ \A c \in todo' : Chunk[c].path = request.changes[file + 1].path
    BY <1>2 DEF Touched, Indexed
  <1>5. FocusType'
    BY <1>1, <1>2, <1>3, <1>4 DEF FocusType
  <1>6. ASSUME NEW c \in todo', NEW i \in DOMAIN focus, focus[i] = c PROVE Twice(Chunk[c].path)
    <2>1. PICK k \in 1..file : Chunk[focus[i]].path = request.changes[k].path
      BY <1>1 DEF FocusInv
    <2>2. k \in DOMAIN request.changes /\ file + 1 \in DOMAIN request.changes /\ k # file + 1
      BY <1>1, <1>3, RequestFits
    <2> QED
      BY <1>4, <1>6, <2>1, <2>2 DEF Twice
  <1>7. \A i \in DOMAIN focus : \E k \in 1..(file + 1) : Chunk[focus[i]].path = request.changes[k].path
    <2>1. 1..file \subseteq 1..(file + 1)
      BY <1>3
    <2> QED
      BY <1>1, <2>1 DEF FocusInv
  <1>9. FocusInv'
    BY <1>1, <1>2, <1>3, <1>4, <1>6, <1>7, ShareStays DEF FocusInv, Retrieving
  <1> QED
    BY <1>5, <1>9

\* A sequence with one more element.
LEMMA Appended ==
  ASSUME NEW S, NEW seq \in Seq(S), NEW x \in S
  PROVE  /\ Append(seq, x) \in Seq(S) /\ Len(Append(seq, x)) = Len(seq) + 1
         /\ DOMAIN Append(seq, x) = DOMAIN seq \cup {Len(seq) + 1}
         /\ \A i \in DOMAIN seq : Append(seq, x)[i] = seq[i] /\ i \in 1..Len(seq)
         /\ Append(seq, x)[Len(seq) + 1] = x /\ Len(seq) + 1 \notin DOMAIN seq
         /\ Len(seq) \in Nat
  OBVIOUS

LEMMA TakeStep ==
  ASSUME IInv, NEW c \in Chunks, TakeFocus(c) PROVE FocusType' /\ FocusInv'
  <1>1. CallType /\ FocusType /\ FocusInv
    BY TypeParts DEF IInv
  <1>2. /\ phase = "focus" /\ phase' = phase /\ request' = request /\ file' = file
        /\ c \in todo /\ todo' = todo \ {c}
    BY DEF TakeFocus
  <1>3. FocusChunks' = FocusChunks /\ \A path : Twice(path)' <=> Twice(path)
    BY <1>2, ShareStays
  <1>4. CASE FocusFits(c)
    <2>1. /\ focus' = Append(focus, c) /\ spent' = spent + Chunk[c].size /\ truncated' = truncated
          /\ Len(focus) < FocusChunks
      BY <1>4 DEF TakeFocus, FocusFits
    <2>2. /\ focus' \in Seq(Chunks) /\ Len(focus') = Len(focus) + 1
          /\ DOMAIN focus' = DOMAIN focus \cup {Len(focus) + 1}
          /\ \A i \in DOMAIN focus : focus'[i] = focus[i]
          /\ focus'[Len(focus) + 1] = c /\ Len(focus) \in Nat
      BY <1>1, <2>1, Appended DEF FocusType
    <2>3. spent' \in Nat
      BY <1>1, <2>1, ChunkSize DEF FocusType
    <2>4. FocusType'
      BY <1>1, <1>2, <2>1, <2>2, <2>3 DEF FocusType
    <2>5. \A i \in DOMAIN focus' : \E k \in 1..file : Chunk[focus'[i]].path = request.changes[k].path
      <3>1. file \in 1..file /\ Chunk[c].path = request.changes[file].path
        BY <1>1, <1>2 DEF FocusInv, FocusType
      <3> QED
        BY <1>1, <2>2, <3>1 DEF FocusInv
    <2>6. \A i, j \in DOMAIN focus' :
            focus'[i] = focus'[j] => i = j \/ Twice(Chunk[focus'[i]].path)
      BY <1>1, <1>2, <2>2 DEF FocusInv
    <2>7. \A d \in todo', i \in DOMAIN focus' : focus'[i] = d => Twice(Chunk[d].path)
      BY <1>1, <1>2, <2>2 DEF FocusInv
    <2>8. Len(focus') <= FocusChunks
      BY <1>1, <2>1, <2>2, ShareFits
    <2>9. FocusInv'
      BY <1>1, <1>2, <1>3, <2>5, <2>6, <2>7, <2>8 DEF FocusInv, Retrieving
    <2> QED
      BY <2>4, <2>9
  <1>5. CASE ~FocusFits(c)
    <2>1. focus' = focus /\ spent' = spent /\ truncated' = TRUE
      BY <1>5 DEF TakeFocus
    <2>2. FocusType'
      BY <1>1, <1>2, <2>1 DEF FocusType
    <2>3. FocusInv'
      BY <1>1, <1>2, <1>3, <2>1 DEF FocusInv, Retrieving
    <2> QED
      BY <2>2, <2>3
  <1> QED
    BY <1>4, <1>5

LEMMA FocusStep ==
  ASSUME IInv, OpenFile \/ EndFocus \/ \E c \in Chunks : TakeFocus(c)
  PROVE  IInv'
  <1>1. /\ UNCHANGED <<request, archive, failed, extraction, analysis>>
        /\ phase \in Retrieving /\ phase' \in Retrieving /\ phase \notin {"rank", "trim", "done"} /\ phase' # "rank"
    BY DEF OpenFile, EndFocus, TakeFocus, Retrieving
  <1>2. CallType' /\ SnapshotType' /\ ToolsType' /\ SnapshotInv' /\ ToolsInv'
    BY <1>1, LateFrame
  <1>3. FocusType' /\ RelatedType' /\ FocusInv' /\ RelatedInv' /\ ReasonsHold' /\ TiersHold'
    <2>1. CASE EndFocus
      BY <1>1, <2>1, EarlyFrame DEF EndFocus
    <2>2. CASE OpenFile
      <3>1. UNCHANGED <<request, why, likeness, highest, rest, related>>
        BY <2>2 DEF OpenFile
      <3> QED
        BY <1>1, <1>2, <2>2, <3>1, OpenStep, NoCandidates
    <2>3. ASSUME NEW c \in Chunks, TakeFocus(c)
          PROVE  FocusType' /\ RelatedType' /\ FocusInv' /\ RelatedInv' /\ ReasonsHold' /\ TiersHold'
      <3>1. UNCHANGED <<request, why, likeness, highest, rest, related>>
        BY <2>3 DEF TakeFocus
      <3> QED
        BY <1>1, <1>2, <2>3, <3>1, TakeStep, NoCandidates
    <2> QED
      BY <2>1, <2>2, <2>3
  <1>4. TypeOK'
    BY <1>2, <1>3, TypeParts DEF TypeOK, CallType, SnapshotType, ToolsType, ToolRuns, FocusType, RelatedType
  <1> QED
    BY <1>2, <1>3, <1>4 DEF IInv

------------------------------------------------------------------------------
(***************************************************************************)
(* The related chunks.                                                     *)
(***************************************************************************)

\* A step that leaves the focus alone.
LEMMA FocusFrame ==
  ASSUME IInv, UNCHANGED <<request, file, todo, focus>>, spent' \in Nat, truncated' \in BOOLEAN,
         phase \in Retrieving, phase' \in Retrieving
  PROVE  FocusType' /\ FocusInv'
  <1>1. FocusType /\ FocusInv
    BY TypeParts DEF IInv
  <1> QED
    BY <1>1, ShareStays DEF FocusType, FocusInv

\* What is related to what depends on the snapshot and the pull request only.
LEMMA RelationsFrame ==
  ASSUME UNCHANGED <<request, sources>>
  PROVE  Elsewhere' = Elsewhere /\ Imported' = Imported /\ Siblings' = Siblings /\ Tests' = Tests
  <1>1. Indexed' = Indexed /\ ChangedPaths' = ChangedPaths
    BY DEF Indexed, ChangedPaths
  <1>2. Elsewhere' = Elsewhere
    BY <1>1 DEF Elsewhere
  <1>3. ASSUME NEW change PROVE Touched(change)' = Touched(change)
    BY <1>1 DEF Touched
  <1>4. ChangedSymbols' = ChangedSymbols
    BY <1>1 DEF ChangedSymbols, Touched
  <1>5. Imported' = Imported /\ Siblings' = Siblings
    BY <1>1, <1>2 DEF Imported, Siblings
  <1>6. Tests' = Tests
    BY <1>2, <1>4 DEF Tests
  <1> QED
    BY <1>2, <1>5, <1>6

LEMMA RelationsFit ==
  Elsewhere \in SUBSET Chunks /\ Imported \in SUBSET Chunks /\ Siblings \in SUBSET Chunks /\ Tests \in SUBSET Chunks
  BY DEF Elsewhere, Imported, Siblings, Tests, Indexed

Structural(c) ==
  {r \in Reasons : \/ r = "imported_by_changed_file" /\ c \in Imported
                   \/ r = "same_directory" /\ c \in Siblings
                   \/ r = "test_for_changed_symbol" /\ c \in Tests}

LEMMA SignalsSplit ==
  ASSUME NEW c, likeness[c] \in Nat
  PROVE  Signals(c) = IF likeness[c] = 0 THEN Structural(c) ELSE Structural(c) \cup {"lexical_similarity"}
  BY Weights DEF Signals, Structural

LEMMA FirstOffer ==
  ASSUME NEW known, DOMAIN known = {}
  PROVE  LET o == Offer(known, Imported, "imported_by_changed_file") IN
         /\ DOMAIN o = Imported \ Range(focus)
         /\ \A c \in DOMAIN o : o[c] \in Reasons /\ o[c] = "imported_by_changed_file" /\ c \in Imported
  <1>1. \A c \in DOMAIN known : known[c] \in Reasons
    OBVIOUS
  <1> DEFINE offered == Imported
             reason == "imported_by_changed_file"
             o == Offer(known, offered, reason)
  <1>2. offered \in SUBSET Chunks /\ reason \in Reasons
    BY RelationsFit, Weights
  <1> HIDE DEF offered, reason
  <1>3. /\ DOMAIN o = DOMAIN known \cup (offered \ Range(focus))
        /\ \A c \in DOMAIN o :
             o[c] \in Reasons /\ ((o[c] = reason /\ c \in offered) \/ (c \in DOMAIN known /\ o[c] = known[c]))
    BY <1>1, <1>2, OfferKeeps
  <1> HIDE DEF o
  <1>4. /\ DOMAIN o = offered \ Range(focus)
        /\ \A c \in DOMAIN o : o[c] \in Reasons /\ o[c] = reason /\ c \in offered
    BY <1>3
  <1> QED
    BY <1>4 DEF o, offered, reason

\* Three offers give every related chunk its strongest structural reason.
LEMMA OffersKeep ==
  LET o1 == Offer(<<>>, Imported, "imported_by_changed_file")
      o2 == Offer(o1, Siblings, "same_directory")
      o3 == Offer(o2, Tests, "test_for_changed_symbol")
  IN  /\ DOMAIN o3 = (Imported \cup Siblings \cup Tests) \ Range(focus)
      /\ \A c \in DOMAIN o3 : o3[c] \in Structural(c) /\ \A r \in Structural(c) : Weight[r] <= Weight[o3[c]]
  <1> DEFINE o1 == Offer(<<>>, Imported, "imported_by_changed_file")
             o2 == Offer(o1, Siblings, "same_directory")
             o3 == Offer(o2, Tests, "test_for_changed_symbol")
  <1>1. /\ DOMAIN o1 = Imported \ Range(focus)
        /\ \A c \in DOMAIN o1 : o1[c] \in Reasons /\ o1[c] = "imported_by_changed_file" /\ c \in Imported
    <2>1. DOMAIN <<>> = {}
      OBVIOUS
    <2> QED
      BY <2>1, FirstOffer
  <1> HIDE DEF o1
  <1>2. /\ DOMAIN o2 = DOMAIN o1 \cup (Siblings \ Range(focus))
        /\ \A c \in DOMAIN o2 :
             /\ o2[c] \in Reasons
             /\ (o2[c] = "same_directory" /\ c \in Siblings) \/ (c \in DOMAIN o1 /\ o2[c] = o1[c])
             /\ c \in Siblings => Weight["same_directory"] <= Weight[o2[c]]
             /\ c \in DOMAIN o1 => Weight[o1[c]] <= Weight[o2[c]]
    BY <1>1, RelationsFit, Weights, OfferKeeps
  <1> HIDE DEF o2
  <1>3. /\ DOMAIN o3 = DOMAIN o2 \cup (Tests \ Range(focus))
        /\ \A c \in DOMAIN o3 :
             /\ o3[c] \in Reasons
             /\ (o3[c] = "test_for_changed_symbol" /\ c \in Tests) \/ (c \in DOMAIN o2 /\ o3[c] = o2[c])
             /\ c \in Tests => Weight["test_for_changed_symbol"] <= Weight[o3[c]]
             /\ c \in DOMAIN o2 => Weight[o2[c]] <= Weight[o3[c]]
    BY <1>2, RelationsFit, Weights, OfferKeeps
  <1> HIDE DEF o3
  <1>4. DOMAIN o3 = (Imported \cup Siblings \cup Tests) \ Range(focus)
    BY <1>1, <1>2, <1>3
  <1>5. ASSUME NEW c \in DOMAIN o3 PROVE o3[c] \in Structural(c)
    BY <1>1, <1>2, <1>3, <1>5 DEF Structural
  <1>6. ASSUME NEW c \in DOMAIN o3, NEW r \in Structural(c) PROVE Weight[r] <= Weight[o3[c]]
    <2>1. c \notin Range(focus) /\ Weight[o3[c]] \in 1..4
      BY <1>3, <1>4, <1>6, Weights
    <2>2. CASE r = "imported_by_changed_file" /\ c \in Imported
      <3>1. c \in DOMAIN o1 /\ c \in DOMAIN o2
        BY <1>1, <1>2, <2>1, <2>2
      <3>2. Weight[o1[c]] = 4 /\ Weight[o2[c]] \in 1..4
        BY <1>1, <1>2, <3>1, Weights
      <3> QED
        BY <1>2, <1>3, <1>6, <2>1, <2>2, <3>1, <3>2, Weights
    <2>3. CASE r = "same_directory" /\ c \in Siblings
      <3>1. c \in DOMAIN o2
        BY <1>2, <2>1, <2>3
      <3>2. Weight[o2[c]] \in 1..4
        BY <1>2, <3>1, Weights
      <3> QED
        BY <1>2, <1>3, <1>6, <2>1, <2>3, <3>1, <3>2, Weights
    <2>4. CASE r = "test_for_changed_symbol" /\ c \in Tests
      BY <1>3, <1>6, <2>4
    <2> QED
      BY <1>6, <2>2, <2>3, <2>4 DEF Structural
  <1> QED
    BY <1>4, <1>5, <1>6 DEF o1, o2, o3

LEMMA RelateStep ==
  ASSUME IInv, Relate PROVE IInv'
  <1>1. /\ UNCHANGED <<request, archive, failed, extraction, analysis>> /\ phase = "relate" /\ phase' = "rank"
        /\ UNCHANGED <<request, file, todo, focus>> /\ spent' = spent /\ truncated' = truncated
        /\ highest' = highest /\ rest' = rest /\ related' = related /\ sources' = sources
        /\ likeness' = [c \in DOMAIN why' |-> 0]
    BY DEF Relate, extraction
  <1>2. CallType' /\ SnapshotType' /\ ToolsType' /\ SnapshotInv' /\ ToolsInv'
    BY <1>1, LateFrame DEF Retrieving
  <1>3. CallType /\ FocusType /\ RelatedType /\ FocusInv /\ RelatedInv
    BY TypeParts DEF IInv
  <1>4. FocusType' /\ FocusInv'
    BY <1>1, <1>3, FocusFrame DEF FocusType, Retrieving
  <1>5. /\ DOMAIN why' = (Imported \cup Siblings \cup Tests) \ Range(focus)
        /\ \A c \in DOMAIN why' : why'[c] \in Structural(c) /\ \A r \in Structural(c) : Weight[r] <= Weight[why'[c]]
    BY OffersKeep DEF Relate
  <1>6. Elsewhere' = Elsewhere /\ Imported' = Imported /\ Siblings' = Siblings /\ Tests' = Tests
    BY <1>1, RelationsFrame
  <1>7. \A c \in DOMAIN why' : why'[c] \in Reasons
    BY <1>5 DEF Structural
  <1>8. RelatedType'
    BY <1>1, <1>3, <1>5, <1>7, RelationsFit DEF RelatedType, RelatedInv
  <1>9. rest' = {} /\ related' = <<>> /\ DOMAIN related' = {} /\ Len(related') = 0
    BY <1>1, <1>3 DEF RelatedInv
  <1>10. Len(focus') + 0 <= Allowed'
    BY <1>1, <1>3, ShareFits, ShareStays DEF FocusInv, FocusType
  <1>11. \A c \in DOMAIN why', i \in DOMAIN focus' : focus'[i] # c
    BY <1>1, <1>5 DEF Range
  <1>12. RelatedInv'
    <2>1. Range(focus)' = Range(focus)
      BY <1>1 DEF Range
    <2>2. \A c \in Imported' \cup Siblings' \cup Tests' : c \in Range(focus)' \/ c \in DOMAIN why'
      BY <1>5, <1>6, <2>1
    <2>3. \A c \in DOMAIN why' : likeness'[c] = 0
      BY <1>1
    <2> QED
      BY <1>1, <1>9, <1>10, <1>11, <2>2, <2>3 DEF RelatedInv
  <1>13. ReasonsHold'
    <2>1. ASSUME NEW c \in DOMAIN why' PROVE Signals(c)' = Structural(c)
      <3>1. likeness'[c] = 0
        BY <1>1, <2>1
      <3> QED
        BY <1>6, <3>1, Weights DEF Signals, Structural
    <2> QED
      BY <1>5, <2>1 DEF ReasonsHold
  <1>14. TiersHold'
    BY <1>9 DEF TiersHold
  <1>15. TypeOK'
    BY <1>2, <1>4, <1>8, TypeParts DEF TypeOK, CallType, SnapshotType, ToolsType, ToolRuns, FocusType, RelatedType
  <1> QED
    BY <1>2, <1>4, <1>12, <1>13, <1>14, <1>15 DEF IInv

LEMMA RankStep ==
  ASSUME IInv, Rank PROVE IInv'
  <1>1. /\ UNCHANGED <<request, archive, failed, extraction, analysis>> /\ phase = "rank" /\ phase' = "trim"
        /\ UNCHANGED <<request, file, todo, focus>> /\ spent' = spent /\ truncated' = truncated
        /\ rest' = DOMAIN why' /\ related' = related /\ sources' = sources
    BY DEF Rank, extraction
  <1>2. CallType' /\ SnapshotType' /\ ToolsType' /\ SnapshotInv' /\ ToolsInv'
    BY <1>1, LateFrame DEF Retrieving
  <1>3. CallType /\ FocusType /\ RelatedType /\ FocusInv /\ RelatedInv /\ ReasonsHold
    BY TypeParts DEF IInv
  <1>4. FocusType' /\ FocusInv'
    BY <1>1, <1>3, FocusFrame DEF FocusType, Retrieving
  <1>5. PICK alike \in SUBSET Elsewhere, top \in 1..MaxLikeness :
          \E score \in [alike -> 1..top] :
            /\ why' = Offer(why, alike, "lexical_similarity")
            /\ likeness' = Scored(alike, score, DOMAIN why') /\ highest' = top
    BY DEF Rank
  <1>6. PICK score \in [alike -> 1..top] :
          /\ why' = Offer(why, alike, "lexical_similarity")
          /\ likeness' = Scored(alike, score, DOMAIN why') /\ highest' = top
    BY <1>5
  <1>7. /\ DOMAIN why' = DOMAIN why \cup (alike \ Range(focus))
        /\ \A c \in DOMAIN why' :
             /\ why'[c] \in Reasons
             /\ (why'[c] = "lexical_similarity" /\ c \in alike) \/ (c \in DOMAIN why /\ why'[c] = why[c])
             /\ c \in alike => Weight["lexical_similarity"] <= Weight[why'[c]]
             /\ c \in DOMAIN why => Weight[why[c]] <= Weight[why'[c]]
    <2>1. alike \in SUBSET Chunks /\ "lexical_similarity" \in Reasons
      BY RelationsFit, Weights
    <2>2. \A c \in DOMAIN why : why[c] \in Reasons
      BY <1>3 DEF RelatedType
    <2> DEFINE o == Offer(why, alike, "lexical_similarity")
    <2>3. /\ DOMAIN o = DOMAIN why \cup (alike \ Range(focus))
          /\ \A c \in DOMAIN o :
               /\ o[c] \in Reasons
               /\ (o[c] = "lexical_similarity" /\ c \in alike) \/ (c \in DOMAIN why /\ o[c] = why[c])
               /\ c \in alike => Weight["lexical_similarity"] <= Weight[o[c]]
               /\ c \in DOMAIN why => Weight[why[c]] <= Weight[o[c]]
      BY <2>1, <2>2, OfferKeeps
    <2>4. why' = o
      BY <1>6
    <2> HIDE DEF o
    <2> QED
      BY <2>3, <2>4
  <1>8. likeness' = [c \in DOMAIN why' |-> IF c \in alike THEN score[c] ELSE 0]
    BY <1>6 DEF Scored
  <1>9. top \in Nat \ {0} /\ \A c \in alike : score[c] \in 1..top
    BY ConstantsFit
  <1>10. RelatedType'
    <2>1. DOMAIN why' \subseteq Chunks
      BY <1>3, <1>7, RelationsFit DEF RelatedType
    <2>2. likeness' \in [DOMAIN why' -> 0..highest']
      BY <1>6, <1>8, <1>9
    <2> QED
      BY <1>1, <1>3, <1>6, <1>7, <1>9, <2>1, <2>2 DEF RelatedType
  <1>11. related' = <<>> /\ DOMAIN related' = {} /\ Len(related') = 0
    BY <1>1, <1>3 DEF RelatedInv
  <1>12. Len(focus') + 0 <= Allowed'
    BY <1>1, <1>3, ShareFits, ShareStays DEF FocusInv, FocusType
  <1>13. \A c \in DOMAIN why', i \in DOMAIN focus' : focus'[i] # c
    BY <1>1, <1>3, <1>7 DEF Range, RelatedInv
  <1>14. RelatedInv'
    BY <1>1, <1>11, <1>12, <1>13 DEF RelatedInv
  <1>15. TiersHold'
    BY <1>11 DEF TiersHold
  <1>16. Imported' = Imported /\ Siblings' = Siblings /\ Tests' = Tests
    BY <1>1, RelationsFrame
  <1>17. ReasonsHold'
    <2>1. ASSUME NEW c \in DOMAIN why'
          PROVE  Signals(c)' = IF c \in alike THEN Structural(c) \cup {"lexical_similarity"} ELSE Structural(c)
      <3>1. likeness'[c] > 0 <=> c \in alike
        BY <1>8, <1>9, <2>1
      <3> QED
        BY <1>16, <3>1, Weights DEF Signals, Structural
    <2>2. ASSUME NEW c \in DOMAIN why
          PROVE  why[c] \in Structural(c) /\ \A r \in Structural(c) : Weight[r] <= Weight[why[c]]
      <3>1. likeness[c] = 0
        BY <1>1, <1>3, <2>2 DEF RelatedInv
      <3>2. Signals(c) = Structural(c)
        BY <3>1, SignalsSplit
      <3> QED
        BY <1>3, <2>2, <3>2 DEF ReasonsHold
    <2>3. ASSUME NEW c \in DOMAIN why' PROVE why'[c] \in Signals(c)'
      BY <1>7, <2>1, <2>2, <2>3
    <2>4. ASSUME NEW c \in DOMAIN why', NEW r \in Structural(c) PROVE Weight[r] <= Weight[why'[c]]
      <3>1. c \in DOMAIN why
        <4>1. c \in Imported \cup Siblings \cup Tests
          BY <2>4 DEF Structural
        <4> QED
          BY <1>1, <1>3, <1>7, <2>4, <4>1 DEF RelatedInv
      <3>2. Weight[r] \in 1..4 /\ Weight[why[c]] \in 1..4 /\ Weight[why'[c]] \in 1..4
        BY <1>3, <1>7, <2>4, <3>1, Weights DEF RelatedType, Structural
      <3>3. Weight[r] <= Weight[why[c]] /\ Weight[why[c]] <= Weight[why'[c]]
        BY <1>7, <2>2, <2>4, <3>1
      <3> QED
        BY <3>2, <3>3
    <2>5. ASSUME NEW c \in DOMAIN why', NEW r \in Signals(c)' PROVE Weight[r] <= Weight[why'[c]]
      BY <1>7, <2>1, <2>4, <2>5
    <2> QED
      BY <2>3, <2>5 DEF ReasonsHold
  <1>18. TypeOK'
    BY <1>2, <1>4, <1>10, TypeParts DEF TypeOK, CallType, SnapshotType, ToolsType, ToolRuns, FocusType, RelatedType
  <1> QED
    BY <1>2, <1>4, <1>14, <1>15, <1>17, <1>18 DEF IInv

\* The reasons stand while the candidates are gone through.
LEMMA ReasonsFrame ==
  ASSUME ReasonsHold, UNCHANGED <<request, sources, why, likeness>>
  PROVE  ReasonsHold'
  <1>1. Imported' = Imported /\ Siblings' = Siblings /\ Tests' = Tests
    BY RelationsFrame
  <1>2. ASSUME NEW c PROVE Signals(c)' = Signals(c)
    BY <1>1 DEF Signals
  <1> QED
    BY <1>2 DEF ReasonsHold

\* Candidates passed over.
LEMMA PassKeeps ==
  ASSUME RelatedType, RelatedInv, TiersHold, rest' \subseteq rest,
         phase = "trim", phase' \in {"trim", "done"},
         UNCHANGED <<request, focus, why, likeness, highest, related>>
  PROVE  RelatedType' /\ RelatedInv' /\ TiersHold'
  <1>1. RelatedType'
    BY DEF RelatedType
  <1>2. RelatedInv'
    BY ShareStays DEF RelatedInv
  <1>3. TiersHold'
    BY DEF TiersHold
  <1> QED
    BY <1>1, <1>2, <1>3

\* The candidate in turn, kept: it is not among those kept before, and outranks
\* all that are left.
LEMMA KeepKeeps ==
  ASSUME CallType, FocusType, RelatedType, RelatedInv, TiersHold, NEW c \in Chunks, Keep(c)
  PROVE  RelatedType' /\ RelatedInv' /\ TiersHold'
  <1>1. /\ phase = "trim" /\ phase' = phase /\ c \in rest /\ rest' = rest \ {c}
        /\ \A d \in rest : Precedes(c, d)
        /\ related' = Append(related, c) /\ request' = request /\ focus' = focus
        /\ why' = why /\ likeness' = likeness /\ highest' = highest /\ ~ContextFull
    BY DEF Keep, InTurn, Trimming
  <1>2. /\ related' \in Seq(Chunks) /\ Len(related') = Len(related) + 1
        /\ DOMAIN related' = DOMAIN related \cup {Len(related) + 1}
        /\ \A i \in DOMAIN related : related'[i] = related[i] /\ i \in 1..Len(related)
        /\ related'[Len(related) + 1] = c /\ Len(related) \in Nat
    BY <1>1, Appended DEF RelatedType
  <1>3. RelatedType'
    BY <1>1, <1>2 DEF RelatedType
  <1>4. c \in DOMAIN why /\ \A d \in rest : d \in DOMAIN why
    BY <1>1 DEF RelatedType
  <1>5. \A d \in rest : Weight[why[c]] >= Weight[why[d]]
    BY <1>1, <1>4, PrecedesTier
  <1>6. \A i \in DOMAIN related : related[i] \in DOMAIN why \ rest /\ Weight[why[related[i]]] >= Weight[why[c]]
    BY <1>1 DEF RelatedInv
  <1>7. \A i \in DOMAIN related' : related'[i] \in DOMAIN why' \ rest'
    BY <1>1, <1>2, <1>4, <1>6
  <1>8. \A i, j \in DOMAIN related' : related'[i] = related'[j] => i = j
    <2>1. \A i, j \in DOMAIN related : related[i] = related[j] => i = j
      BY DEF RelatedInv
    <2>2. \A i \in DOMAIN related : related[i] # c
      BY <1>1, <1>6
    <2> QED
      BY <1>2, <2>1, <2>2
  <1>9. \A i \in DOMAIN related', d \in rest' : Weight[why'[related'[i]]] >= Weight[why'[d]]
    <2>1. \A i \in DOMAIN related, d \in rest : Weight[why[related[i]]] >= Weight[why[d]]
      BY DEF RelatedInv
    <2> QED
      BY <1>1, <1>2, <1>5, <2>1
  <1>10. Len(focus') + Len(related') <= Allowed'
    <2>1. /\ Len(focus) \in Nat /\ request.contextChunks \in Nat /\ Allowed' = Allowed
          /\ Allowed \in Nat /\ request.contextChunks <= Allowed
      BY <1>1, RequestFits, ShareFits, ShareStays DEF FocusType
    <2> QED
      BY <1>1, <1>2, <2>1 DEF ContextFull
  <1>11. \A d \in DOMAIN why', i \in DOMAIN focus' : focus'[i] # d
    BY <1>1 DEF RelatedInv
  <1>12. RelatedInv'
    BY <1>1, <1>7, <1>8, <1>9, <1>10, <1>11 DEF RelatedInv
  <1>13. TiersHold'
    <2>1. ASSUME NEW i \in DOMAIN related', NEW j \in DOMAIN related', i < j
          PROVE  Weight[why'[related'[i]]] >= Weight[why'[related'[j]]]
      <3>1. i \in DOMAIN related
        BY <1>2, <2>1
      <3>2. CASE j \in DOMAIN related
        BY <1>1, <1>2, <2>1, <3>1, <3>2 DEF TiersHold
      <3>3. CASE j = Len(related) + 1
        BY <1>1, <1>2, <1>6, <3>1, <3>3
      <3> QED
        BY <1>2, <2>1, <3>2, <3>3
    <2> QED
      BY <2>1 DEF TiersHold
  <1> QED
    BY <1>3, <1>12, <1>13

LEMMA TrimStep ==
  ASSUME IInv, StopFull \/ EndTrim \/ (\E c \in Chunks : LeaveOut(c) \/ Keep(c))
  PROVE  IInv'
  <1>1. CallType /\ FocusType /\ RelatedType /\ RelatedInv /\ ReasonsHold /\ TiersHold
    BY TypeParts DEF IInv
  <1>2. /\ UNCHANGED <<request, archive, failed, extraction, analysis>> /\ sources' = sources
        /\ UNCHANGED <<request, file, todo, focus>> /\ UNCHANGED <<request, sources, why, likeness>>
        /\ phase = "trim" /\ phase' \in {"trim", "done"}
    BY DEF StopFull, EndTrim, LeaveOut, Keep, InTurn, Trimming, extraction, retrieval
  <1>3. CallType' /\ SnapshotType' /\ ToolsType' /\ SnapshotInv' /\ ToolsInv'
    BY <1>2, LateFrame DEF Retrieving
  <1>4. spent' \in Nat /\ truncated' \in BOOLEAN
    <2>1. spent \in Nat /\ truncated \in BOOLEAN
      BY <1>1 DEF FocusType
    <2>2. CASE StopFull
      BY <2>1, <2>2 DEF StopFull
    <2>3. CASE EndTrim
      BY <2>1, <2>3 DEF EndTrim, retrieval
    <2>4. ASSUME NEW c \in Chunks, LeaveOut(c) PROVE spent' \in Nat /\ truncated' \in BOOLEAN
      BY <2>1, <2>4 DEF LeaveOut
    <2>5. ASSUME NEW c \in Chunks, Keep(c) PROVE spent' \in Nat /\ truncated' \in BOOLEAN
      <3>1. spent' = spent + Chunk[c].size /\ truncated' = truncated
        BY <2>5 DEF Keep
      <3>2. Chunk[c].size \in Nat
        BY ChunkSize
      <3> QED
        BY <2>1, <3>1, <3>2
    <2> QED
      BY <2>2, <2>3, <2>4, <2>5
  <1>5. FocusType' /\ FocusInv'
    BY <1>2, <1>4, FocusFrame DEF Retrieving
  <1>6. ReasonsHold'
    BY <1>1, <1>2, ReasonsFrame
  <1>7. RelatedType' /\ RelatedInv' /\ TiersHold'
    <2>1. CASE StopFull \/ EndTrim \/ \E c \in Chunks : LeaveOut(c)
      <3>1. rest' \subseteq rest /\ UNCHANGED <<request, focus, why, likeness, highest, related>>
        BY <2>1 DEF StopFull, EndTrim, LeaveOut, retrieval
      <3> QED
        BY <1>1, <1>2, <3>1, PassKeeps
    <2>2. CASE \E c \in Chunks : Keep(c)
      BY <1>1, <2>2, KeepKeeps
    <2> QED
      BY <2>1, <2>2
  <1>8. TypeOK'
    BY <1>3, <1>5, <1>7, TypeParts DEF TypeOK, CallType, SnapshotType, ToolsType, ToolRuns, FocusType, RelatedType
  <1> QED
    BY <1>3, <1>5, <1>6, <1>7, <1>8 DEF IInv

LEMMA StutterStep == IInv /\ UNCHANGED vars => IInv'
  <1> SUFFICES ASSUME IInv, UNCHANGED vars PROVE IInv'
    OBVIOUS
  <1>1. /\ request' = request /\ archive' = archive /\ phase' = phase /\ failed' = failed /\ at' = at
        /\ files' = files /\ bytes' = bytes /\ disk' = disk /\ sources' = sources
        /\ tools' = tools /\ problems' = problems /\ printed' = printed
    BY DEF vars, extraction, analysis
  <1>2. /\ file' = file /\ todo' = todo /\ focus' = focus /\ spent' = spent
        /\ truncated' = truncated /\ why' = why /\ likeness' = likeness /\ highest' = highest
        /\ rest' = rest /\ related' = related
    BY DEF vars, retrieval
  <1>3. TypeOK'
    BY <1>1, <1>2 DEF IInv, TypeOK
  <1>4. SnapshotInv' /\ ToolsInv'
    BY <1>1 DEF IInv, SnapshotInv, ToolsInv, OkIsWhole, ChangedPaths, Shown
  <1>5. FocusInv'
    BY <1>1, <1>2, ShareStays DEF IInv, FocusInv
  <1>6. RelatedInv'
    <2>1. Imported' = Imported /\ Siblings' = Siblings /\ Tests' = Tests
      BY <1>1, RelationsFrame
    <2>2. Range(focus)' = Range(focus)
      BY <1>2 DEF Range
    <2> QED
      BY <1>1, <1>2, <2>1, <2>2, ShareStays DEF IInv, RelatedInv
  <1>7. ReasonsHold'
    BY <1>1, <1>2, ReasonsFrame DEF IInv
  <1>8. TiersHold'
    BY <1>2 DEF IInv, TiersHold
  <1> QED
    BY <1>3, <1>4, <1>5, <1>6, <1>7, <1>8 DEF IInv

LEMMA NextInvariant == IInv /\ [Next]_vars => IInv'
  <1> SUFFICES ASSUME IInv, [Next]_vars PROVE IInv'
    OBVIOUS
  <1>1. CASE Arrive \/ Break \/ SkipMember \/ WriteMember \/ OverBound \/ EndArchive
    BY <1>1, ArchiveStep
  <1>2. CASE Analyse
    BY <1>2, AnalyseStep
  <1>3. CASE LeaveWorkspace
    BY <1>3, LeaveStep
  <1>4. CASE OpenFile \/ EndFocus \/ \E c \in Chunks : TakeFocus(c)
    BY <1>4, FocusStep
  <1>5. CASE Relate
    BY <1>5, RelateStep
  <1>6. CASE Rank
    BY <1>6, RankStep
  <1>7. CASE StopFull \/ EndTrim \/ (\E c \in Chunks : LeaveOut(c) \/ Keep(c))
    BY <1>7, TrimStep
  <1>8. CASE UNCHANGED vars
    BY <1>8, StutterStep
  <1> QED
    BY <1>1, <1>2, <1>3, <1>4, <1>5, <1>6, <1>7, <1>8 DEF Next

\* Every gathering of evidence satisfies the inductive invariant.
THEOREM InvariantHolds == Spec => []IInv
  BY InitInvariant, NextInvariant, PTL DEF Spec

------------------------------------------------------------------------------
(***************************************************************************)
(* What follows.                                                           *)
(***************************************************************************)

LEMMA CountsFollow == IInv => CountsHold
  <1> SUFFICES ASSUME IInv PROVE CountsHold
    OBVIOUS
  <1>1. SnapshotInv /\ FocusInv /\ RelatedInv
    BY DEF IInv
  <1>2. Range(focus) \cap Range(related) = {}
    BY <1>1 DEF RelatedInv, Range
  <1> QED
    BY <1>1, <1>2 DEF CountsHold, SnapshotInv, FocusInv, RelatedInv

\* The state of gather_evidence keeps its types, for any pull request, archive and
\* settings.
THEOREM EvidenceTypeCorrect == Spec => []TypeOK
  <1>1. IInv => TypeOK
    BY DEF IInv
  <1> QED
    BY InvariantHolds, <1>1, PTL

\* A tool run reported as ok is about every changed Python file of the snapshot, and
\* is the whole answer unless there was nothing of one to read, whatever ruff prints
\* and however it is cut (tools._run_ruff, parse_ruff_diagnostics).
THEOREM OkAnswerIsWhole == Spec => []OkIsWhole
  <1>1. IInv => OkIsWhole
    BY DEF IInv, ToolsInv
  <1> QED
    BY InvariantHolds, <1>1, PTL

\* The context never names a reason a chunk does not have, nor a weaker one than
\* it has (retrieval.offer).
THEOREM ReasonsAreStrongest == Spec => []ReasonsHold
  <1>1. IInv => ReasonsHold
    BY DEF IInv
  <1> QED
    BY InvariantHolds, <1>1, PTL

\* However similar a chunk is to the changed code, it never comes before one with
\* a stronger reason (retrieval._Candidate.score).
THEOREM TiersAreOrdered == Spec => []TiersHold
  <1>1. IInv => TiersHold
    BY DEF IInv
  <1> QED
    BY InvariantHolds, <1>1, PTL

------------------------------------------------------------------------------
(***************************************************************************)
(* Sizes, and what is left out.                                            *)
(***************************************************************************)

\* What is on disk was written, and its sizes were counted, while the archive is read.
DiskInv ==
  /\ \A p \in disk : DiskSizes[p] \in Nat
  /\ SumFunctionOnSet(DiskSizes, disk) <= request.maxBytes
  /\ phase \in {"download", "extract"} => SumFunctionOnSet(DiskSizes, disk) <= bytes

\* What is spent is the sizes of what is kept.
SpentInv ==
  /\ spent = InFocus + SizeOf(Range(related))
  /\ InFocus <= FocusBytes
  /\ spent <= request.contextBytes

\* What a candidate shares the context with beside the focus: what is kept with a
\* reason as strong.
Beside(c) == {d \in Range(related) : Weight[why[d]] >= Weight[why[c]]}

\* A candidate is to come, is kept, or did not fit beside them.
LeftOutInv ==
  /\ \A c \in DOMAIN why :
       \/ phase = "rank" \/ c \in rest \/ c \in Range(related)
       \/ InFocus + SizeOf(Beside(c)) + Chunk[c].size > request.contextBytes
  /\ phase = "done" /\ request.wantContext => rest = {} \/ ContextFull

\* The touched chunks of the files before the one in turn.
Earlier == UNION {Touched(request.changes[k]) : k \in 1..(file - 1)}

\* The touched chunks that have had their turn.
Came == Earlier \cup IF file = 0 THEN {} ELSE Touched(request.changes[file]) \ todo

\* A chunk in focus is of a file listed twice.
ShownTwice == \E c \in Range(focus) : Twice(Chunk[c].path)

\* `truncated` tells of the chunks missing, or of one left out that is there once.
Tells(missing) == (missing # {} => truncated) /\ (truncated => missing # {} \/ ShownTwice)

\* Candidates are of other files than the focus, and `truncated` tells of what had
\* its turn and was not kept.
TruncatedInv ==
  /\ \A c \in todo : c \in Touched(request.changes[file])
  /\ Range(focus) \subseteq Came
  /\ DOMAIN why \subseteq Elsewhere
  /\ phase \notin Retrieving => ~truncated
  /\ phase \in {"focus", "relate", "rank"} => Tells(Came \ Range(focus))
  /\ phase = "trim" => Tells((Came \cup (DOMAIN why \ rest)) \ Kept)
  /\ phase = "done" /\ request.wantContext => Tells((Came \cup DOMAIN why) \ Kept)
  /\ phase \in {"relate", "rank", "trim"} \/ (phase = "done" /\ request.wantContext) =>
       file = Len(request.changes) /\ todo = {}

SizesInv == DiskInv /\ SpentInv /\ LeftOutInv /\ TruncatedInv

Sizes == [c \in Chunks |-> Chunk[c].size]

\* The size of some chunks is the sum of their sizes.
LEMMA SizeIsSum ==
  /\ \A S : SizeOf(S) = SumFunctionOnSet(Sizes, S)
  /\ \A c \in Chunks : Sizes[c] = Chunk[c].size /\ Sizes[c] \in Nat
  BY ChunkSize DEF SizeOf, Sizes

\* Chunks have sizes to add up.
LEMMA SizesSummable ==
  ASSUME NEW S \in SUBSET Chunks, IsFiniteSet(S)
  PROVE  Summable(Sizes, S) /\ SizeOf(S) \in Nat
  <1>1. Summable(Sizes, S)
    BY SizeIsSum DEF Summable
  <1> QED
    BY <1>1, SizeIsSum, SumIsNatural

\* One more chunk adds its size.
LEMMA SizeWithOne ==
  ASSUME NEW S \in SUBSET Chunks, IsFiniteSet(S), NEW c \in Chunks, c \notin S
  PROVE  SizeOf(S \cup {c}) = SizeOf(S) + Chunk[c].size
  <1>1. Summable(Sizes, S) /\ Sizes[c] \in Nat /\ Sizes[c] = Chunk[c].size
    BY SizesSummable, SizeIsSum
  <1>2. SumFunctionOnSet(Sizes, S \cup {c}) = SumFunctionOnSet(Sizes, S) + Sizes[c]
    BY <1>1, SumWithOne
  <1> QED
    BY <1>1, <1>2, SizeIsSum

\* Chunks of two kinds add up.
LEMMA SizeOfBoth ==
  ASSUME NEW S \in SUBSET Chunks, IsFiniteSet(S), NEW T \in SUBSET Chunks, IsFiniteSet(T), S \cap T = {}
  PROVE  SizeOf(S \cup T) = SizeOf(S) + SizeOf(T)
  BY SizesSummable, SizeIsSum, SumOfUnion

\* Fewer chunks are no larger.
LEMMA SizeAtMost ==
  ASSUME NEW T \in SUBSET Chunks, IsFiniteSet(T), NEW S \in SUBSET T
  PROVE  SizeOf(S) <= SizeOf(T) /\ SizeOf(S) \in Nat /\ IsFiniteSet(S)
  <1>1. IsFiniteSet(S) /\ S \in SUBSET Chunks
    BY FS_Subset
  <1>2. Summable(Sizes, S) /\ Summable(Sizes, T) /\ \A x \in S : Sizes[x] <= Sizes[x]
    BY <1>1, SizesSummable, SizeIsSum
  <1>3. SumFunctionOnSet(Sizes, S) <= SumFunctionOnSet(Sizes, T)
    BY <1>2, SumAtMost
  <1> QED
    BY <1>1, <1>3, SizeIsSum, SizesSummable

\* A sequence without repetitions has as many elements as it is long.
LEMMA RangeCounts ==
  ASSUME NEW S, NEW s \in Seq(S)
  PROVE  /\ IsFiniteSet(Range(s)) /\ Range(s) \in SUBSET S
         /\ (\A i, j \in DOMAIN s : s[i] = s[j] => i = j) => Cardinality(Range(s)) = Len(s)
  <1>1. DOMAIN s = 1..Len(s) /\ Len(s) \in Nat /\ \A i \in DOMAIN s : s[i] \in S
    OBVIOUS
  <1>2. IsFiniteSet(1..Len(s)) /\ Cardinality(1..Len(s)) = Len(s)
    BY <1>1, FS_Interval
  <1>3. Range(s) = {s[i] : i \in 1..Len(s)}
    BY <1>1 DEF Range
  <1>4. IsFiniteSet(Range(s)) /\ Range(s) \in SUBSET S
    BY <1>1, <1>2, <1>3, FiniteImage
  <1>5. ASSUME \A i, j \in DOMAIN s : s[i] = s[j] => i = j
        PROVE  Cardinality(Range(s)) = Len(s)
    <2>1. s \in [1..Len(s) -> Range(s)] /\ \A t \in Range(s) : \E i \in 1..Len(s) : s[i] = t
      BY <1>1, <1>3
    <2>2. s \in Bijection(1..Len(s), Range(s))
      BY <1>1, <1>5, <2>1 DEF Bijection, Injection, Surjection, IsInjective
    <2>3. Cardinality(1..Len(s)) = Cardinality(Range(s))
      BY <1>2, <2>2, FS_Bijection DEF ExistsBijection
    <2> QED
      BY <1>2, <2>3
  <1> QED
    BY <1>4, <1>5

\* What a longer sequence holds.
LEMMA AppendRange ==
  ASSUME NEW S, NEW s \in Seq(S), NEW c \in S
  PROVE  Range(Append(s, c)) = Range(s) \cup {c}
  BY Appended DEF Range

\* The related chunks are distinct and not in focus.
LEMMA KeptFits ==
  ASSUME IInv
  PROVE  /\ IsFiniteSet(Range(focus)) /\ Range(focus) \in SUBSET Chunks
         /\ IsFiniteSet(Range(related)) /\ Range(related) \in SUBSET Chunks
         /\ Cardinality(Range(related)) = Len(related)
         /\ Range(related) \in SUBSET (DOMAIN why \ rest)
         /\ Range(focus) \cap DOMAIN why = {}
         /\ DOMAIN why \in SUBSET Chunks /\ rest \in SUBSET DOMAIN why
  <1>1. FocusType /\ RelatedType /\ FocusInv /\ RelatedInv
    BY TypeParts DEF IInv
  <1>2. /\ focus \in Seq(Chunks) /\ related \in Seq(Chunks)
        /\ \A i, j \in DOMAIN related : related[i] = related[j] => i = j
    BY <1>1 DEF FocusType, RelatedType, FocusInv, RelatedInv
  <1>3. Range(related) \in SUBSET (DOMAIN why \ rest) /\ Range(focus) \cap DOMAIN why = {}
    BY <1>1 DEF Range, RelatedInv
  <1> QED
    BY <1>1, <1>2, <1>3, RangeCounts DEF RelatedType

\* A longer sequence adds its last value.
LEMMA SumOfMore ==
  ASSUME NEW n \in Nat, NEW f, NEW g, Summable(f, 1..n), \A i \in 1..n : g[i] = f[i], g[n + 1] \in Nat
  PROVE  SumFunctionOnSet(g, 1..n \cup {n + 1}) = SumFunctionOnSet(f, 1..n) + g[n + 1]
  <1>1. Summable(g, 1..n) /\ n + 1 \notin 1..n
    BY DEF Summable
  <1>2. SumFunctionOnSet(g, 1..n \cup {n + 1}) = SumFunctionOnSet(g, 1..n) + g[n + 1]
    BY <1>1, SumWithOne
  <1>3. SumFunctionOnSet(f, 1..n) = SumFunctionOnSet(g, 1..n)
    BY SumOfEquals
  <1> QED
    BY <1>2, <1>3

\* The size of the focus is a sum, and one more chunk adds its size.
LEMMA FocusSizes ==
  ASSUME FocusType
  PROVE  /\ InFocus \in Nat
         /\ \A c \in Chunks : focus' = Append(focus, c) => InFocus' = InFocus + Chunk[c].size
  <1> DEFINE f == [i \in DOMAIN focus |-> Chunk[focus[i]].size]
             n == Len(focus)
  <1>1. focus \in Seq(Chunks) /\ n \in Nat /\ DOMAIN focus = 1..n /\ \A i \in 1..n : focus[i] \in Chunks
    BY DEF FocusType
  <1>2. Summable(f, 1..n) /\ DOMAIN f = 1..n
    <2>1. \A i \in 1..n : f[i] \in Nat
      BY <1>1, ChunkSize
    <2> QED
      BY <1>1, <2>1, FS_Interval DEF Summable
  <1>3. InFocus = SumFunctionOnSet(f, 1..n)
    BY <1>1 DEF InFocus, SumFunction
  <1>4. InFocus \in Nat
    BY <1>2, <1>3, SumIsNatural
  <1>5. ASSUME NEW c \in Chunks, focus' = Append(focus, c)
        PROVE  InFocus' = InFocus + Chunk[c].size
    <2> DEFINE g == [i \in DOMAIN focus' |-> Chunk[focus'[i]].size]
    <2>1. /\ n + 1 \notin 1..n /\ DOMAIN focus' = 1..n \cup {n + 1}
          /\ \A i \in 1..n : focus'[i] = focus[i]
          /\ focus'[n + 1] = c
      BY <1>1, <1>5, Appended
    <2>2. /\ \A i \in 1..n : g[i] = f[i]
          /\ g[n + 1] = Chunk[c].size /\ Chunk[c].size \in Nat
      BY <1>1, <2>1, ChunkSize
    <2>3. InFocus' = SumFunctionOnSet(g, 1..n \cup {n + 1})
      BY <2>1 DEF InFocus, SumFunction
    <2> HIDE DEF f, g, n
    <2>4. SumFunctionOnSet(g, 1..n \cup {n + 1}) = SumFunctionOnSet(f, 1..n) + g[n + 1]
      BY <1>1, <1>2, <2>2, SumOfMore
    <2> QED
      BY <1>3, <2>2, <2>3, <2>4
  <1> QED
    BY <1>4, <1>5

\* The share of the focus is a part of the budget.
LEMMA SharesFit ==
  ASSUME CallType
  PROVE  FocusBytes \in Nat /\ FocusBytes <= request.contextBytes /\ request.maxBytes \in Nat
  <1>1. \A n \in Nat : (n * 7) \div 10 \in Nat /\ (n * 7) \div 10 <= n
    OBVIOUS
  <1>2. request.maxBytes \in Nat
    BY ConstantsFit DEF CallType
  <1> QED
    BY <1>1, <1>2, RequestFits DEF FocusBytes

\* At first nothing is counted.
LEMMA SizesInitially == Init => SizesInv
  <1> SUFFICES ASSUME Init PROVE SizesInv
    OBVIOUS
  <1>1. CallType /\ IInv
    BY InitInvariant, TypeParts DEF IInv
  <1>2. /\ phase = "download" /\ bytes = 0 /\ disk = {} /\ file = 0 /\ todo = {}
        /\ focus = <<>> /\ spent = 0 /\ truncated = FALSE /\ why = <<>> /\ related = <<>>
    BY DEF Init
  <1>3. Range(focus) = {} /\ Range(related) = {} /\ DOMAIN why = {} /\ 1..file = {}
    BY <1>2 DEF Range
  <1>4. SumFunctionOnSet(DiskSizes, disk) = 0 /\ SizeOf({}) = 0
    BY <1>2, SumOfNone, SizeIsSum
  <1>5. DiskInv
    BY <1>1, <1>2, <1>4, SharesFit DEF DiskInv
  <1>6. SpentInv
    <2>1. InFocus = 0 /\ SizeOf(Range(related)) = 0
      BY <1>2, <1>3, <1>4, SumOfNone DEF InFocus, SumFunction
    <2> QED
      BY <1>1, <1>2, <2>1, SharesFit, RequestFits DEF SpentInv
  <1>7. LeftOutInv
    BY <1>2, <1>3 DEF LeftOutInv
  <1>8. TruncatedInv
    BY <1>2, <1>3 DEF TruncatedInv, Retrieving
  <1> QED
    BY <1>5, <1>6, <1>7, <1>8 DEF SizesInv

\* A written member replaces what its path held, and is counted in full.
LEMMA WriteDisk ==
  ASSUME IInv, DiskInv, WriteMember PROVE DiskInv'
  <1>1. CallType /\ SnapshotType /\ SnapshotInv /\ Extracting
    BY TypeParts DEF IInv, WriteMember
  <1>2. /\ Member.path \in Paths /\ Member.size \in Nat /\ at \in 1..Len(archive)
        /\ Len(archive) \in Nat
    BY <1>1, MemberFits, RequestFits DEF SnapshotType, Extracting
  <1>3. /\ at' = at + 1 /\ bytes' = bytes + Member.size /\ disk' = disk \cup {Member.path}
        /\ request' = request /\ archive' = archive /\ phase' = phase /\ phase = "extract"
        /\ bytes + Member.size <= request.maxBytes /\ Wanted(Member)
    BY DEF WriteMember, Fits, Extracting
  <1>4. PICK p, d, f, g, W : /\ p = Member.path /\ d = disk /\ f = DiskSizes
                             /\ g = [q \in d \cup {p} |-> archive[Max(W[q])].size]
                             /\ W = [q \in Paths |-> {i \in 1..at : archive[i].path = q /\ Wanted(archive[i])}]
    OBVIOUS
  <1>5. DiskSizes' = g
    <2>1. \A q \in Paths : LastWritten(q)' = Max(W[q])
      BY <1>2, <1>3, <1>4 DEF LastWritten, Wanted
    <2> QED
      BY <1>1, <1>2, <1>3, <1>4, <2>1 DEF DiskSizes, SnapshotType
  <1>6. g[p] = Member.size
    <2>1. W[p] \in SUBSET Nat /\ at \in W[p] /\ \A m \in W[p] : at >= m
      BY <1>2, <1>3, <1>4 DEF Member
    <2>2. Max(W[p]) = at
      BY <2>1, MaxIs
    <2> QED
      BY <1>4, <2>2 DEF Member
  <1>7. ASSUME NEW q \in d \ {p} PROVE g[q] = f[q]
    <2>1. W[q] = {i \in 1..(at - 1) : archive[i].path = q /\ Wanted(archive[i])}
      BY <1>1, <1>2, <1>4, <1>7 DEF Member, SnapshotType
    <2>2. Max(W[q]) = LastWritten(q)
      BY <2>1 DEF LastWritten
    <2>3. f[q] = archive[LastWritten(q)].size
      BY <1>4, <1>7 DEF DiskSizes
    <2>4. g[q] = archive[Max(W[q])].size
      BY <1>4, <1>7
    <2> QED
      BY <2>2, <2>3, <2>4
  <1>8. IsFiniteSet(d) /\ (\A q \in d : f[q] \in Nat) /\ SumFunctionOnSet(f, d) <= bytes
    BY <1>1, <1>3, <1>4 DEF SnapshotInv, DiskInv
  <1>9. SumFunctionOnSet(g, d \cup {p}) <= bytes + Member.size
    <2>1. IsFiniteSet(d \ {p}) /\ Summable(f, d) /\ Summable(f, d \ {p}) /\ Summable(g, d \ {p})
      BY <1>7, <1>8, FS_Subset DEF Summable
    <2>2. SumFunctionOnSet(g, d \ {p}) = SumFunctionOnSet(f, d \ {p})
      BY <1>7, <2>1, SumOfEquals
    <2>3. SumFunctionOnSet(f, d \ {p}) <= SumFunctionOnSet(f, d)
      <3>1. \A q \in d \ {p} : f[q] <= f[q]
        BY <1>8
      <3> QED
        BY <2>1, <3>1, SumAtMost
    <2>4. SumFunctionOnSet(g, (d \ {p}) \cup {p}) = SumFunctionOnSet(g, d \ {p}) + g[p]
      BY <1>2, <1>6, <2>1, SumWithOne
    <2>5. SumFunctionOnSet(g, d \cup {p}) = SumFunctionOnSet(f, d \ {p}) + Member.size
      <3>1. (d \ {p}) \cup {p} = d \cup {p}
        OBVIOUS
      <3> QED
        BY <1>6, <2>2, <2>4, <3>1
    <2>6. SumFunctionOnSet(f, d) \in Nat /\ SumFunctionOnSet(f, d \ {p}) \in Nat /\ bytes \in Nat
      BY <1>1, <2>1, SumIsNatural DEF SnapshotType
    <2> QED
      BY <1>2, <1>8, <2>3, <2>5, <2>6
  <1>10. SumFunctionOnSet(DiskSizes, disk)' = SumFunctionOnSet(g, d \cup {p})
    BY <1>3, <1>4, <1>5
  <1>11. SumFunctionOnSet(g, d \cup {p}) \in Nat
    <2>1. \A q \in d \cup {p} : g[q] \in Nat
      BY <1>2, <1>6, <1>7, <1>8
    <2>2. IsFiniteSet(d \cup {p})
      BY <1>8, FS_AddElement
    <2> QED
      BY <2>1, <2>2, SumIsNatural DEF Summable
  <1>12. SumFunctionOnSet(DiskSizes, disk)' <= request'.maxBytes /\ SumFunctionOnSet(DiskSizes, disk)' <= bytes'
    <2>1. request.maxBytes \in Nat /\ bytes + Member.size \in Nat
      BY <1>1, <1>2, SharesFit DEF SnapshotType
    <2> QED
      BY <1>3, <1>9, <1>10, <1>11, <2>1
  <1>13. \A q \in disk' : DiskSizes'[q] \in Nat
    BY <1>2, <1>3, <1>4, <1>5, <1>6, <1>7, <1>8
  <1> QED
    BY <1>12, <1>13 DEF DiskInv

\* Any other step leaves the disk as it is, or empty.
LEMMA DiskStep ==
  ASSUME IInv, DiskInv, [Next]_vars PROVE DiskInv'
  <1>1. CallType /\ SnapshotType
    BY TypeParts DEF IInv
  <1>2. CASE WriteMember
    BY <1>2, WriteDisk
  <1>3. CASE SkipMember
    <2>1. /\ at' = at + 1 /\ disk' = disk /\ bytes' = bytes /\ request' = request
          /\ archive' = archive /\ phase' = phase /\ ~Wanted(archive[at]) /\ at \in Nat
      BY <1>1, <1>3 DEF SkipMember, Member, SnapshotType
    <2>2. ASSUME NEW p PROVE LastWritten(p)' = LastWritten(p)
      <3>1. {i \in 1..(at - 1) : archive[i].path = p /\ Wanted(archive[i])}'
              = {i \in 1..(at - 1) : archive[i].path = p /\ Wanted(archive[i])}
        BY <2>1 DEF Wanted
      <3> QED
        BY <3>1 DEF LastWritten
    <2>3. DiskSizes' = DiskSizes
      BY <2>1, <2>2 DEF DiskSizes
    <2> QED
      BY <2>1, <2>3 DEF DiskInv
  <1>4. CASE LeaveWorkspace
    <2>1. disk' = {} /\ request' = request /\ phase' \notin {"download", "extract"}
      BY <1>4 DEF LeaveWorkspace
    <2>2. SumFunctionOnSet(DiskSizes, disk)' = 0
      BY <2>1, SumOfNone
    <2> QED
      BY <1>1, <2>1, <2>2, SharesFit DEF DiskInv
  <1>5. CASE /\ UNCHANGED <<request, archive, at, disk>>
             /\ phase' \in {"download", "extract"} => phase \in {"download", "extract"} /\ bytes' = bytes
    <2>1. DiskSizes' = DiskSizes
      BY <1>5 DEF DiskSizes, LastWritten, Wanted
    <2> QED
      BY <1>5, <2>1 DEF DiskInv
  <1>6. CASE Arrive \/ Break \/ OverBound \/ EndArchive \/ Analyse
    BY <1>5, <1>6 DEF Arrive, Break, OverBound, EndArchive, Analyse, extraction
  <1>7. CASE OpenFile \/ EndFocus \/ Relate \/ Rank \/ StopFull \/ EndTrim
    BY <1>5, <1>7 DEF OpenFile, EndFocus, Relate, Rank, StopFull, EndTrim, Trimming, extraction
  <1>8. CASE \E c \in Chunks : TakeFocus(c) \/ LeaveOut(c) \/ Keep(c)
    BY <1>5, <1>8 DEF TakeFocus, LeaveOut, Keep, InTurn, Trimming, extraction
  <1>9. CASE UNCHANGED vars
    BY <1>5, <1>9 DEF vars, extraction
  <1> QED
    BY <1>2, <1>3, <1>4, <1>6, <1>7, <1>8, <1>9 DEF Next

\* What is spent is counted as chunks are taken into the focus and kept.
LEMMA SpentStep ==
  ASSUME IInv, SpentInv, [Next]_vars PROVE SpentInv'
  <1>1. CallType /\ FocusType /\ RelatedType /\ FocusInv
    BY TypeParts DEF IInv
  <1>2. /\ IsFiniteSet(Range(focus)) /\ Range(focus) \in SUBSET Chunks
        /\ IsFiniteSet(Range(related)) /\ Range(related) \in SUBSET Chunks
        /\ Range(related) \cap rest = {}
    BY KeptFits
  <1>3. InFocus \in Nat /\ SizeOf(Range(related)) \in Nat /\ spent \in Nat
    BY <1>1, <1>2, FocusSizes, SizesSummable DEF FocusType
  <1>4. FocusBytes \in Nat /\ FocusBytes <= request.contextBytes /\ request.contextBytes \in Nat
    BY <1>1, SharesFit, RequestFits
  <1>5. CASE UNCHANGED <<request, focus, related, spent>>
    BY <1>5 DEF SpentInv, FocusBytes, InFocus
  <1>6. ASSUME NEW c \in Chunks, TakeFocus(c), FocusFits(c) PROVE SpentInv'
    <2>1. /\ focus' = Append(focus, c) /\ spent' = spent + Chunk[c].size /\ related' = related
          /\ request' = request /\ c \in todo /\ spent + Chunk[c].size <= FocusBytes
      BY <1>6 DEF TakeFocus, FocusFits
    <2>4. InFocus' = InFocus + Chunk[c].size /\ Chunk[c].size \in Nat
      BY <1>1, <2>1, FocusSizes, ChunkSize
    <2>5. FocusBytes' = FocusBytes
      BY <2>1 DEF FocusBytes
    <2> QED
      BY SMTT(30), <1>3, <1>4, <2>1, <2>4, <2>5 DEF SpentInv
  <1>7. ASSUME NEW c \in Chunks, Keep(c) PROVE SpentInv'
    <2>1. /\ related' = Append(related, c) /\ spent' = spent + Chunk[c].size /\ focus' = focus
          /\ request' = request /\ c \in rest /\ spent + Chunk[c].size <= request.contextBytes
      BY <1>7 DEF Keep, InTurn, ContextFits
    <2>2. c \notin Range(related)
      BY <1>2, <2>1
    <2>3. Range(related') = Range(related) \cup {c}
      BY <1>1, <2>1, AppendRange DEF RelatedType
    <2>4. SizeOf(Range(related')) = SizeOf(Range(related)) + Chunk[c].size /\ Chunk[c].size \in Nat
      BY <1>2, <2>2, <2>3, SizeWithOne, ChunkSize
    <2>5. FocusBytes' = FocusBytes /\ InFocus' = InFocus
      BY <2>1 DEF FocusBytes, InFocus
    <2> QED
      BY <1>3, <1>4, <2>1, <2>4, <2>5 DEF SpentInv
  <1>8. CASE Arrive \/ Break \/ SkipMember \/ WriteMember \/ OverBound \/ EndArchive \/ Analyse \/ LeaveWorkspace
    BY <1>5, <1>8 DEF Arrive, Break, SkipMember, WriteMember, OverBound, EndArchive, Analyse,
                      LeaveWorkspace, retrieval
  <1>9. CASE OpenFile \/ EndFocus \/ Relate \/ Rank \/ StopFull \/ EndTrim
    BY <1>5, <1>9 DEF OpenFile, EndFocus, Relate, Rank, StopFull, EndTrim, retrieval
  <1>10. ASSUME NEW c \in Chunks, TakeFocus(c), ~FocusFits(c) PROVE SpentInv'
    BY <1>5, <1>10 DEF TakeFocus
  <1>11. ASSUME NEW c \in Chunks, LeaveOut(c) PROVE SpentInv'
    BY <1>5, <1>11 DEF LeaveOut
  <1>12. CASE UNCHANGED vars
    BY <1>5, <1>12 DEF vars, retrieval
  <1> QED
    BY <1>6, <1>7, <1>8, <1>9, <1>10, <1>11, <1>12 DEF Next

\* A candidate that was left out did not fit, and later ones only add to the context.
LEMMA LeftOutStep ==
  ASSUME IInv, SpentInv, LeftOutInv, [Next]_vars PROVE LeftOutInv'
  <1>1. CallType /\ FocusType /\ RelatedType /\ RelatedInv
    BY TypeParts DEF IInv
  <1>2. /\ IsFiniteSet(Range(focus)) /\ Range(focus) \in SUBSET Chunks
        /\ IsFiniteSet(Range(related)) /\ Range(related) \in SUBSET Chunks
        /\ Range(related) \in SUBSET (DOMAIN why \ rest) /\ Range(focus) \cap DOMAIN why = {}
        /\ DOMAIN why \in SUBSET Chunks /\ rest \in SUBSET DOMAIN why
    BY KeptFits
  <1>3. IsFiniteSet(Range(focus) \cup Range(related))
    BY <1>2, FS_Union
  <1>4. CASE /\ UNCHANGED <<request, focus, why, rest, related>> /\ phase # "rank"
             /\ phase' = "done" /\ request.wantContext => phase = "done" \/ rest = {} \/ ContextFull
    <2>1. ContextFull' <=> ContextFull
      BY <1>4 DEF ContextFull
    <2>2. InFocus' = InFocus /\ \A c : Beside(c)' = Beside(c)
      BY <1>4 DEF Beside, InFocus
    <2> QED
      BY <1>4, <2>1, <2>2 DEF LeftOutInv
  <1>5. CASE why' = <<>> /\ (phase' = "done" => ~request'.wantContext)
    BY <1>5 DEF LeftOutInv
  <1>6. CASE Arrive \/ Break \/ SkipMember \/ WriteMember \/ OverBound \/ EndArchive \/ Analyse \/ LeaveWorkspace
    <2>1. why' = why /\ request' = request /\ phase \notin {"rank", "trim", "done"}
          /\ (phase' = "done" => ~request'.wantContext)
      BY <1>6 DEF Arrive, Break, SkipMember, WriteMember, OverBound, EndArchive, Analyse,
                  LeaveWorkspace, retrieval, Extracting
    <2> QED
      BY <1>1, <1>5, <2>1 DEF RelatedInv
  <1>7. CASE OpenFile \/ EndFocus \/ \E c \in Chunks : TakeFocus(c)
    <2>1. why' = why /\ phase = "focus" /\ phase' # "done"
      BY <1>7 DEF OpenFile, EndFocus, TakeFocus, retrieval
    <2> QED
      BY <1>1, <1>5, <2>1 DEF RelatedInv
  <1>8. CASE Relate
    BY <1>8 DEF Relate, LeftOutInv
  <1>9. CASE Rank
    <2>1. rest' = DOMAIN why' /\ phase' = "trim"
      BY <1>9 DEF Rank
    <2> QED
      BY <2>1 DEF LeftOutInv
  <1>10. CASE StopFull \/ EndTrim
    BY <1>4, <1>10 DEF StopFull, EndTrim, Trimming, retrieval
  <1>11. ASSUME NEW c \in Chunks, LeaveOut(c) PROVE LeftOutInv'
    <2>1. /\ rest' = rest \ {c} /\ c \in rest /\ phase = "trim" /\ phase' = "trim"
          /\ request' = request /\ focus' = focus /\ why' = why /\ related' = related
          /\ ~(spent + Chunk[c].size <= request.contextBytes)
      BY <1>11 DEF LeaveOut, InTurn, Trimming, ContextFits
    <2>2. InFocus' = InFocus /\ \A d : Beside(d)' = Beside(d)
      BY <2>1 DEF Beside, InFocus
    <2>3. Beside(c) = Range(related)
      <3>1. \A d \in Range(related) : Weight[why[d]] >= Weight[why[c]]
        BY <1>1, <2>1 DEF RelatedInv, Range
      <3> QED
        BY <3>1 DEF Beside
    <2>4. InFocus + SizeOf(Beside(c)) = spent
      BY <2>3 DEF SpentInv
    <2>5. InFocus + SizeOf(Beside(c)) + Chunk[c].size > request.contextBytes
      <3>1. spent \in Nat /\ Chunk[c].size \in Nat /\ request.contextBytes \in Nat
        BY <1>1, ChunkSize, RequestFits DEF FocusType
      <3> QED
        BY <2>1, <2>4, <3>1
    <2> QED
      BY <2>1, <2>2, <2>5 DEF LeftOutInv
  <1>12. ASSUME NEW c \in Chunks, Keep(c) PROVE LeftOutInv'
    <2>1. /\ rest' = rest \ {c} /\ c \in rest /\ phase = "trim" /\ phase' = "trim"
          /\ request' = request /\ focus' = focus /\ why' = why /\ related' = Append(related, c)
      BY <1>12 DEF Keep, InTurn, Trimming
    <2>2. Range(related') = Range(related) \cup {c} /\ InFocus' = InFocus
      BY <1>1, <2>1, AppendRange DEF RelatedType, InFocus
    <2>3. IsFiniteSet(Range(related) \cup {c})
      BY <1>2, FS_AddElement
    <2>4. ASSUME NEW d \in DOMAIN why, InFocus + SizeOf(Beside(d)) + Chunk[d].size > request.contextBytes
          PROVE  InFocus + SizeOf(Beside(d)') + Chunk[d].size > request.contextBytes
      <3>1. PICK B : B = Beside(d)'
        OBVIOUS
      <3>2. B \in SUBSET (Range(related) \cup {c}) /\ Beside(d) \in SUBSET B
        BY <2>1, <2>2, <3>1 DEF Beside
      <3>3. B \in SUBSET Chunks /\ IsFiniteSet(B)
        BY <1>2, <2>3, <3>2, FS_Subset
      <3>4. SizeOf(Beside(d)) <= SizeOf(B) /\ SizeOf(Beside(d)) \in Nat /\ SizeOf(B) \in Nat
        BY <3>2, <3>3, SizeAtMost
      <3>5. Chunk[d].size \in Nat /\ request.contextBytes \in Nat /\ InFocus \in Nat
        BY <1>1, <1>2, ChunkSize, RequestFits, FocusSizes
      <3>6. InFocus + SizeOf(B) + Chunk[d].size > request.contextBytes
        BY <2>4, <3>4, <3>5
      <3> QED
        BY <3>1, <3>6
    <2> QED
      BY <2>1, <2>2, <2>4 DEF LeftOutInv
  <1>13. CASE UNCHANGED vars
    BY <1>13 DEF vars, retrieval, LeftOutInv, Beside, ContextFull, InFocus
  <1> QED
    BY <1>6, <1>7, <1>8, <1>9, <1>10, <1>11, <1>12, <1>13 DEF Next

\* The files taken in turn are of the request, and the last one's chunks come last.
LEMMA CameParts ==
  ASSUME CallType, FocusType
  PROVE  /\ file \in Nat /\ DOMAIN request.changes = 1..Len(request.changes) /\ Len(request.changes) \in Nat
         /\ \A k \in 1..file : k \in DOMAIN request.changes
         /\ file # 0 => /\ file \in 1..file /\ 1..file = 1..(file - 1) \cup {file}
                        /\ file \notin 1..(file - 1)
         /\ \A c : c \in Earlier <=> \E k \in 1..(file - 1) : c \in Touched(request.changes[k])
         /\ todo = {} => Came = UNION {Touched(request.changes[k]) : k \in 1..file}
  <1>0. \A c : c \in Earlier <=> \E k \in 1..(file - 1) : c \in Touched(request.changes[k])
    BY DEF Earlier
  <1>1. file \in Nat /\ file <= Len(request.changes) /\ Len(request.changes) \in Nat
    BY RequestFits DEF FocusType
  <1>2. DOMAIN request.changes = 1..Len(request.changes)
    BY RequestFits
  <1>3. \A k \in 1..file : k \in DOMAIN request.changes
    BY <1>1, <1>2
  <1>4. /\ file = 0 => 1..file = {} /\ 1..(file - 1) = {}
        /\ file # 0 => /\ file \in 1..file /\ 1..file = 1..(file - 1) \cup {file}
                       /\ file \notin 1..(file - 1)
    BY <1>1
  <1>5. ASSUME todo = {} PROVE Came = UNION {Touched(request.changes[k]) : k \in 1..file}
    <2>1. CASE file = 0
      <3>1. \A c : c \notin Came
        BY <1>0, <1>4, <2>1 DEF Came
      <3> QED
        BY <1>4, <2>1, <3>1
    <2>2. CASE file # 0
      <3>1. Came = Earlier \cup Touched(request.changes[file])
        BY <1>5, <2>2 DEF Came
      <3>2. \A c : c \in Came <=> \E k \in 1..file : c \in Touched(request.changes[k])
        BY <1>0, <1>4, <2>2, <3>1
      <3> QED
        BY <3>2
    <2> QED
      BY <2>1, <2>2
  <1> QED
    BY <1>0, <1>1, <1>2, <1>3, <1>4, <1>5

\* What has had its turn is of changed files, candidates are of others.
LEMMA CameIsChanged ==
  ASSUME IInv, TruncatedInv
  PROVE  Came \cap DOMAIN why = {} /\ Came \cap Range(related) = {} /\ Came \cap rest = {}
  <1>1. CallType /\ FocusType
    BY TypeParts DEF IInv
  <1>2. ASSUME NEW c \in Came PROVE Chunk[c].path \in ChangedPaths
    <2>1. PICK k \in 1..file : c \in Touched(request.changes[k])
      <3>1. CASE file = 0
        <4>1. 1..(file - 1) = {}
          BY <3>1
        <4>2. c \notin Earlier
          BY <1>1, <4>1, CameParts
        <4> QED
          BY <1>2, <3>1, <4>2 DEF Came
      <3>2. CASE file # 0
        <4>1. c \in Earlier \/ c \in Touched(request.changes[file])
          BY <1>2, <3>2 DEF Came
        <4>2. file \in 1..file /\ 1..file = 1..(file - 1) \cup {file}
          BY <1>1, <3>2, CameParts
        <4>3. c \in Earlier => \E k \in 1..(file - 1) : c \in Touched(request.changes[k])
          BY <1>1, CameParts
        <4> QED
          BY <4>1, <4>2, <4>3
      <3> QED
        BY <3>1, <3>2
    <2>2. k \in DOMAIN request.changes
      BY <1>1, CameParts
    <2> QED
      BY <2>1, <2>2 DEF Touched, ChangedPaths
  <1>3. Came \cap DOMAIN why = {}
    BY <1>2 DEF TruncatedInv, Elsewhere
  <1> QED
    BY <1>3, KeptFits

\* Opening a file leaves what has had its turn alone.
LEMMA OpenTruncated ==
  ASSUME IInv, TruncatedInv, OpenFile PROVE TruncatedInv'
  <1>1. CallType /\ FocusType /\ RelatedInv
    BY TypeParts DEF IInv
  <1>2. /\ phase = "focus" /\ phase' = "focus" /\ todo = {} /\ file < Len(request.changes)
        /\ file' = file + 1 /\ request' = request /\ sources' = sources /\ focus' = focus
        /\ truncated' = truncated /\ why' = why /\ todo' = Touched(request.changes[file + 1])
    BY DEF OpenFile, extraction
  <1>3. \A change : Touched(change)' = Touched(change)
    BY <1>2 DEF Touched, Indexed
  <1>4. Came' = Came
    <2>1. Came = UNION {Touched(request.changes[k]) : k \in 1..file}
      BY <1>1, <1>2, CameParts
    <2>2. file \in Nat /\ file + 1 # 0 /\ (file + 1) - 1 = file
      BY <1>1, CameParts
    <2>3. Came' = Earlier' \cup (Touched(request.changes[file + 1]) \ Touched(request.changes[file + 1]))
      BY <1>2, <1>3, <2>2 DEF Came
    <2>4. Earlier' = UNION {Touched(request.changes[k]) : k \in 1..((file + 1) - 1)}
      BY <1>2, <1>3 DEF Earlier
    <2> QED
      BY <2>1, <2>2, <2>3, <2>4
  <1>5. \A c \in todo' : c \in Touched(request.changes[file])'
    BY <1>2, <1>3 DEF Touched, Indexed
  <1>6. Elsewhere' = Elsewhere
    BY <1>2 DEF Elsewhere, Indexed, ChangedPaths
  <1>7. Range(focus') = Range(focus) /\ (ShownTwice' <=> ShownTwice)
    BY <1>2, ShareStays DEF Range, ShownTwice
  <1>8. Tells(Came \ Range(focus))'
    BY <1>2, <1>4, <1>7 DEF TruncatedInv, Tells
  <1> QED
    BY <1>2, <1>4, <1>5, <1>6, <1>7, <1>8 DEF TruncatedInv, Retrieving

\* A touched chunk has its turn, and is in focus or noted as left out.
LEMMA TakeTruncated ==
  ASSUME IInv, TruncatedInv, NEW c \in Chunks, TakeFocus(c) PROVE TruncatedInv'
  <1>1. CallType /\ FocusType /\ FocusInv
    BY TypeParts DEF IInv
  <1>2. /\ phase = "focus" /\ phase' = "focus" /\ c \in todo /\ todo' = todo \ {c}
        /\ file' = file /\ request' = request /\ sources' = sources /\ why' = why
    BY DEF TakeFocus, extraction
  <1>3. c \in Touched(request.changes[file]) /\ Chunk[c].path = request.changes[file].path /\ file # 0
    BY <1>1, <1>2, CameParts DEF FocusInv, TruncatedInv
  <1>4. Came' = Came \cup {c}
    <2>1. Earlier' = Earlier /\ Touched(request.changes[file])' = Touched(request.changes[file])
      BY <1>2 DEF Earlier, Touched, Indexed
    <2>2. Came' = Earlier \cup (Touched(request.changes[file]) \ (todo \ {c}))
      BY <1>2, <1>3, <2>1 DEF Came
    <2>3. Came = Earlier \cup (Touched(request.changes[file]) \ todo)
      BY <1>3 DEF Came
    <2>4. Touched(request.changes[file]) \ (todo \ {c}) = (Touched(request.changes[file]) \ todo) \cup {c}
      BY <1>2, <1>3
    <2> QED
      BY <2>2, <2>3, <2>4
  <1>5. c \in Came => Twice(Chunk[c].path)
    <2> SUFFICES ASSUME c \in Came PROVE Twice(Chunk[c].path)
      OBVIOUS
    <2>0. c \in Earlier
      BY <1>2, <1>3 DEF Came
    <2>1. PICK k \in 1..(file - 1) : c \in Touched(request.changes[k])
      BY <1>1, <2>0, CameParts
    <2>2. k \in DOMAIN request.changes /\ file \in DOMAIN request.changes /\ k # file
      BY <1>1, <1>3, CameParts
    <2>3. Chunk[c].path = request.changes[k].path
      BY <2>1 DEF Touched
    <2> QED
      BY <1>3, <2>2, <2>3 DEF Twice
  <1>6. c \in Range(focus) => Twice(Chunk[c].path)
    BY <1>1, <1>2 DEF FocusInv, Range
  <1>7. (\A d \in todo' : d \in Touched(request.changes[file])') /\ Elsewhere' = Elsewhere
    BY <1>2 DEF TruncatedInv, Touched, Indexed, Elsewhere, ChangedPaths
  <1>8. /\ Range(focus) \subseteq Came /\ (Came \ Range(focus) # {} => truncated)
        /\ truncated => Came \ Range(focus) # {} \/ ShownTwice
    BY <1>2 DEF TruncatedInv, Tells
  <1>9. ShownTwice' <=> \E d \in Range(focus') : Twice(Chunk[d].path)
    BY <1>2, ShareStays DEF ShownTwice
  <1>10. Range(focus') \subseteq Came' /\ Tells(Came \ Range(focus))'
    <2>1. CASE FocusFits(c)
      <3>1. focus' = Append(focus, c) /\ truncated' = truncated
        BY <2>1 DEF TakeFocus
      <3>2. focus \in Seq(Chunks) /\ c \in Chunks
        BY <1>1 DEF FocusType
      <3>3. Range(focus') = Range(focus) \cup {c}
        BY <3>1, <3>2, AppendRange
      <3>4. ShownTwice => ShownTwice'
        BY <1>9, <3>3 DEF ShownTwice
      <3>5. c \in Came => ShownTwice'
        BY <1>5, <1>9, <3>3
      <3> QED
        BY <1>4, <1>8, <3>1, <3>3, <3>4, <3>5 DEF Tells
    <2>2. CASE ~FocusFits(c)
      <3>1. focus' = focus /\ truncated' = TRUE
        BY <2>2 DEF TakeFocus
      <3>2. Range(focus') = Range(focus)
        BY <3>1
      <3>3. c \in Range(focus) => ShownTwice'
        BY <1>6, <1>9, <3>2
      <3> QED
        BY <1>4, <1>8, <3>1, <3>2, <3>3 DEF Tells
    <2> QED
      BY <2>1, <2>2
  <1> QED
    BY <1>2, <1>7, <1>10 DEF TruncatedInv, Retrieving

\* Once the focus is closed.
LEMMA CameFrame ==
  ASSUME UNCHANGED <<request, sources, file, todo, focus>>
  PROVE  /\ Came' = Came /\ Range(focus') = Range(focus) /\ Elsewhere' = Elsewhere
         /\ \A change : Touched(change)' = Touched(change)
         /\ Touched(request.changes[file])' = Touched(request.changes[file])
         /\ (ShownTwice' <=> ShownTwice)
  <1>1. /\ Came' = Came /\ Range(focus') = Range(focus) /\ Elsewhere' = Elsewhere
        /\ \A change : Touched(change)' = Touched(change)
        /\ Touched(request.changes[file])' = Touched(request.changes[file])
    BY DEF Came, Earlier, Elsewhere, ChangedPaths, Touched, Indexed, Range
  <1>2. ShownTwice' <=> ShownTwice
    BY <1>1, ShareStays DEF ShownTwice
  <1> QED
    BY <1>1, <1>2

\* Candidates are of files the pull request does not change.
LEMMA RelateTruncated ==
  ASSUME IInv, TruncatedInv, Relate \/ Rank PROVE TruncatedInv'
  <1>1. RelatedInv
    BY DEF IInv
  <1>2. /\ UNCHANGED <<request, sources, file, todo, focus>> /\ truncated' = truncated /\ related' = related
        /\ (phase = "relate" /\ phase' = "rank") \/ (phase = "rank" /\ phase' = "trim" /\ rest' = DOMAIN why')
    BY DEF Relate, Rank, extraction
  <1>3. /\ Came' = Came /\ Range(focus') = Range(focus) /\ Elsewhere' = Elsewhere
        /\ Touched(request.changes[file])' = Touched(request.changes[file])
        /\ (ShownTwice' <=> ShownTwice)
    BY <1>2, CameFrame
  <1>4. DOMAIN why' \subseteq Elsewhere
    <2>1. CASE Relate
      BY <2>1, OffersKeep DEF Relate, Imported, Siblings, Tests
    <2>2. CASE Rank
      <3>1. PICK alike \in SUBSET Elsewhere : why' = Offer(why, alike, "lexical_similarity")
        BY <2>2 DEF Rank
      <3>2. DOMAIN why' = DOMAIN why \cup (alike \ Range(focus))
        BY <3>1 DEF Offer
      <3> QED
        BY <3>1, <3>2 DEF TruncatedInv
    <2> QED
      BY <2>1, <2>2
  <1>5. related' = <<>> /\ Range(related') = {}
    BY <1>1, <1>2 DEF RelatedInv, Range
  <1>6. Kept' = Range(focus) /\ (Came' \cup (DOMAIN why' \ rest')) \ Kept'
          = (Came \cup (DOMAIN why' \ rest')) \ Range(focus)
    BY <1>3, <1>5 DEF Kept
  <1>7. CASE phase = "relate" /\ phase' = "rank"
    <2>1. Tells(Came \ Range(focus))'
      BY <1>2, <1>3, <1>7 DEF TruncatedInv, Tells
    <2> QED
      BY <1>2, <1>3, <1>4, <1>7, <2>1 DEF TruncatedInv, Retrieving
  <1>8. CASE phase = "rank" /\ phase' = "trim" /\ rest' = DOMAIN why'
    <2>1. (Came' \cup (DOMAIN why' \ rest')) \ Kept' = Came \ Range(focus)
      BY <1>6, <1>8
    <2>2. Tells((Came \cup (DOMAIN why \ rest)) \ Kept)'
      BY <1>2, <1>3, <1>8, <2>1 DEF TruncatedInv, Tells
    <2> QED
      BY <1>2, <1>3, <1>4, <1>8, <2>2 DEF TruncatedInv, Retrieving
  <1> QED
    BY <1>2, <1>7, <1>8

\* A candidate that is kept is not missing.
LEMMA KeepTruncated ==
  ASSUME IInv, TruncatedInv, NEW c \in Chunks, Keep(c) PROVE TruncatedInv'
  <1>1. RelatedType
    BY TypeParts DEF IInv
  <1>2. /\ UNCHANGED <<request, sources, file, todo, focus>> /\ truncated' = truncated
        /\ phase = "trim" /\ phase' = "trim" /\ why' = why /\ related' = Append(related, c)
        /\ c \in rest /\ rest' = rest \ {c}
    BY DEF Keep, InTurn, Trimming, extraction
  <1>3. /\ Came' = Came /\ Range(focus') = Range(focus) /\ Elsewhere' = Elsewhere
        /\ Touched(request.changes[file])' = Touched(request.changes[file])
        /\ (ShownTwice' <=> ShownTwice)
    BY <1>2, CameFrame
  <1>4. Kept' = Kept \cup {c}
    BY <1>1, <1>2, <1>3, AppendRange DEF Kept, RelatedType
  <1>5. c \notin Came /\ c \in DOMAIN why
    BY <1>2, CameIsChanged, KeptFits
  <1>6. (Came' \cup (DOMAIN why' \ rest')) \ Kept' = (Came \cup (DOMAIN why \ rest)) \ Kept
    BY <1>2, <1>3, <1>4, <1>5
  <1>7. Tells((Came \cup (DOMAIN why \ rest)) \ Kept)'
    BY <1>2, <1>3, <1>6 DEF TruncatedInv, Tells
  <1> QED
    BY <1>2, <1>3, <1>7 DEF TruncatedInv, Retrieving

\* A candidate that is passed over is noted, and nothing is missing that is not.
LEMMA PassTruncated ==
  ASSUME IInv, TruncatedInv, StopFull \/ EndTrim \/ \E c \in Chunks : LeaveOut(c)
  PROVE  TruncatedInv'
  <1>1. /\ UNCHANGED <<request, sources, file, todo, focus>>
        /\ phase = "trim" /\ phase' \in {"trim", "done"} /\ why' = why /\ related' = related
    BY DEF StopFull, EndTrim, LeaveOut, InTurn, Trimming, extraction, retrieval
  <1>2. /\ Came' = Came /\ Range(focus') = Range(focus) /\ Elsewhere' = Elsewhere
        /\ Touched(request.changes[file])' = Touched(request.changes[file])
        /\ (ShownTwice' <=> ShownTwice)
    BY <1>1, CameFrame
  <1>3. Kept' = Kept
    BY <1>1, <1>2 DEF Kept
  <1>4. \A c \in rest : c \in DOMAIN why \ Kept
    BY KeptFits DEF Kept
  <1>5. CASE StopFull
    <2>1. rest # {} /\ truncated' = TRUE /\ phase' = "done"
      BY <1>5 DEF StopFull, Trimming
    <2>2. (Came' \cup DOMAIN why') \ Kept' # {}
      BY <1>1, <1>2, <1>3, <1>4, <2>1
    <2>3. Tells((Came \cup DOMAIN why) \ Kept)'
      BY <2>1, <2>2 DEF Tells
    <2> QED
      BY <1>1, <1>2, <2>1, <2>3 DEF TruncatedInv, Retrieving
  <1>6. CASE EndTrim
    <2>1. rest = {} /\ truncated' = truncated /\ phase' = "done"
      BY <1>6 DEF EndTrim, retrieval
    <2>2. (Came' \cup DOMAIN why') \ Kept' = (Came \cup (DOMAIN why \ rest)) \ Kept
      BY <1>1, <1>2, <1>3, <2>1
    <2>3. Tells((Came \cup DOMAIN why) \ Kept)'
      BY <1>1, <1>2, <2>1, <2>2 DEF TruncatedInv, Tells
    <2> QED
      BY <1>1, <1>2, <2>1, <2>3 DEF TruncatedInv, Retrieving
  <1>7. ASSUME NEW c \in Chunks, LeaveOut(c) PROVE TruncatedInv'
    <2>1. c \in rest /\ rest' = rest \ {c} /\ truncated' = TRUE /\ phase' = "trim"
      BY <1>7 DEF LeaveOut, InTurn, Trimming
    <2>2. (Came' \cup (DOMAIN why' \ rest')) \ Kept' # {}
      BY <1>1, <1>2, <1>3, <1>4, <2>1
    <2>3. Tells((Came \cup (DOMAIN why \ rest)) \ Kept)'
      BY <2>1, <2>2 DEF Tells
    <2> QED
      BY <1>1, <1>2, <2>1, <2>3 DEF TruncatedInv, Retrieving
  <1> QED
    BY <1>5, <1>6, <1>7

\* No step loses track of what was left out.
LEMMA TruncatedStep ==
  ASSUME IInv, TruncatedInv, [Next]_vars PROVE TruncatedInv'
  <1>1. FocusInv /\ RelatedInv
    BY DEF IInv
  <1>2. CASE /\ UNCHANGED <<request, retrieval>> /\ phase \notin Retrieving
             /\ phase' \in Retrieving => phase' = "focus" \/ (phase' = "done" /\ ~request.wantContext)
    <2>1. /\ request' = request /\ file' = 0 /\ todo' = {} /\ focus' = <<>> /\ why' = <<>>
          /\ truncated' = FALSE
      BY <1>1, <1>2 DEF FocusInv, RelatedInv, TruncatedInv, retrieval, Retrieving
    <2>2. Came' = {} /\ Range(focus') = {} /\ DOMAIN why' = {} /\ Came' \ Range(focus') = {}
      <3>1. 1..(0 - 1) = {}
        OBVIOUS
      <3> QED
        BY <2>1, <3>1 DEF Came, Earlier, Range
    <2>3. Tells({})'
      BY <2>1 DEF Tells
    <2> QED
      BY <1>2, <2>1, <2>2, <2>3 DEF TruncatedInv, Retrieving
  <1>3. CASE Arrive \/ Break \/ SkipMember \/ WriteMember \/ OverBound \/ EndArchive \/ Analyse \/ LeaveWorkspace
    BY <1>2, <1>3 DEF Arrive, Break, SkipMember, WriteMember, OverBound, EndArchive, Analyse,
                      LeaveWorkspace, Extracting, Retrieving
  <1>4. CASE OpenFile
    BY <1>4, OpenTruncated
  <1>5. CASE EndFocus
    <2>1. /\ UNCHANGED <<request, sources, file, todo, focus>> /\ truncated' = truncated /\ why' = why
          /\ phase = "focus" /\ phase' = "relate" /\ todo = {} /\ file = Len(request.changes)
      BY <1>5 DEF EndFocus, extraction, retrieval
    <2>2. Tells(Came \ Range(focus))'
      BY <2>1, CameFrame DEF TruncatedInv, Tells
    <2> QED
      BY <2>1, <2>2, CameFrame DEF TruncatedInv, Retrieving
  <1>6. CASE \E c \in Chunks : TakeFocus(c)
    BY <1>6, TakeTruncated
  <1>7. CASE Relate \/ Rank
    BY <1>7, RelateTruncated
  <1>8. CASE \E c \in Chunks : Keep(c)
    BY <1>8, KeepTruncated
  <1>9. CASE StopFull \/ EndTrim \/ \E c \in Chunks : LeaveOut(c)
    BY <1>9, PassTruncated
  <1>10. CASE UNCHANGED vars
    <2>1. /\ UNCHANGED <<request, sources, file, todo, focus>> /\ truncated' = truncated /\ why' = why
          /\ phase' = phase /\ rest' = rest /\ related' = related
      BY <1>10 DEF vars, extraction, retrieval
    <2>2. Kept' = Kept
      BY <2>1 DEF Kept, Range
    <2>3. \A missing : (Tells(missing)' <=> Tells(missing))
      BY <2>1, CameFrame DEF Tells
    <2>4. /\ Came' = Came /\ Range(focus') = Range(focus) /\ Elsewhere' = Elsewhere
          /\ Touched(request.changes[file])' = Touched(request.changes[file])
      BY <2>1, CameFrame
    <2> QED
      BY <2>1, <2>2, <2>3, <2>4 DEF TruncatedInv
  <1> QED
    BY <1>3, <1>4, <1>5, <1>6, <1>7, <1>8, <1>9, <1>10 DEF Next

\* Every gathering of evidence keeps count of the sizes.
THEOREM SizesHold == Spec => [](IInv /\ SizesInv)
  <1>1. Init => IInv /\ SizesInv
    BY InitInvariant, SizesInitially
  <1>2. (IInv /\ SizesInv) /\ [Next]_vars => (IInv /\ SizesInv)'
    BY NextInvariant, DiskStep, SpentStep, LeftOutStep, TruncatedStep DEF SizesInv
  <1> QED
    BY <1>1, <1>2, PTL DEF Spec

\* What is on disk stays within the archive bounds whatever the archive holds, and the
\* context within its budget, with the changed code in its share, at every moment,
\* whatever the settings and also where a file is listed twice; a budget of no chunk
\* still shows one (extract_source_archive, retrieve_context).
THEOREM SizesWithinBudget == Spec => []BoundsHold
  <1>1. IInv /\ SizesInv => BoundsHold
    <2> SUFFICES ASSUME IInv, SizesInv PROVE BoundsHold
      OBVIOUS
    <2>1. CountsHold
      BY CountsFollow
    <2> QED
      BY <2>1 DEF SizesInv, DiskInv, SpentInv, BoundsHold
  <1> QED
    BY SizesHold, <1>1, PTL

\* The context names the strongest reason of each chunk, similarity lifts none above a
\* stronger one, a chunk is left out only when it did not fit beside the changed code and
\* those with reasons as strong, `truncated` says so whenever one was, and only then but
\* for a changed chunk shown of one listing of its file and not of another
\* (retrieve_context).
THEOREM StrongestAreKept == Spec => []StrongestKept
  <1>1. IInv /\ SizesInv => StrongestKept
    <2> SUFFICES ASSUME IInv, SizesInv, phase = "done", request.wantContext PROVE StrongestKept
      BY DEF StrongestKept
    <2> DEFINE touched == UNION {Touched(request.changes[i]) : i \in DOMAIN request.changes}
    <2>1. CallType /\ RelatedType /\ RelatedInv /\ ReasonsHold /\ TiersHold /\ FocusType
      BY TypeParts DEF IInv
    <2>2. LeftOutInv /\ TruncatedInv
      BY DEF SizesInv
    <2>3. Came = touched
      <3>1. file = Len(request.changes) /\ todo = {} /\ DOMAIN request.changes = 1..Len(request.changes)
        BY <2>1, <2>2, CameParts DEF TruncatedInv
      <3> QED
        BY <2>1, <3>1, CameParts
    <2>4. Tells((touched \cup DOMAIN why) \ Kept)
      BY <2>2, <2>3 DEF TruncatedInv
    <2>5. ASSUME NEW c \in DOMAIN why \ Kept
          PROVE  \/ Len(focus) + Cardinality(Beside(c)) >= request.contextChunks
                 \/ InFocus + SizeOf(Beside(c)) + Chunk[c].size > request.contextBytes
      <3>1. CASE c \in rest
        <4>1. ContextFull
          BY <2>2, <3>1 DEF LeftOutInv
        <4>2. Beside(c) = Range(related)
          <5>1. \A d \in Range(related) : Weight[why[d]] >= Weight[why[c]]
            BY <2>1, <3>1 DEF RelatedInv, Range
          <5> QED
            BY <5>1 DEF Beside
        <4>3. Cardinality(Range(related)) = Len(related)
          BY KeptFits
        <4> QED
          BY <4>1, <4>2, <4>3 DEF ContextFull
      <3>2. CASE c \notin rest
        BY <2>2, <2>5, <3>2 DEF LeftOutInv, Kept
      <3> QED
        BY <3>1, <3>2
    <2> QED
      BY <2>1, <2>4, <2>5 DEF StrongestKept, Beside, Tells, ShownTwice
  <1> QED
    BY SizesHold, <1>1, PTL

------------------------------------------------------------------------------
(***************************************************************************)
(* Chunking.                                                               *)
(***************************************************************************)

Kind(d) == IF d.class THEN "class" ELSE "function"

\* The definitions visited so far that stand alone.
Standing == {text.definitions[i] : i \in {j \in 1..visited : ~Folded(text.definitions[j])}}

CutType == text \in Texts /\ visited \in 0..Len(text.definitions) /\ cut \in BOOLEAN

\* Until it is done, a file has a chunk for each of those, and their lines are claimed.
CutInv ==
  /\ CutType
  /\ ~cut => /\ chunks = {ChunkOf(Kind(d), d.start, d.end) : d \in Standing}
             /\ claimed = UNION {d.start..d.end : d \in Standing}
             /\ text.language # "python" \/ Count = 0 => visited = 0
  /\ ChunksCover

\* What the constants say of a text.
LEMMA TextFits ==
  ASSUME text \in Texts
  PROVE  /\ Count \in Nat /\ MinStandalone \in Nat
         /\ text.lines \in Nat /\ text.lines <= Count
         /\ text.definitions \in Seq(Definitions)
         /\ \A i \in DOMAIN text.definitions : text.definitions[i] \in Definitions
         /\ text.language \in {"python", "script", "other"}
         /\ Count > 0 => text.starts \in SUBSET (1..Count)
  <1>1. /\ text.lines \in Nat /\ text.feeds \in Nat /\ text.definitions \in Seq(Definitions)
        /\ text.language \in {"python", "script", "other"} /\ MinStandalone \in Nat
        /\ text.starts \subseteq 1..(text.lines + text.feeds)
    BY TextsFit
  <1>2. Count \in Nat /\ text.lines <= Count /\ (Count > 0 => text.starts \in SUBSET (1..Count))
    BY <1>1 DEF Count
  <1> QED
    BY <1>1, <1>2

\* Two definitions are the same, apart, or one is a class around the other.
LEMMA StandingNest ==
  ASSUME CutType, NEW d \in Standing, NEW e \in Standing
  PROVE  /\ d.start \in Nat /\ d.end \in Nat /\ 1 <= d.start /\ d.start <= d.end /\ d.end <= Count
         /\ \/ d = e \/ d.end < e.start \/ e.end < d.start
            \/ d.class /\ d.start <= e.start /\ e.end <= d.end
            \/ e.class /\ e.start <= d.start /\ d.end <= e.end
  <1>1. PICK i \in 1..visited, j \in 1..visited : d = text.definitions[i] /\ e = text.definitions[j]
    BY DEF Standing
  <1>2. text \in Texts /\ i \in DOMAIN text.definitions /\ j \in DOMAIN text.definitions
    BY TextFits DEF CutType
  <1>3. d \in Definitions /\ e \in Definitions /\ Count \in Nat /\ text.lines \in Nat /\ text.lines <= Count
    BY <1>1, <1>2, TextFits
  <1>4. 1 <= d.start /\ d.start <= d.end /\ d.end <= text.lines
    BY <1>1, <1>2, DefinitionsNest
  <1>5. i # j => \/ d.end < e.start \/ e.end < d.start
                 \/ d.class /\ d.start <= e.start /\ e.end <= d.end
                 \/ e.class /\ e.start <= d.start /\ d.end <= e.end
    BY <1>1, <1>2, DefinitionsNest
  <1> QED
    BY <1>1, <1>3, <1>4, <1>5 DEF Definitions

------------------------------------------------------------------------------
\* A number is in a longest run of its neighbours.
LEMMA RunAround ==
  ASSUME NEW n \in Nat, NEW N \in SUBSET (1..n), NEW x \in N
  PROVE  \E r \in Runs(N) : x \in r[1]..r[2]
  <1> DEFINE A == {a \in 1..n : a <= x /\ a..x \subseteq N}
             B == {b \in 1..n : x <= b /\ x..b \subseteq N}
  <1>1. x \in 1..n /\ x \in A /\ x \in B /\ A \in SUBSET Nat /\ B \in SUBSET Nat /\ B \in SUBSET (1..n)
    OBVIOUS
  <1>2. PICK a \in A : \A m \in A : a <= m
    <2> HIDE DEF A
    <2> QED
      BY <1>1, LeastNumber
  <1>3. PICK b \in B : \A m \in B : m <= b
    <2>1. IsFiniteSet(1..n)
      BY FS_Interval
    <2>2. IsFiniteSet(B)
      BY <1>1, <2>1, FS_Subset
    <2> HIDE DEF B
    <2> QED
      BY <1>1, <2>2, GreatestNumber
  <1>4. a - 1 \notin N
    <2> SUFFICES ASSUME a - 1 \in N PROVE FALSE
      OBVIOUS
    <2>1. a \in Nat /\ a - 1 \in 1..n /\ a <= x /\ a..x \subseteq N
      BY <1>2
    <2>2. (a - 1)..x \subseteq N
      BY <2>1
    <2>3. a - 1 \in A
      BY <1>1, <2>1, <2>2
    <2> QED
      BY <1>2, <2>1, <2>3
  <1>5. b + 1 \notin N
    <2> SUFFICES ASSUME b + 1 \in N PROVE FALSE
      OBVIOUS
    <2>1. b \in Nat /\ b + 1 \in 1..n /\ x <= b /\ x..b \subseteq N
      BY <1>3
    <2>2. x..(b + 1) \subseteq N
      BY <1>1, <2>1
    <2>3. b + 1 \in B
      BY <1>1, <2>1, <2>2
    <2> QED
      BY <1>3, <2>1, <2>3
  <1>6. a \in N /\ b \in N /\ a <= x /\ x <= b /\ a..b \subseteq N
    BY <1>1, <1>2, <1>3
  <1>7. <<a, b>> \in Runs(N) /\ x \in a..b
    BY <1>1, <1>4, <1>5, <1>6 DEF Runs
  <1> QED
    BY <1>7

\* Two runs are the same or apart.
LEMMA RunsApart ==
  ASSUME NEW n \in Nat, NEW N \in SUBSET (1..n), NEW r \in Runs(N), NEW s \in Runs(N)
  PROVE  r = s \/ r[1]..r[2] \cap s[1]..s[2] = {}
  <1> SUFFICES ASSUME NEW x \in r[1]..r[2], x \in s[1]..s[2] PROVE r = s
    OBVIOUS
  <1>1. /\ r \in N \X N /\ r[1]..r[2] \subseteq N /\ r[1] - 1 \notin N /\ r[2] + 1 \notin N
        /\ s \in N \X N /\ s[1]..s[2] \subseteq N /\ s[1] - 1 \notin N /\ s[2] + 1 \notin N
    BY DEF Runs
  <1>2. r[1] \in Nat /\ r[2] \in Nat /\ s[1] \in Nat /\ s[2] \in Nat /\ x \in Nat
    <2>1. r[1] \in N /\ r[2] \in N /\ s[1] \in N /\ s[2] \in N /\ x \in N
      BY <1>1
    <2>2. N \in SUBSET Nat
      OBVIOUS
    <2> QED
      BY <2>1, <2>2
  <1>3. ~(r[1] < s[1])
    <2> SUFFICES ASSUME r[1] < s[1] PROVE FALSE
      OBVIOUS
    <2>1. s[1] - 1 \in r[1]..r[2]
      BY <1>2
    <2> QED
      BY <1>1, <2>1
  <1>4. ~(s[1] < r[1])
    <2> SUFFICES ASSUME s[1] < r[1] PROVE FALSE
      OBVIOUS
    <2>1. r[1] - 1 \in s[1]..s[2]
      BY <1>2
    <2> QED
      BY <1>1, <2>1
  <1>5. ~(r[2] < s[2])
    <2> SUFFICES ASSUME r[2] < s[2] PROVE FALSE
      OBVIOUS
    <2>1. r[2] + 1 \in s[1]..s[2]
      BY <1>2
    <2> QED
      BY <1>1, <2>1
  <1>6. ~(s[2] < r[2])
    <2> SUFFICES ASSUME s[2] < r[2] PROVE FALSE
      OBVIOUS
    <2>1. s[2] + 1 \in r[1]..r[2]
      BY <1>2
    <2> QED
      BY <1>1, <2>1
  <1> QED
    BY <1>1, <1>2, <1>3, <1>4, <1>5, <1>6

\* What no definition claims is in runs, each line that is not blank in one of them.
LEMMA RemainCovers ==
  ASSUME CutInv, Remain PROVE ChunksCover'
  <1>1. /\ text \in Texts /\ text' = text /\ text.language = "python" /\ Count > 0
        /\ visited = Len(text.definitions) /\ CutType
        /\ chunks = {ChunkOf(Kind(d), d.start, d.end) : d \in Standing}
        /\ claimed = UNION {d.start..d.end : d \in Standing}
    BY DEF CutInv, CutType, Remain, IsPython
  <1>2. PICK n, N, C : n = Count /\ N = (1..n) \ claimed /\ C = chunks'
    OBVIOUS
  <1>3. n \in Nat /\ Count' = n /\ N \in SUBSET (1..n)
    BY <1>1, <1>2, TextFits DEF Count
  <1>4. /\ \A c \in C : \/ \E d \in Standing : c = ChunkOf(Kind(d), d.start, d.end)
                        \/ \E r \in Runs(N) : c = ChunkOf("module_level", r[1], r[2])
        /\ \A d \in Standing : ChunkOf(Kind(d), d.start, d.end) \in C
        /\ \A r \in Runs(N) : ~(r[1]..r[2] \subseteq text.blank) => ChunkOf("module_level", r[1], r[2]) \in C
    <2>1. C = chunks \cup {ChunkOf("module_level", r[1], r[2]) :
                             r \in {s \in Runs(N) : ~(s[1]..s[2] \subseteq text.blank)}}
      BY <1>2 DEF Remain
    <2>2. \A c \in C : \/ \E d \in Standing : c = ChunkOf(Kind(d), d.start, d.end)
                       \/ \E r \in Runs(N) : c = ChunkOf("module_level", r[1], r[2])
      BY <1>1, <2>1
    <2>3. \A d \in Standing : ChunkOf(Kind(d), d.start, d.end) \in C
      BY <1>1, <2>1
    <2>4. \A r \in Runs(N) : ~(r[1]..r[2] \subseteq text.blank) => ChunkOf("module_level", r[1], r[2]) \in C
      BY <2>1
    <2> QED
      BY <2>2, <2>3, <2>4
  <1>5. ASSUME NEW line \in (1..n) \ text.blank PROVE \E c \in C : line \in c.start..c.end
    <2>1. CASE line \in claimed
      <3>1. PICK d \in Standing : line \in d.start..d.end
        BY <1>1, <2>1
      <3> QED
        BY <1>4, <3>1 DEF ChunkOf
    <2>2. CASE line \notin claimed
      <3>1. PICK r \in Runs(N) : line \in r[1]..r[2]
        BY <1>2, <1>3, <1>5, <2>2, RunAround
      <3> QED
        BY <1>4, <1>5, <3>1 DEF ChunkOf
    <2> QED
      BY <2>1, <2>2
  <1>6. ASSUME NEW c \in C, NEW d \in C
        PROVE  \/ c = d \/ c.start..c.end \cap d.start..d.end = {}
               \/ c.kind = "class" /\ d.start..d.end \subseteq c.start..c.end
               \/ d.kind = "class" /\ c.start..c.end \subseteq d.start..d.end
    <2>1. ASSUME NEW r \in Runs(N), NEW e \in Standing
          PROVE  r[1]..r[2] \cap e.start..e.end = {}
      BY <1>1, <1>2, <2>1 DEF Runs
    <2>2. ASSUME NEW d1 \in Standing, NEW d2 \in Standing,
                 c = ChunkOf(Kind(d1), d1.start, d1.end), d = ChunkOf(Kind(d2), d2.start, d2.end)
          PROVE  \/ c = d \/ c.start..c.end \cap d.start..d.end = {}
                 \/ c.kind = "class" /\ d.start..d.end \subseteq c.start..c.end
                 \/ d.kind = "class" /\ c.start..c.end \subseteq d.start..d.end
      <3>1. /\ d1.start \in Nat /\ d1.end \in Nat /\ d2.start \in Nat /\ d2.end \in Nat
            /\ \/ d1 = d2 \/ d1.end < d2.start \/ d2.end < d1.start
               \/ d1.class /\ d1.start <= d2.start /\ d2.end <= d1.end
               \/ d2.class /\ d2.start <= d1.start /\ d1.end <= d2.end
        BY <1>1, StandingNest
      <3>2. /\ c.start = d1.start /\ c.end = d1.end /\ d.start = d2.start /\ d.end = d2.end
            /\ d1.class => c.kind = "class"
            /\ d2.class => d.kind = "class"
        BY <2>2 DEF ChunkOf, Kind
      <3>3. d1 = d2 => c = d
        BY <2>2
      <3>4. d1.class => c.kind = "class"
        BY <2>2 DEF ChunkOf, Kind
      <3>5. d2.class => d.kind = "class"
        BY <2>2 DEF ChunkOf, Kind
      <3> QED
        BY <3>1, <3>2, <3>3, <3>4, <3>5
    <2>3. ASSUME NEW r \in Runs(N), NEW s \in Runs(N),
                 c = ChunkOf("module_level", r[1], r[2]), d = ChunkOf("module_level", s[1], s[2])
          PROVE  c = d \/ c.start..c.end \cap d.start..d.end = {}
      <3>1. r = s \/ r[1]..r[2] \cap s[1]..s[2] = {}
        BY <1>3, RunsApart
      <3> QED
        BY <2>3, <3>1 DEF ChunkOf
    <2>4. ASSUME NEW r \in Runs(N), NEW e \in Standing
          PROVE  /\ c = ChunkOf("module_level", r[1], r[2]) /\ d = ChunkOf(Kind(e), e.start, e.end)
                      => c.start..c.end \cap d.start..d.end = {}
                 /\ d = ChunkOf("module_level", r[1], r[2]) /\ c = ChunkOf(Kind(e), e.start, e.end)
                      => c.start..c.end \cap d.start..d.end = {}
      BY <2>1, <2>4 DEF ChunkOf
    <2> QED
      BY <1>4, <1>6, <2>2, <2>3, <2>4
  <1>7. ASSUME NEW i \in DOMAIN text.definitions
        PROVE  LET d == text.definitions[i]
               IN  ChunkOf(Kind(d), d.start, d.end) \in C \/ (d.inClass /\ d.end - d.start < MinStandalone - 1)
    <2> DEFINE d == text.definitions[i]
    <2>1. CASE Folded(d)
      <3>1. d.start \in Nat /\ d.end \in Nat /\ MinStandalone \in Nat
        BY <1>1, <1>7, TextFits DEF Definitions
      <3> QED
        BY <2>1, <3>1 DEF Folded
    <2>2. CASE ~Folded(d)
      <3>1. d \in Standing
        BY <1>1, <1>7, <2>2, TextFits DEF Standing
      <3> QED
        BY <1>4, <3>1
    <2> QED
      BY <2>1, <2>2
  <1>8. \A c, d \in C :
          \/ c = d \/ c.start..c.end \cap d.start..d.end = {}
          \/ \E outer \in {c, d} : outer.kind = "class"
               /\ \A inner \in {c, d} : inner.start..inner.end \subseteq outer.start..outer.end
    BY <1>6
  <1> QED
    BY <1>1, <1>2, <1>3, <1>5, <1>7, <1>8 DEF ChunksCover, Kind

\* Where the chunk of a declaration ends: before the next one, or with the file.
Ends(starts, n, start, end) ==
  /\ end \in start..n /\ (start + 1)..end \cap starts = {}
  /\ end = n \/ end + 1 \in starts

\* The chunk of a declaration ends somewhere.
LEMMA EndExists ==
  ASSUME NEW n \in Nat, NEW starts, NEW start \in 1..n
  PROVE  \E end : Ends(starts, n, start, end)
  <1> DEFINE B == {b \in start..n : (start + 1)..b \cap starts = {}}
  <1>1. start \in B /\ B \in SUBSET Nat /\ B \in SUBSET (1..n)
    OBVIOUS
  <1>2. PICK b \in B : \A m \in B : m <= b
    <2>1. IsFiniteSet(1..n)
      BY FS_Interval
    <2>2. IsFiniteSet(B)
      BY <1>1, <2>1, FS_Subset
    <2> HIDE DEF B
    <2> QED
      BY <1>1, <2>2, GreatestNumber
  <1>3. b = n \/ b + 1 \in starts
    <2> SUFFICES ASSUME b # n, b + 1 \notin starts PROVE FALSE
      OBVIOUS
    <2>1. b \in start..n /\ (start + 1)..b \cap starts = {} /\ b + 1 \in start..n
      BY <1>2
    <2>2. (start + 1)..(b + 1) \cap starts = {}
      BY <2>1
    <2>3. b + 1 \in B
      BY <2>1, <2>2
    <2> QED
      BY <1>2, <2>1, <2>3
  <1> QED
    BY <1>2, <1>3 DEF Ends

\* A script is cut from each declaration to the next, without a gap.
LEMMA DeclareCovers ==
  ASSUME CutInv, Declare PROVE ChunksCover'
  <1>1. text \in Texts /\ text' = text /\ text.language = "script" /\ Count > 0
    BY DEF CutInv, CutType, Declare
  <1>2. PICK n, starts, C : n = Count /\ starts = text.starts /\ C = chunks'
    OBVIOUS
  <1>3. n \in Nat /\ n > 0 /\ Count' = n /\ starts \in SUBSET (1..n)
    BY <1>1, <1>2, TextFits DEF Count
  <1> DEFINE Until(start) == CHOOSE end \in start..n :
                               /\ (start + 1)..end \cap starts = {}
                               /\ end = n \/ end + 1 \in starts
             First == IF 1 \in starts THEN {} ELSE {1}
  <1>4. C = {ChunkOf("declaration", start, Until(start)) : start \in starts}
              \cup (IF 1 \in starts THEN {} ELSE {ChunkOf("module_level", 1, Until(1))})
    BY <1>2 DEF Declare
  <1>5. ASSUME NEW start \in 1..n PROVE Ends(starts, n, start, Until(start))
    <2>1. \E end \in start..n : (start + 1)..end \cap starts = {} /\ (end = n \/ end + 1 \in starts)
      BY <1>3, EndExists DEF Ends
    <2> QED
      BY <2>1 DEF Ends
  <1> HIDE DEF Until
  <1>6. /\ \A c \in C : \E s \in starts \cup First : c.start = s /\ c.end = Until(s)
                        /\ c.kind = (IF s \in starts THEN "declaration" ELSE "module_level")
                        /\ c = ChunkOf(IF s \in starts THEN "declaration" ELSE "module_level", s, Until(s))
        /\ \A s \in starts \cup First : \E c \in C : c.start = s /\ c.end = Until(s)
    <2>1. ASSUME NEW s \in starts \cup First
          PROVE  ChunkOf(IF s \in starts THEN "declaration" ELSE "module_level", s, Until(s)) \in C
      BY <1>4, <2>1
    <2>2. ASSUME NEW c \in C
          PROVE  \E s \in starts \cup First :
                   c = ChunkOf(IF s \in starts THEN "declaration" ELSE "module_level", s, Until(s))
      BY <1>4, <2>2
    <2>3. \A kind, s, e : ChunkOf(kind, s, e).start = s /\ ChunkOf(kind, s, e).end = e
                         /\ ChunkOf(kind, s, e).kind = kind
      BY DEF ChunkOf
    <2> HIDE DEF First
    <2> QED
      BY <2>1, <2>2, <2>3
  <1>7. ASSUME NEW line \in 1..n PROVE \E c \in C : line \in c.start..c.end
    <2> DEFINE A == {s \in starts \cup First : s <= line}
    <2>1. 1 \in A /\ A \in SUBSET Nat /\ A \in SUBSET (1..n)
      <3>1. starts \cup First \in SUBSET (1..n) /\ 1 \in starts \cup First
        BY <1>3
      <3> HIDE DEF First
      <3>2. A \in SUBSET (1..n) /\ line \in 1..n
        BY <1>7, <3>1
      <3>3. 1 \in A
        BY <3>1, <3>2
      <3>4. A \in SUBSET Nat
        BY <3>2
      <3> QED
        BY <3>2, <3>3, <3>4
    <2>2. PICK s \in A : \A m \in A : m <= s
      <3>1. IsFiniteSet(1..n)
        BY <1>3, FS_Interval
      <3>2. IsFiniteSet(A)
        BY <2>1, <3>1, FS_Subset
      <3> HIDE DEF A
      <3> QED
        BY <2>1, <3>2, GreatestNumber
    <2>3. s \in 1..n /\ s \in starts \cup First /\ s <= line
      BY <2>1, <2>2
    <2>4. PICK e : e = Until(s) /\ e \in s..n /\ (e = n \/ e + 1 \in starts)
      BY <1>5, <2>3 DEF Ends
    <2>5. line <= e
      <3> SUFFICES ASSUME e < line PROVE FALSE
        BY <1>3, <2>3, <2>4
      <3>1. e + 1 \in starts /\ e + 1 <= line /\ e + 1 > s
        BY <1>3, <2>3, <2>4
      <3>2. e + 1 \in A
        BY <3>1
      <3>3. e + 1 <= s
        BY <2>2, <3>2
      <3> QED
        BY <2>3, <2>4, <3>1, <3>3
    <2>6. line \in s..e
      BY <2>3, <2>4, <2>5
    <2> QED
      BY <1>6, <2>3, <2>4, <2>6
  <1>8. ASSUME NEW s \in starts \cup First, NEW t \in starts \cup First, s < t
        PROVE  s..Until(s) \cap t..Until(t) = {}
    <2>1. s \in 1..n /\ t \in starts /\ t \in 1..n
      BY <1>3, <1>8
    <2>2. PICK e : e = Until(s) /\ e \in s..n /\ (s + 1)..e \cap starts = {}
      BY <1>5, <2>1 DEF Ends
    <2>3. e < t
      BY <1>8, <2>1, <2>2
    <2> QED
      BY <2>1, <2>2, <2>3
  <1>9. ASSUME NEW c \in C, NEW d \in C PROVE c = d \/ c.start..c.end \cap d.start..d.end = {}
    <2>1. PICK s \in starts \cup First : /\ c.start = s /\ c.end = Until(s)
            /\ c = ChunkOf(IF s \in starts THEN "declaration" ELSE "module_level", s, Until(s))
      BY <1>6
    <2>2. PICK t \in starts \cup First : /\ d.start = t /\ d.end = Until(t)
            /\ d = ChunkOf(IF t \in starts THEN "declaration" ELSE "module_level", t, Until(t))
      BY <1>6
    <2>3. s \in Nat /\ t \in Nat
      BY <1>3
    <2>4. CASE s = t
      BY <2>1, <2>2, <2>4
    <2>5. CASE s < t
      BY <1>8, <2>1, <2>2, <2>5
    <2>6. CASE t < s
      BY <1>8, <2>1, <2>2, <2>6
    <2> QED
      BY <2>3, <2>4, <2>5, <2>6
  <1> QED
    BY <1>1, <1>2, <1>3, <1>7, <1>9 DEF ChunksCover

\* A file that does not parse is one chunk.
LEMMA UnparsedCovers ==
  ASSUME CutInv, Unparsed PROVE ChunksCover'
  <1>1. /\ text' = text /\ ~text.parses /\ chunks' = {ChunkOf("unparsed_module", 1, Count)} /\ Count' = Count
    BY DEF Unparsed, Count
  <1> QED
    BY <1>1 DEF ChunksCover, ChunkOf

\* An empty file has no line to lose.
LEMMA NothingCovers ==
  ASSUME CutInv, Nothing PROVE ChunksCover'
  <1>1. /\ text \in Texts /\ text' = text /\ chunks' = chunks /\ ~cut /\ (text.language = "other" \/ Count = 0)
        /\ Count' = Count
    BY DEF CutInv, CutType, Nothing, Count
  <1>2. ASSUME Count = 0 PROVE chunks = {} /\ DOMAIN text.definitions = {}
    <2>1. visited = 0 /\ Standing = {}
      BY <1>1, <1>2 DEF CutInv, Standing
    <2>2. \A i \in DOMAIN text.definitions : FALSE
      <3>1. text.lines \in Nat /\ text.lines <= 0
        BY <1>1, <1>2, TextFits
      <3>2. \A i \in DOMAIN text.definitions :
              /\ text.definitions[i].start \in Nat /\ text.definitions[i].end \in Nat
              /\ 1 <= text.definitions[i].start /\ text.definitions[i].start <= text.definitions[i].end
              /\ text.definitions[i].end <= text.lines
        BY <1>1, TextFits, DefinitionsNest DEF Definitions
      <3> QED
        BY <3>1, <3>2
    <2> QED
      BY <1>1, <2>1, <2>2 DEF CutInv
  <1>3. 1..0 = {}
    OBVIOUS
  <1> QED
    BY <1>1, <1>2, <1>3 DEF ChunksCover

\* A definition is visited.
LEMMA VisitKeeps ==
  ASSUME CutInv, Visit PROVE CutInv'
  <1>1. /\ text \in Texts /\ visited \in 0..Len(text.definitions) /\ visited < Len(text.definitions)
        /\ text' = text /\ cut' = cut /\ ~cut /\ visited' = visited + 1 /\ text.language = "python" /\ Count > 0
        /\ chunks = {ChunkOf(Kind(d), d.start, d.end) : d \in Standing}
        /\ claimed = UNION {d.start..d.end : d \in Standing} /\ Count' = Count
    BY DEF CutInv, CutType, Visit, IsPython, Count
  <1>2. PICK d : d = text.definitions[visited + 1]
    OBVIOUS
  <1>3. /\ chunks' = IF Folded(d) THEN chunks ELSE chunks \cup {ChunkOf(Kind(d), d.start, d.end)}
        /\ claimed' = IF Folded(d) THEN claimed ELSE claimed \cup (d.start..d.end)
    BY <1>2 DEF Visit, Kind
  <1>4. Standing' = IF Folded(d) THEN Standing ELSE Standing \cup {d}
    <2>1. 1..visited' = 1..visited \cup {visited + 1} /\ visited + 1 \notin 1..visited
      BY <1>1
    <2>2. Standing' = {text.definitions[i] : i \in {j \in 1..visited' : ~Folded(text.definitions[j])}}
      BY <1>1 DEF Standing, Folded
    <2> QED
      BY <1>2, <2>1, <2>2 DEF Standing
  <1>5. /\ chunks' = {ChunkOf(Kind(e), e.start, e.end) : e \in Standing'}
        /\ claimed' = UNION {e.start..e.end : e \in Standing'}
    BY <1>1, <1>3, <1>4
  <1>6. CutType'
    <2>1. Len(text.definitions) \in Nat /\ cut \in BOOLEAN
      BY <1>1, TextFits DEF CutInv, CutType
    <2>2. visited + 1 \in 0..Len(text.definitions)
      BY <1>1, <2>1
    <2> QED
      BY <1>1, <2>1, <2>2 DEF CutType
  <1>7. ChunksCover'
    BY <1>1 DEF ChunksCover
  <1>8. ~(text'.language # "python" \/ Count' = 0)
    BY <1>1
  <1> QED
    BY <1>5, <1>6, <1>7, <1>8 DEF CutInv, Kind

\* No step of the cutting breaks it.
LEMMA CutStep == CutInv /\ [CutNext]_cutVars => CutInv'
  <1> SUFFICES ASSUME CutInv, [CutNext]_cutVars PROVE CutInv'
    OBVIOUS
  <1>1. CASE Visit
    BY <1>1, VisitKeeps
  <1>2. CASE Unparsed \/ Remain \/ Declare \/ Nothing
    <2>1. text' = text /\ visited' = visited /\ cut' = TRUE
      BY <1>2 DEF Unparsed, Remain, Declare, Nothing
    <2>2. CutType'
      BY <2>1 DEF CutInv, CutType
    <2>3. ChunksCover'
      BY <1>2, RemainCovers, DeclareCovers, UnparsedCovers, NothingCovers
    <2> QED
      BY <2>1, <2>2, <2>3 DEF CutInv
  <1>3. CASE UNCHANGED cutVars
    <2>1. text' = text /\ visited' = visited /\ chunks' = chunks /\ claimed' = claimed /\ cut' = cut
      BY <1>3 DEF cutVars
    <2>2. Count' = Count
      BY <2>1 DEF Count
    <2>3. Standing' = Standing
      BY <2>1 DEF Standing, Folded
    <2>4. CutType'
      BY <2>1 DEF CutInv, CutType
    <2>5. ChunksCover'
      BY <2>1, <2>2 DEF CutInv, ChunksCover
    <2> QED
      BY <2>1, <2>2, <2>3, <2>4, <2>5 DEF CutInv, Kind
  <1> QED
    BY <1>1, <1>2, <1>3 DEF CutNext

\* Nothing is cut at first.
LEMMA CutInitially == CutInit => CutInv
  <1> SUFFICES ASSUME CutInit PROVE CutInv
    OBVIOUS
  <1>1. /\ text \in Texts /\ visited = 0 /\ chunks = {} /\ claimed = {} /\ cut = FALSE
        /\ Len(text.definitions) \in Nat
    BY TextFits DEF CutInit
  <1>2. Standing = {}
    BY <1>1 DEF Standing
  <1>3. CutType
    <2>1. visited \in 0..Len(text.definitions)
      BY <1>1
    <2>2. cut \in BOOLEAN
      BY <1>1
    <2> QED
      BY <1>1, <2>1, <2>2 DEF CutType
  <1>4. ChunksCover
    BY <1>1 DEF ChunksCover
  <1>5. chunks = {ChunkOf(Kind(d), d.start, d.end) : d \in Standing} /\ claimed = UNION {d.start..d.end : d \in Standing}
    BY <1>1, <1>2
  <1> QED
    BY <1>1, <1>3, <1>4, <1>5 DEF CutInv

\* However a file is laid out, its chunks lose no line that is not blank and overlap only
\* where one is of a class around the other, and a definition that stands alone has a
\* chunk of its lines (chunk_source).
THEOREM FileIsCovered == CutSpec => []ChunksCover
  <1>1. CutInv => ChunksCover
    BY DEF CutInv
  <1> QED
    BY CutInitially, CutStep, <1>1, PTL DEF CutSpec
==============================================================================
