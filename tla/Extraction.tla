----------------------------- MODULE Extraction -----------------------------
(***************************************************************************)
(* From the text of a document to one extracted record: segmentation       *)
(* (agents/segment_text.py), chunks that fit one request, the selection of *)
(* what a prompt shows (agents/extract_agent.py), one audited LLM call per  *)
(* chunk (LlmAudit) and the merge of their results (agentic/specialists.py) *)
(* or, in the classic pipeline, one call and the tolerant parsing of its    *)
(* answer (agents/extract_agent.py: _parse).                                *)
(* Text is counted in characters; what is in it is the LLM's business.     *)
(***************************************************************************)
EXTENDS Integers, Sequences, FiniteSets

CONSTANTS
  Budget,      \* config.EXTRACT_MAX_CHARS
  TextLines,   \* lines that a text may have: [heading, first, size, page]
  Blocks,      \* blocks that a page of a file may have, likewise
  MaxLines,    \* bound: lines or blocks of a document
  Outputs,     \* what the LLM may find in a chunk: [scalar, items, mentions, routes]
  Answers,     \* what it may answer as free JSON, see Parsed
  Modes,       \* config.PIPELINE_MODE, of a deployment: "agentic", "classic"
  Job, NoJob, MaxLost

Overhead == 80    \* _chunk_segments: estimated cost of a block's first line
TitleMax == 120
Untitled == 10

Lines == TextLines \cup Blocks

\* "Article 1" and "art. 1" are articles, "Section 1" is as a chapter; "Art1"
\* is a heading that _build_prompt does not know.
Headings == {"annex", "article", "chapter", "bare", "none"}

\* What becomes of a value that is converted: kept, dropped, or an exception.
Conversions == {"good", "bad", "fatal"}

\* A line of text is its own first line, and is on page 0.
ASSUME ConstantsOK ==
  /\ Budget \in Nat /\ MaxLines \in Nat /\ Modes \subseteq {"agentic", "classic"}
  /\ \A l \in Lines : /\ l.heading \in Headings /\ l.size \in Nat \ {0}
                      /\ l.first \in 1..l.size /\ l.page \in Nat
  /\ \A l \in TextLines : l.first = l.size /\ l.page = 0
  /\ \A o \in Outputs : o.scalar \in 0..100
  /\ \A a \in Answers :
       /\ a.is \in {"object", "other", "unreadable"}
       /\ a.scalar.state \in Conversions /\ a.scalar.conf \in 0..100
       /\ \A x \in a.items.of \cup a.mentions.of \cup a.routes.of : x[3] \in Conversions

VARIABLES
  pc,       \* "segment", "chunk", "extract", "calling", "parse", "merge", "done", "raised"
  mode,     \* the pipeline that runs
  lines,    \* the non-empty lines of the text, or the blocks of the file
  segs,     \* segments: [title, heading, size, start, end, lines], start and end
            \* pages, lines the numbers of its lines
  chunks,   \* sequences of segment indexes
  partials, \* one LLM result per chunk done
  shown,    \* history: segment indexes that some prompt contained
  answer,   \* the classic pipeline's answer, a singleton, or nothing yet
  result,   \* the merged record
  calls,    \* history: the requests that ended: [prompt, outcome]
  audit, starts, writes

Audit == INSTANCE LlmAudit

textVars == <<mode, lines, segs, chunks>>
logVars == <<audit, starts, writes>>
vars == <<pc, textVars, partials, shown, answer, result, calls, logVars>>

Smaller(m, n) == IF m < n THEN m ELSE n

(***************************************************************************)
(* read_agent.py: _segment on the blocks of a file, and segment_text on    *)
(* the lines of a text: a heading opens a segment, what comes before the   *)
(* first one is an untitled segment.  Both pipelines read files and texts, *)
(* and a .docx is read as a text.                                          *)
(***************************************************************************)
\* The first line of a block decides, and is the title.
Opened(n) ==
  [title   |-> IF lines[n].heading = "none" THEN Untitled
               ELSE Smaller(lines[n].first, TitleMax),
   heading |-> lines[n].heading, size |-> lines[n].size,
   start   |-> lines[n].page, end |-> lines[n].page, lines |-> {n}]

\* Joined by "\n".
AddTo(s, n) ==
  LET last == s[Len(s)]
  IN  [s EXCEPT ![Len(s)] =
         [title |-> last.title, heading |-> last.heading,
          size  |-> last.size + 1 + lines[n].size,
          start |-> last.start, end |-> lines[n].page, lines |-> last.lines \cup {n}]]

AddLine(s, n) ==
  IF s = << >> \/ lines[n].heading # "none" THEN Append(s, Opened(n)) ELSE AddTo(s, n)

\* The loop: the segments of the first n lines.
SegmentsOf[n \in 0..Len(lines)] ==
  IF n = 0 THEN << >> ELSE AddLine(SegmentsOf[n - 1], n)

(***************************************************************************)
(* _chunk_segments: the chunks that are full, the current one and cur_len. *)
(***************************************************************************)
Estimate(i) == segs[i].size + Overhead

NoChunks == [full |-> << >>, cur |-> << >>, len |-> 0]

\* Mutants: the segment that does not fit is dropped; the budget is tested
\* before the segment is counted.
AddSegmentDropped(c, i) ==
  IF c.cur # << >> /\ c.len + Estimate(i) > Budget
  THEN [full |-> Append(c.full, c.cur), cur |-> << >>, len |-> 0]
  ELSE [full |-> c.full, cur |-> Append(c.cur, i), len |-> c.len + Estimate(i)]

AddSegmentLate(c, i) ==
  IF c.cur # << >> /\ c.len > Budget
  THEN [full |-> Append(c.full, c.cur), cur |-> <<i>>, len |-> Estimate(i)]
  ELSE [full |-> c.full, cur |-> Append(c.cur, i), len |-> c.len + Estimate(i)]

AddSegment(c, i) ==
  IF c.cur # << >> /\ c.len + Estimate(i) > Budget
  THEN [full |-> Append(c.full, c.cur), cur |-> <<i>>, len |-> Estimate(i)]
  ELSE [full |-> c.full, cur |-> Append(c.cur, i), len |-> c.len + Estimate(i)]

\* The loop: the first n segments, cut.
CutOf[n \in 0..Len(segs)] == IF n = 0 THEN NoChunks ELSE AddSegment(CutOf[n - 1], n)

\* A text without segments is one empty chunk.
ChunksOf ==
  IF mode = "classic" THEN <<[i \in DOMAIN segs |-> i]>>
  ELSE Append(CutOf[Len(segs)].full, CutOf[Len(segs)].cur)

(***************************************************************************)
(* _build_prompt: blocks by priority while the budget lasts                *)
(***************************************************************************)
\* A number in decimal; bound: ten digits.
PowersOfTen == {10, 100, 1000, 10000, 100000, 1000000, 10000000, 100000000, 1000000000}
Digits(n) == 1 + Cardinality({p \in PowersOfTen : p <= n})

\* "\n[index] (p.start-end) " before the title, "\n" after it.
Prefix(i) == 11 + Digits(i - 1) + Digits(segs[i].start) + Digits(segs[i].end)

Block(i) == Prefix(i) + segs[i].title + segs[i].size

Priority(i) ==
  CASE segs[i].heading = "annex"            -> 0
    [] segs[i].heading = "article"          -> 1
    [] segs[i].heading = "chapter"          -> 2
    [] segs[i].heading \in {"bare", "none"} -> 3

Precedes(i, j) == Priority(i) < Priority(j) \/ (Priority(i) = Priority(j) /\ i < j)

\* Mutant: blocks in the order of the document.
FirstInOrder(rest) == CHOOSE i \in rest : \A j \in rest : i <= j

First(rest) == CHOOSE i \in rest : \A j \in rest \ {i} : Precedes(i, j)

\* The next block is chosen if it fits what is left of the budget.
Choose(sel) ==
  LET i    == First(sel.rest)
      fits == Block(i) <= sel.budget
  IN  [rest   |-> sel.rest \ {i},
       budget |-> IF fits THEN sel.budget - Block(i) ELSE sel.budget,
       chosen |-> IF fits THEN sel.chosen \cup {i} ELSE sel.chosen]

\* The loop over a set of segments: what the first n of them by priority leave.
Selection(S) ==
  LET sel[n \in 0..Cardinality(S)] ==
        IF n = 0 THEN [rest |-> S, budget |-> Budget, chosen |-> {}] ELSE Choose(sel[n - 1])
  IN  sel

InChunk(k) == {chunks[k][p] : p \in DOMAIN chunks[k]}

ChosenOf(S) == Selection(S)[Cardinality(S)].chosen

(***************************************************************************)
(* _merge_extractions.  A found item is <<key, spelling>>, a route is      *)
(* <<category and modules, condition>>: both are unique by the first part. *)
(***************************************************************************)
Nothing == [scalar |-> 0, items |-> {}, mentions |-> {}, routes |-> {}]

AddNew(old, new) ==
  old \cup UNION {IF \E x \in old : x[1] = k THEN {}
                  ELSE {CHOOSE y \in new : y[1] = k} : k \in {y[1] : y \in new}}

\* Mutant: lists come from the first chunk that has any.
MergeFirst(a, b) ==
  [scalar |-> IF b.scalar > a.scalar THEN b.scalar ELSE a.scalar,
   items  |-> IF a.items # {} THEN a.items ELSE b.items,
   mentions |-> IF a.mentions # {} THEN a.mentions ELSE b.mentions,
   routes |-> IF a.routes # {} THEN a.routes ELSE b.routes]

MergeTwo(a, b) ==
  [scalar |-> IF b.scalar > a.scalar THEN b.scalar ELSE a.scalar,
   items  |-> AddNew(a.items, b.items),
   mentions |-> a.mentions \cup b.mentions,
   routes |-> AddNew(a.routes, b.routes)]

\* The loop over the first n results.
MergeOf[n \in 0..Len(partials)] ==
  IF n = 0 THEN Nothing ELSE MergeTwo(MergeOf[n - 1], partials[n])

Merged == IF Len(partials) = 1 THEN partials[1] ELSE MergeOf[Len(partials)]

(***************************************************************************)
(* extract_agent.py: _loads, _field, _fields, _parse.  A value of the JSON  *)
(* object is [is, of]: "absent", "null" (or 0, or false), "number" (any     *)
(* other, or true), "text", or "list" with elements <<key, spelling,        *)
(* conversion>>.  Bad is what is not an object, has no value, or has a      *)
(* number that is none or out of its range: a ValueError or a TypeError.    *)
(* Fatal is a number that int() or float() cannot hold (1e999, or 400       *)
(* digits): an OverflowError, which nothing catches; among the mentions, a  *)
(* text that ExtractOutput refuses (half of a surrogate pair).  Conditions  *)
(* are parsed as routes are, the summary as a mention.                      *)
(***************************************************************************)
ScalarOf(v) == IF v.state = "good" THEN v.conf ELSE 0

Good(v) == {x \in v.of : x[3] = "good"}

\* Mutant: one bad element discards its list.
KeptAllOrNone(v) == IF Good(v) = v.of THEN {<<x[1], x[2]>> : x \in v.of} ELSE {}

\* The elements are taken one by one, and one that is bad is dropped.
Kept(v) == {<<x[1], x[2]>> : x \in Good(v)}

FatalIn(a) ==
  \/ a.scalar.state = "fatal"
  \/ \E x \in a.items.of \cup a.mentions.of \cup a.routes.of : x[3] = "fatal"

\* json.loads refuses an integer of more than 4300 digits with an exception of
\* another kind.  Further on, the comprehension iterates over the mentions
\* before it asks for a list, and "or []" helps where it is written.
ParseRaises(a) ==
  \/ a.is = "unreadable"
  \/ /\ a.is = "object"
     /\ a.mentions.is \in {"null", "number"} \/ a.routes.is = "number" \/ FatalIn(a)

\* What is not JSON, or not an object, is an empty record.
Parsed(a) ==
  IF a.is = "other" THEN Nothing
  ELSE [scalar |-> ScalarOf(a.scalar), items |-> Kept(a.items),
        mentions |-> Kept(a.mentions), routes |-> Kept(a.routes)]

(***************************************************************************)
Init ==
  /\ pc = "segment"
  /\ mode \in Modes
  /\ lines \in UNION {[1..n -> TextLines] \cup [1..n -> Blocks] : n \in 0..MaxLines}
  /\ \A m, n \in DOMAIN lines : m < n => lines[m].page <= lines[n].page
  /\ segs = << >> /\ chunks = << >> /\ partials = << >>
  /\ shown = {}
  /\ answer = << >>
  /\ result = Nothing
  /\ calls = << >>
  /\ Audit!AuditInit

Segment ==
  /\ pc = "segment"
  /\ segs' = SegmentsOf[Len(lines)]
  /\ pc' = "chunk"
  /\ UNCHANGED <<mode, lines, chunks, partials, shown, answer, result, calls, logVars>>

Chunk ==
  /\ pc = "chunk"
  /\ chunks' = ChunksOf
  /\ pc' = "extract"
  /\ UNCHANGED <<mode, lines, segs, partials, shown, answer, result, calls, logVars>>

Number == Len(partials) + 1      \* of the request, and of its prompt

\* The request with this prompt has ended, whatever the audit makes of it.
Ended(prompt, outcome) ==
  calls' = Append(calls, [prompt |-> prompt, outcome |-> outcome])

\* model.invoke: one request per chunk, in order, an empty chunk as well.
Invoke ==
  /\ pc = "extract" /\ mode = "agentic"
  /\ shown' = shown \cup ChosenOf(InChunk(Number))
  /\ Audit!OnChatModelStart(Number, Number)
  /\ pc' = "calling"
  /\ UNCHANGED <<textVars, partials, answer, result, calls>>

InvokeReturns ==
  /\ pc = "calling"
  /\ Ended(Number, "answer")
  /\ Audit!OnLlmEnd(Number)
  /\ \E found \in Outputs : partials' = Append(partials, found)
  /\ pc' = IF Number = Len(chunks) THEN "merge" ELSE "extract"
  /\ UNCHANGED <<textVars, shown, answer, result>>

\* The retries are used up, or the worker is stopped: the run raises.
InvokeFails ==
  /\ pc = "calling"
  /\ \E outcome \in {"error", "interrupt"} : Ended(Number, outcome)
  /\ Audit!OnLlmError(Number)
  /\ pc' = "raised"
  /\ UNCHANGED <<textVars, partials, shown, answer, result>>

\* The answer came, and is not an ExtractionResult.
InvokeMisfits ==
  /\ pc = "calling"
  /\ Ended(Number, "answer")
  /\ Audit!OnLlmEnd(Number)
  /\ pc' = "raised"
  /\ UNCHANGED <<textVars, partials, shown, answer, result>>

\* ExtractAgent.run: one call through llm_client ...
Complete ==
  /\ pc = "extract" /\ mode = "classic"
  /\ shown' = ChosenOf(InChunk(1))
  /\ \E outcome \in {"answer", "error", "interrupt"} :
       /\ Ended(1, outcome)
       /\ Audit!Complete(1, outcome)
       /\ pc' = IF outcome = "answer" THEN "parse" ELSE "raised"
       /\ IF outcome = "answer" THEN \E a \in Answers : answer' = <<a>> ELSE UNCHANGED answer
  /\ UNCHANGED <<textVars, partials, result>>

\* ... and the parsing of what it returned.
Parse ==
  /\ pc = "parse"
  /\ pc' = IF ParseRaises(answer[1]) THEN "raised" ELSE "merge"
  /\ partials' = IF ParseRaises(answer[1]) THEN partials ELSE <<Parsed(answer[1])>>
  /\ UNCHANGED <<textVars, shown, answer, result, calls, logVars>>

Merge ==
  /\ pc = "merge"
  /\ result' = Merged
  /\ pc' = "done"
  /\ UNCHANGED <<textVars, partials, shown, answer, calls, logVars>>

Next ==
  \/ Segment \/ Chunk
  \/ Invoke \/ InvokeReturns \/ InvokeFails \/ InvokeMisfits
  \/ Complete \/ Parse
  \/ Merge

Spec == Init /\ [][Next]_vars

(***************************************************************************)
(* Properties                                                              *)
(***************************************************************************)
\* Where a segment is read: <<chunk, position>>, in reading order.
Places == UNION {{<<k, p>> : p \in DOMAIN chunks[k]} : k \in DOMAIN chunks}
LinesAt(c) == segs[chunks[c[1]][c[2]]].lines
Before(c, d) == c[1] < d[1] \/ (c[1] = d[1] /\ c[2] < d[2])

\* No line is lost and none is read twice on the way into the chunks, and they
\* are read in their order.
EveryLineInOneChunk ==
  chunks # << >> =>
    /\ \A n \in DOMAIN lines : Cardinality({c \in Places : n \in LinesAt(c)}) = 1
    /\ \A c, d \in Places :
         Before(c, d) => \A m \in LinesAt(c), n \in LinesAt(d) : m < n

Covered == DOMAIN segs = shown

\* "fully covered, not truncated" (specialists.py:95-97), as far as it goes:
\* when each segment fits one request and its first line is within the
\* estimate, the chunks are cut so that no prompt omits anything.
CoveredWhenEstimated ==
  pc = "done" /\ mode = "agentic"
  /\ (\A i \in DOMAIN segs :
        Estimate(i) <= Budget /\ Prefix(i) + segs[i].title <= Overhead)
    => Covered

\* "annexes, articles survive and verbose preamble/recitals yield first"
\* (extract_agent.py:123-125), as far as it goes: a segment is omitted for one
\* of a lower priority in its chunk only if it is the longer block of the two.
LongerYieldsFirst ==
  pc = "done" =>
    \A k \in DOMAIN chunks : \A i \in InChunk(k) \ shown, j \in InChunk(k) \cap shown :
      Precedes(i, j) => Block(i) > Block(j)

\* The merged record has the best scalar and a representative of everything
\* that any chunk found.
MergeKeepsAllKeys ==
  pc = "done" =>
    /\ \A k \in DOMAIN partials : partials[k].scalar <= result.scalar
    /\ \A k \in DOMAIN partials :
         /\ \A x \in partials[k].items : \E y \in result.items : y[1] = x[1]
         /\ partials[k].mentions \subseteq result.mentions
         /\ \A x \in partials[k].routes : \E y \in result.routes : y[1] = x[1]

\* "a missing/odd field degrades to None/[] rather than crashing the pipeline"
\* (extract_agent.py:9-11), as far as it goes: unless what should be a list
\* is a number, or null in place of the mentions, or a number or text is of
\* those that no conversion takes, an answer that came is stored, and whatever
\* is sound in it survives what is not.
OddFieldsDegrade ==
  mode = "classic" /\ answer # << >> /\ pc \in {"raised", "done"} =>
    LET a == answer[1]
    IN  /\ pc = "raised" =>
             \/ a.is = "unreadable" \/ FatalIn(a)
             \/ "number" \in {a.mentions.is, a.routes.is} \/ a.mentions.is = "null"
        /\ pc = "done" /\ a.is = "object" =>
             /\ a.scalar.state = "good" => result.scalar = a.scalar.conf
             /\ \A x \in Good(a.items) : <<x[1], x[2]>> \in result.items
             /\ \A x \in Good(a.mentions) : <<x[1], x[2]>> \in result.mentions
             /\ \A x \in Good(a.routes) : <<x[1], x[2]>> \in result.routes

\* The same sentence as it stands: only a call that fails ends the run.
\* The code does not keep this; see the README.
NeverCrashes == mode = "classic" /\ pc = "raised" => answer = << >>

\* "We write an llm_audit_log row for EVERY call - successful OR failed"
\* (llm_client.py:8-12, agentic/audit.py:3-6): the requests of the run that
\* ended, those of a run that raised too, have each had one row written for
\* them; when its transaction committed the row is there, in order, with the
\* prompt that was sent and what came of it, and no start stays pending.  (For
\* an interrupted call see Audit!ResponseOf.)
EveryCallIsLogged ==
  LET Rowed == {i \in DOMAIN writes : writes[i] # 0}
  IN  /\ DOMAIN writes = DOMAIN calls
      /\ \A i \in Rowed :
           /\ writes[i] \in DOMAIN audit
           /\ audit[writes[i]].prompt = calls[i].prompt
           /\ calls[i].outcome = "answer" => audit[writes[i]].response = "text"
           /\ calls[i].outcome = "error" => audit[writes[i]].response = "[LLM_CALL_FAILED]"
      /\ \A i, j \in Rowed : i < j => writes[i] < writes[j]
      /\ \A r \in DOMAIN audit : \E i \in Rowed : writes[i] = r
      /\ pc # "calling" => DOMAIN starts = {}
      /\ pc \in {"merge", "done"} => Len(calls) = Len(chunks)
      /\ pc = "raised" => Len(calls) = Len(partials) + 1

\* "queries/UI can reliably tell a failed call from a successful one"
\* (llm_client.py:33-35).
\* The code does not keep this; see the README.
FailuresAreMarked ==
  \A i \in DOMAIN writes : writes[i] # 0 /\ calls[i].outcome # "answer" =>
    audit[writes[i]].response = "[LLM_CALL_FAILED]"
=============================================================================
