------------------------------ MODULE EditApply ------------------------------
(***************************************************************************)
(* Edits a model proposes, from the text of its answer to the new content  *)
(* of the file: the parsers, FuzzyMatcher::find_block and                  *)
(* apply_edit_operation.  A proposal is applied to whatever the content is *)
(* by then, not to the one the model saw.  A text is a sequence of         *)
(* characters, an answer a sequence of lines some of which are markers.    *)
(***************************************************************************)
EXTENDS Integers, SequencesExt, FiniteSets

CONSTANTS
  Chars,        \* what texts are made of; a marker counts as one
  Contents,     \* contents a file may have at first
  Answers,      \* answers of the model: [format, ...]
  NL,           \* the newline character
  MaxEdits,     \* bound
  None

VARIABLES
  content,      \* the file
  op,           \* the parsed proposal, or None
  last,         \* the last application: before, op, result
  edits         \* number of proposals so far

vars == <<content, op, last, edits>>

Search == <<"<<<SEARCH">>
Replace == <<"<<<REPLACE">>
End == <<"<<<END">>

ASSUME ContentsAssumption == NL \in Chars /\ Contents \subseteq Seq(Chars)

(* Of an answer with a block, block says what its author meant: the lines from
   the SEARCH to the REPLACE that follows it, and from there to the END. *)
ASSUME AnswersAssumption ==
  \A a \in Answers :
    \/ a.format = "whole-file" /\ a.text \in Seq(Chars)
    \/ /\ a.format = "tool-use-edit"
       /\ a.edits \in Seq(ToSet(a.edits))
       /\ \A e \in ToSet(a.edits) : e.search \in Seq(Chars) /\ e.replace \in Seq(Chars)
    \/ /\ a.format = "search-replace"
       /\ a.lines \in Seq(Seq(Chars))
       /\ a.block # None =>
            \E i, j, k \in DOMAIN a.lines :
              /\ i < j /\ j < k
              /\ a.lines[i] = Search /\ a.lines[j] = Replace /\ a.lines[k] = End
              /\ \A m \in (1..j - 1) \ {i} : a.lines[m] \notin {Search, Replace}
              /\ \A m \in j + 1..k - 1 : a.lines[m] # End
              /\ a.block = <<SubSeq(a.lines, i + 1, j - 1), SubSeq(a.lines, j + 1, k - 1)>>

-----------------------------------------------------------------------------
(* Parsing. *)

(* Lines joined by newlines; and a text without the newlines at both ends. *)
Joined(lines) ==
  LET upTo[i \in 0..Len(lines)] ==
        CASE i = 0 -> <<>>
          [] i = 1 -> lines[1]
          [] OTHER -> upTo[i - 1] \o <<NL>> \o lines[i]
  IN  upTo[Len(lines)]

Trimmed(text) ==
  LET kept == {i \in DOMAIN text : text[i] # NL} IN
  IF kept = {} THEN <<>> ELSE SubSeq(text, Min(kept), Max(kept))

(* consume_block: from a marker to the next marker that ends its block, or to
   the end of the answer. *)
Block(lines, at) ==
  LET ender == IF lines[at] = Search THEN Replace ELSE End
      ends == {i \in (at + 1)..Len(lines) : lines[i] = ender}
      to == IF ends = {} THEN Len(lines) ELSE Min(ends) - 1
  IN  Trimmed(Joined(SubSeq(lines, at + 1, to)))

Failure(why) == [ok |-> FALSE, why |-> why]
Edit(search, replace) == [search |-> search, replace |-> replace]
Batch(seq) == [ok |-> TRUE, whole |-> FALSE, edits |-> seq]

Blocks(lines) == {i \in DOMAIN lines : lines[i] \in {Search, Replace}}

(* A mistake: the last block of a kind counts, not the first. *)
ParseSearchReplaceLast(lines) ==
  LET last2 == Max(Blocks(lines) \ {Max(Blocks(lines))}) IN
  IF \A i, j \in Blocks(lines) : i = j THEN Failure("parse")
  ELSE Batch(<<Edit(Block(lines, last2), Block(lines, Max(Blocks(lines))))>>)

(* SearchReplaceParser: the first block is what to look for and the second
   what to put there; the others are passed over. *)
ParseSearchReplace(lines) ==
  LET first == Min(Blocks(lines))
      second == Min(Blocks(lines) \ {first})
  IN  IF \A i, j \in Blocks(lines) : i = j THEN Failure("parse")
      ELSE Batch(<<Edit(Block(lines, first), Block(lines, second))>>)

ParseToolUse(seq) ==
  IF seq = <<>> \/ \E i \in DOMAIN seq : seq[i].search = <<>>
  THEN Failure("invalid tool use") ELSE Batch(seq)

Parse(answer) ==
  CASE answer.format = "search-replace" -> ParseSearchReplace(answer.lines)
    [] answer.format = "whole-file" -> [ok |-> TRUE, whole |-> TRUE, text |-> answer.text]
    [] answer.format = "tool-use-edit" -> ParseToolUse(answer.edits)

-----------------------------------------------------------------------------
(* str::lines and strsim::normalized_levenshtein. *)

LineStarts(text) ==
  LET upTo[i \in 0..Len(text)] ==
        CASE i = 0 -> <<1>>
          [] i # 0 /\ text[i] = NL -> Append(upTo[i - 1], i + 1)
          [] OTHER -> upTo[i - 1]
  IN  upTo[Len(text)]

(* A newline at the end begins no line. *)
LineCount(text) ==
  LET starts == LineStarts(text) IN
  IF Last(starts) > Len(text) THEN Len(starts) - 1 ELSE Len(starts)

Line(text, k) ==
  LET starts == LineStarts(text) IN
  SubSeq(text, starts[k], IF k = Len(starts) THEN Len(text) ELSE starts[k + 1] - 2)

Window(text, k, n) == Joined([i \in 1..n |-> Line(text, k + i - 1)])

Smaller(a, b) == IF a <= b THEN a ELSE b
Larger(a, b) == IF a <= b THEN b ELSE a

(* Row by row; entry j + 1 is the distance to the first j characters of t. *)
NextRow(row, c, t) ==
  LET cells[j \in 0..Len(t)] ==
        IF j = 0 THEN <<row[1] + 1>>
        ELSE LET left == cells[j - 1] IN
             Append(left, Smaller(Smaller(row[j + 1], Last(left)) + 1,
                                  row[j] + (IF c = t[j] THEN 0 ELSE 1)))
  IN  cells[Len(t)]

Levenshtein(s, t) ==
  LET rows[i \in 0..Len(s)] ==
        IF i = 0 THEN [j \in 1..(Len(t) + 1) |-> j - 1] ELSE NextRow(rows[i - 1], s[i], t)
  IN  rows[Len(s)][Len(t) + 1]

(* A score is a fraction, numerator first. *)
Score(s, t) ==
  LET longer == Larger(Len(s), Len(t)) IN
  IF longer = 0 THEN <<1, 1>> ELSE <<longer - Levenshtein(s, t), longer>>

AtLeastThreshold(score) == 10 * score[1] >= 7 * score[2]
Difference(a, b) == a[1] * b[2] - b[1] * a[2]
(* At most 0.02 apart. *)
Tied(a, b) ==
  LET d == Difference(a, b) IN 50 * Larger(d, -d) <= a[2] * b[2]

-----------------------------------------------------------------------------
(* FuzzyMatcher::find_block.  Ranges are <<first, last>>. *)

NotFound == [kind |-> "none"]
Found(from, to) == [kind |-> "found", from |-> from, to |-> to]
Ambiguous(n) == [kind |-> "ambiguous", count |-> n]

Occurrences(text, part) ==
  {i \in 1..(Len(text) - Len(part) + 1) : SubSeq(text, i, i + Len(part) - 1) = part}

(* A mistake: the newline after the last line is taken too. *)
RangeWithNewline(text, k, n) ==
  LET starts == LineStarts(text) IN
  Found(starts[k], IF k + n <= Len(starts) THEN starts[k + n] - 1 ELSE Len(text))

(* line_range_to_byte_range: up to the next line, without the newline between. *)
RangeOfLines(text, k, n) ==
  LET starts == LineStarts(text)
      end == IF k + n <= Len(starts) THEN starts[k + n] - 1 ELSE Len(text)
      trims == end >= starts[k] /\ text[end] = NL
  IN  Found(starts[k], IF trims THEN end - 1 ELSE end)

(* One window: a better one replaces the best so far and forgets its ties. *)
Weigh(scan, k, score) ==
  CASE ~AtLeastThreshold(score) -> scan
    [] AtLeastThreshold(score) /\ scan.best = 0 -> [best |-> k, score |-> score, tied |-> 0]
    [] AtLeastThreshold(score) /\ scan.best # 0 /\ Tied(score, scan.score) ->
         [scan EXCEPT !.tied = @ + 1]
    [] AtLeastThreshold(score) /\ scan.best # 0 /\ ~Tied(score, scan.score)
         /\ Difference(score, scan.score) > 0 -> [best |-> k, score |-> score, tied |-> 0]
    [] OTHER -> scan

NothingYet == [best |-> 0, score |-> <<0, 1>>, tied |-> 0]

Scan(text, needle, n) ==
  LET after[k \in 0..(LineCount(text) - n + 1)] ==
        IF k = 0 THEN NothingYet
        ELSE Weigh(after[k - 1], k, Score(Window(needle, 1, n), Window(text, k, n)))
  IN  after[LineCount(text) - n + 1]

FindBlock(text, needle) ==
  LET exact == Occurrences(text, needle)
      n == LineCount(needle)
      scan == Scan(text, needle, n)
  IN
  IF needle = <<>> \/ text = <<>> THEN NotFound
  ELSE IF exact # {}
       THEN Found(Min(exact), Min(exact) + Len(needle) - 1)
  ELSE IF LineCount(text) < n THEN NotFound
  ELSE IF scan.best = 0 THEN NotFound
  ELSE IF scan.tied > 0 THEN Ambiguous(scan.tied + 1)
  ELSE RangeOfLines(text, scan.best, n)

-----------------------------------------------------------------------------
(* apply_edit_operation: a batch goes on with what the edit before made, and
   ends at the first that fails. *)

ApplySingle(text, edit) ==
  LET at == FindBlock(text, edit.search) IN
  IF at.kind = "found"
  THEN [ok |-> TRUE, text |-> SubSeq(text, 1, at.from - 1) \o edit.replace
                                \o SubSeq(text, at.to + 1, Len(text))]
  ELSE Failure(at.kind)

ApplyAll(text, seq) ==
  LET done[i \in 0..Len(seq)] ==
        IF i = 0 THEN [ok |-> TRUE, text |-> text]
        ELSE LET before == done[i - 1] IN
             IF before.ok THEN ApplySingle(before.text, seq[i]) ELSE before
  IN  done[Len(seq)]

ApplyOperation(text, o) ==
  IF o.whole THEN [ok |-> TRUE, text |-> o.text] ELSE ApplyAll(text, o.edits)

-----------------------------------------------------------------------------

Init ==
  /\ content \in Contents
  /\ op = None /\ last = None
  /\ edits = 0

(* The model answers; an answer that cannot be parsed is dropped. *)
Propose(answer) ==
  /\ op = None
  /\ edits < MaxEdits
  /\ edits' = edits + 1
  /\ op' = IF Parse(answer).ok THEN [parsed |-> Parse(answer), answer |-> answer] ELSE None
  /\ last' = None
  /\ UNCHANGED content

Apply ==
  LET result == ApplyOperation(content, op.parsed) IN
  /\ op # None
  /\ op' = None
  /\ last' = [before |-> content, op |-> op.parsed, result |-> result]
  /\ content' = IF result.ok THEN result.text ELSE content
  /\ UNCHANGED edits

Next == (\E answer \in Answers : Propose(answer)) \/ Apply

Spec == Init /\ [][Next]_vars

-----------------------------------------------------------------------------

(* Windows of whole lines, as ranges of positions, said without counting
   lines: they begin the text or follow a newline, and precede one or end a
   text that does not end with one. *)
LineWindows(text, needle) ==
  {r \in (1..Len(text) + 1) \X (0..Len(text)) :
     LET part == SubSeq(text, r[1], r[2]) IN
     /\ r[1] <= r[2] + 1
     /\ r[1] = 1 \/ text[r[1] - 1] = NL
     /\ r[1] <= Len(text)
     /\ IF r[2] = Len(text) THEN text[r[2]] # NL ELSE text[r[2] + 1] = NL
     /\ Cardinality(Occurrences(part, <<NL>>)) = LineCount(needle) - 1}

(* An edit that is applied replaces the first place where its text stands, or
   else the window of whole lines most similar to it, and nothing around it;
   one that is refused as not found has no window at the threshold, and one
   refused as ambiguous has two that are close.  (find_block, apply_single,
   line_range_to_byte_range) *)
EditLandsOnBest ==
  (last # None /\ ~last.op.whole /\ Len(last.op.edits) = 1) =>
    LET edit == last.op.edits[1]
        text == last.before
        exact == Occurrences(text, edit.search)
        blob == Window(edit.search, 1, LineCount(edit.search))
        scored == {r \in LineWindows(text, edit.search) :
                     AtLeastThreshold(Score(blob, SubSeq(text, r[1], r[2])))}
        Of(r) == Score(blob, SubSeq(text, r[1], r[2]))
        Replacing(r) == SubSeq(text, 1, r[1] - 1) \o edit.replace
                          \o SubSeq(text, r[2] + 1, Len(text))
    IN
    edit.search # <<>> =>
    CASE exact # {} ->
           /\ last.result.ok
           /\ \E i \in exact : /\ \A j \in exact : i <= j
                               /\ last.result.text = Replacing(<<i, i + Len(edit.search) - 1>>)
      [] exact = {} /\ last.result.ok ->
           \E r \in scored : /\ last.result.text = Replacing(r)
                             /\ \A q \in scored : Difference(Of(r), Of(q)) >= 0
      [] exact = {} /\ ~last.result.ok /\ last.result.why = "none" -> scored = {}
      [] OTHER -> \E r, q \in scored : r # q /\ Tied(Of(r), Of(q))

(* An answer with one SEARCH and REPLACE block, whatever prose or further
   blocks follow, is read as the block says, up to newlines at its ends.
   (SearchReplaceParser::parse, consume_block) *)
BlockReadAsWritten ==
  op # None /\ op.answer.format = "search-replace" /\ op.answer.block # None =>
    op.parsed.edits = <<Edit(Trimmed(Joined(op.answer.block[1])),
                             Trimmed(Joined(op.answer.block[2])))>>
=============================================================================
