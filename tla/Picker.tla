------------------------------- MODULE Picker -------------------------------
(***************************************************************************)
(* The fuzzy pickers of the terminal UI, ProviderPicker of the login       *)
(* wizard and ModelPicker of /models, and the helpers on typed text they   *)
(* share.  Text is a sequence of characters; Blank stands for every        *)
(* whitespace character.                                                   *)
(*                                                                         *)
(* A picker keeps, beside the query, two cached values: the rows that      *)
(* match it and a cursor into those rows (NoCursor is Rust's None; rows    *)
(* count from 1).                                                          *)
(***************************************************************************)
EXTENDS Naturals, SequencesExt

Blank == " "

IsBlankText(s) == \A i \in DOMAIN s : s[i] = Blank

TrimStart(s) ==
  IF IsBlankText(s) THEN <<>>
  ELSE SubSeq(s, SelectInSeq(s, LAMBDA c : c # Blank), Len(s))

Trim(s) ==
  TrimStart(SubSeq(s, 1, SelectLastInSeq(s, LAMBDA c : c # Blank)))

(* str::split_whitespace *)
Words(s) ==
  LET take(acc, c) ==
        IF c = Blank THEN [acc EXCEPT !.open = FALSE]
        ELSE IF acc.open
             THEN [acc EXCEPT !.words = Append(Front(@), Append(Last(@), c))]
             ELSE [words |-> Append(acc.words, <<c>>), open |-> TRUE]
  IN  FoldLeft(take, [words |-> <<>>, open |-> FALSE], s).words

-----------------------------------------------------------------------------

(* Greedy subsequence test: each character of the haystack may consume the
   head of what is left of the needle. *)
FuzzyMatch(haystack, needle) ==
  LET consume(rest, c) ==
        IF rest # <<>> /\ Head(rest) = c THEN Tail(rest) ELSE rest
  IN  FoldLeft(consume, needle, haystack) = <<>>

NoCursor == 0

(* An item is a search target and whether it is the row that always shows. *)
Matching(items, query) ==
  LET needle == Trim(query)
      rows[n \in 0 .. Len(items)] ==
        IF n = 0 THEN <<>>
        ELSE IF items[n].custom \/ FuzzyMatch(items[n].target, needle)
             THEN Append(rows[n - 1], n) ELSE rows[n - 1]
  IN  rows[Len(items)]

WithQuery(items, query) ==
  LET rows == Matching(items, query)
  IN  [query    |-> query,
       filtered |-> rows,
       cursor   |-> IF rows = <<>> THEN NoCursor ELSE 1]

NewPicker(items) == WithQuery(items, <<>>)

PushQuery(p, items, c) == WithQuery(items, Append(p.query, c))

(* A mistake: the rows stay those of the longer query. *)
PopQueryOnly(p, items) ==
  IF p.query = <<>> THEN p ELSE [p EXCEPT !.query = Front(@)]

PopQuery(p, items) ==
  IF p.query = <<>> THEN p ELSE WithQuery(items, Front(p.query))

MoveUp(p) == IF p.cursor > 1 THEN [p EXCEPT !.cursor = @ - 1] ELSE p

MoveDown(p) ==
  IF p.cursor # NoCursor /\ p.cursor < Len(p.filtered)
  THEN [p EXCEPT !.cursor = @ + 1] ELSE p

HasSelection(p) == p.cursor \in DOMAIN p.filtered

(* The index in items of the highlighted row. *)
Selected(p) == p.filtered[p.cursor]

(* What the cached values must be: the rows are those of the query, and the
   cursor is one of them unless there is none. *)
Fresh(p, items) ==
  /\ p.filtered = Matching(items, p.query)
  /\ IF p.filtered = <<>> THEN p.cursor = NoCursor
                          ELSE p.cursor \in DOMAIN p.filtered
=============================================================================
