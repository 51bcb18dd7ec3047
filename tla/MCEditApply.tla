----------------------------- MODULE MCEditApply -----------------------------
(* Model-checking instance of EditApply. *)
EXTENDS EditApply

CharsDef == {"a", "b", "c", "nl", "<<<SEARCH", "<<<REPLACE", "<<<END"}
Lines == {<<"a", "a", "a", "a">>, <<"a", "a", "b", "a">>, <<"a", "b", "b", "b">>, <<>>}
Text(lines, ended) == Joined(lines) \o (IF ended THEN <<NL>> ELSE <<>>)
ContentsDef == {Text(ls, e) : ls \in [1..3 -> Lines], e \in BOOLEAN}
                 \cup {<<>>}

Needles == {<<"a", "a", "a", "b", "a">>, <<"a", "a", "b", "b">>, <<"b", "a">>, <<>>}
Bodies == {<<>>, <<"a", "a", "b", "b">>}

(* An answer with a block between prose, and maybe another block. *)
Answer(search, replace, rest) ==
  [format |-> "search-replace", block |-> <<search, replace>>,
   lines |-> <<<<"c">>, Search>> \o search \o <<Replace>> \o replace \o <<End>> \o rest]

AnswersDef ==
  {Answer(<<n>>, <<b>>, <<>>) : n \in Needles, b \in Bodies}
    \cup {Answer(<<m, n>>, <<b, <<>>>>, <<<<"c">>, Search, m, Replace, n, End>>) :
            m \in Needles, n \in Lines, b \in Bodies}
    \cup {Answer(<<<<"a", "a", "a", "a">>, <<"b">>>>, <<<<"b">>>>, <<>>)}
    \cup {[format |-> "search-replace", block |-> None, lines |-> <<Replace, <<"a">>, Search>>],
          [format |-> "search-replace", block |-> None, lines |-> <<Search, <<"a">>>>],
          [format |-> "whole-file", text |-> <<"b", NL>>],
          [format |-> "tool-use-edit", edits |-> <<>>],
          [format |-> "tool-use-edit",
           edits |-> <<Edit(<<"a", "a">>, <<"b">>), Edit(<<"b", "b", NL>>, <<"c">>)>>],
          [format |-> "tool-use-edit", edits |-> <<Edit(<<"b", "b", "b", "b", NL>>, <<"c">>)>>]}
=============================================================================
