-------------------------------- MODULE MCTui --------------------------------
(* Model-checking instance of Tui: "m" and "mm" spell /model and /models, so
   that one command is a prefix of another, "q" spells /quit; "e" is typed as a
   character of two bytes. *)
EXTENDS Tui, TLC

KeysDef == {"/", "m", "q", " "}
CommandsDef == {"model", "models", "quit"}
SpellingDef == [model |-> <<"m">>, models |-> <<"m", "m">>, quit |-> <<"q">>]
AllFlagDef == <<"a">>
LayersDef == {<<"u">>}
ModelsDef ==
  <<[target |-> <<"q", "m">>, custom |-> FALSE],
    [target |-> <<"m", "m">>, custom |-> FALSE]>>

CharsDef == {"e", " ", "custom:"}
WidthDef == [c \in CharsDef |-> IF c = "e" THEN 2 ELSE 1]
ProvidersDef ==
  <<[id |-> <<"openai">>, target |-> <<"e", "x">>, custom |-> FALSE],
    [id |-> <<"zai">>, target |-> <<"x">>, custom |-> FALSE]>>
CustomItemDef ==
  [id |-> <<"__custom__">>, target |-> <<"x">>, custom |-> TRUE]
MaxTextDef == [CustomProvider |-> 2, Label |-> 1, Secret |-> 1]
=============================================================================
