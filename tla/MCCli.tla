-------------------------------- MODULE MCCli --------------------------------
(* Model-checking instance of Cli, and Config against its reference. *)
EXTENDS Cli

Args(p, l, s, e, d) ==
  [provider |-> p, label |-> l, secret |-> s, endpoint |-> e, stdin |-> p # None /\ s = None,
   default |-> d]

AddArgsDef ==
  {Args(None, None, None, NoEndpoint, FALSE), Args(None, None, None, "https", FALSE),
   Args("openai", None, "key", NoEndpoint, TRUE), Args("openai", "work", None, "http", FALSE),
   Args("openai", "work", None, NoEndpoint, FALSE)}

(* No step reads the report, so states that differ in it alone are one. *)
WithoutReport == <<accounts, endpoint, sessions, term, commands, unled>>

CwdDef == [t \in Terminals |-> IF t \in Tty THEN "here" ELSE "there"]

SessionIdsDef == {<<"a", "b">>, <<"a", "c">>}
TypedDef == {<<>>, <<"a">>, <<"A", "B">>, <<"a", "b">>, <<"c">>, <<"_", "c">>, <<"%", "b">>}
SmallDef == [ch \in {"A", "B"} |-> IF ch = "A" THEN "a" ELSE "b"]

-----------------------------------------------------------------------------
CONSTANTS Unset, Unreadable

C == INSTANCE Config

Partials == [C!Fields -> {Unset, "x", "y"}]
Files == Partials \cup {Unreadable}

(* The highest layer that says something of a field decides. *)
Reference(files, environment, cli, f) ==
  LET layers == [system |-> files["system"], user |-> files["user"],
                 project |-> files["project"], environment |-> environment, cli |-> cli]
      says == {i \in DOMAIN C!Precedence :
                 LET l == layers[C!Precedence[i]] IN
                 l \notin {Unset, Unreadable} /\ l[f] # Unset}
  IN  IF says = {} THEN C!Defaults[f]
      ELSE layers[C!Precedence[CHOOSE i \in says : \A j \in says : j <= i]][f]

OneField == {p \in Files : p = Unreadable \/ \A f \in C!Fields \ {"provider"} : p[f] = Unset}
Layered == [system : OneField, user : Files, project : OneField]

ASSUME MergeIsHighest ==
  \A files \in Layered, env \in OneField \ {Unreadable}, cli \in {Unset, [C!Nothing EXCEPT !.log_level = "z"]} :
    \A f \in C!Fields : C!LoadConfig(files, env, cli)[f] = Reference(files, env, cli, f)

Variables == {"log_level", "log-level", "provider"} \X {"openai", "bogus"}

(* Of several spellings of a variable any one may count, and an unknown
   provider may unset the known one. *)
ASSUME EnvironmentTaken ==
  \A env \in {e \in SUBSET Variables : Cardinality(e) <= 3} :
    \A partial \in C!CollectFromEnv(env), f \in C!Fields :
      LET given == {v[2] : v \in {w \in env : f \in C!FieldOf(w[1])}}
          known == IF f = "provider" THEN given \cap C!KnownProviders ELSE given
      IN  partial[f] \in known \cup (IF known = given /\ given # {} THEN {} ELSE {Unset})
=============================================================================
