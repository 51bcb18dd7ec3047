------------------------------- MODULE Config -------------------------------
(***************************************************************************)
(* The effective configuration: partial configurations from three files,   *)
(* the environment and the command line, merged field by field.            *)
(***************************************************************************)
EXTENDS SequencesExt

CONSTANTS
  Unset,            \* None: a layer does not say
  Unreadable        \* a file that is missing, cannot be read or is no TOML

Fields == {"data_dir", "log_level", "provider"}

(* Config::default *)
Defaults == [data_dir |-> "", log_level |-> "info", provider |-> "none"]

Nothing == [f \in Fields |-> Unset]

(* ConfigLayer::precedence, lowest first. *)
Precedence == <<"system", "user", "project", "environment", "cli">>

(* from_env_vars takes the variables in the order given: name and value, the
   name already without prefix and in lower case.  An unknown provider
   unsets what an earlier spelling of the variable had set. *)
FieldOf(name) ==
  CASE name \in {"log_level", "log-level"} -> {"log_level"}
    [] name \in {"data_dir", "data-dir"} -> {"data_dir"}
    [] name = "provider" -> {"provider"}
    [] OTHER -> {}

KnownProviders == {"anthropic", "openai", "ollama", "none"}

Taken(partial, var) ==
  [f \in Fields |->
     CASE f \notin FieldOf(var[1]) -> partial[f]
       [] f \in FieldOf(var[1]) /\ f = "provider" /\ var[2] \notin KnownProviders -> Unset
       [] OTHER -> var[2]]

FromEnvVars(vars) == FoldLeft(Taken, Nothing, vars)

(* collect_from_env goes through a HashMap: any order. *)
CollectFromEnv(env) == {FromEnvVars(order) : order \in SetToSeqs(env)}

(* merge_configs *)
Overlaid(config, layer) ==
  [f \in Fields |-> IF layer[f] = Unset THEN config[f] ELSE layer[f]]

MergeConfigs(stack) == Overlaid(Defaults, FoldLeft(Overlaid, Nothing, stack))

(* load_config: files[layer] is Unreadable or what is in it; cli may be Unset. *)
LoadConfig(files, environment, cli) ==
  LET Pushed(stack, layer) ==
        CASE layer = "environment" -> Append(stack, environment)
          [] layer = "cli" -> IF cli = Unset THEN stack ELSE Append(stack, cli)
          [] OTHER -> IF files[layer] = Unreadable THEN stack
                      ELSE Append(stack, files[layer])
  IN  MergeConfigs(FoldLeft(Pushed, <<>>, Precedence))
=============================================================================
