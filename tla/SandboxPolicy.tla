---------------------------- MODULE SandboxPolicy ----------------------------
(***************************************************************************)
(* Sandbox: which paths may be read or written, and which commands run.    *)
(* The checks look at the path as it is written, never at the file system. *)
(*                                                                         *)
(* A path is the sequence of its std::path::Components: Slash for the      *)
(* root, Dot, DotDot, and names, which are sequences of letters so that    *)
(* one can be the beginning of another.                                    *)
(***************************************************************************)
EXTENDS Integers, SequencesExt

CONSTANTS
  Workspace, TempDir,    \* two paths that begin with Slash
  DeniedNames,           \* names a deny pattern matches as the last component
  Allowlist              \* commands that may run

Slash == <<"/">>
Dot == <<".">>
DotDot == <<"..">>

(* The root and "." come first if at all; names hold no slash. *)
IsPath(path) ==
  \A n \in DOMAIN path :
    \/ n = 1 /\ path[n] \in {Slash, Dot}
    \/ path[n] \notin {Dot, <<>>} /\ "/" \notin Range(path[n])

ASSUME RootsAssumption == Head(Workspace) = Slash /\ Head(TempDir) = Slash

(* The text of a path: names with a slash between them. *)
Pushed(text, component) ==
  CASE component = Slash -> Append(text, "/")
    [] component = Dot -> text
    [] component = DotDot -> text \o <<"..", "/">>
    [] OTHER -> (IF text # <<>> /\ Last(text) # "/" THEN Append(text, "/") ELSE text)
                  \o component

(* The text of each beginning of a path. *)
Normalized(path) ==
  LET text[n \in 0..Len(path)] == IF n = 0 THEN <<>> ELSE Pushed(text[n - 1], path[n])
  IN  text

NormalizePath(path) == Normalized(path)[Len(path)]

(* A mistake: the prefix need not end where a component ends. *)
WithinText(text) == IsPrefix(NormalizePath(Workspace), text)

IsWithinWorkspace(text) ==
  LET root == NormalizePath(Workspace) IN
  text = root \/ IsPrefix(Append(root, "/"), text)

HasDotDot(path) == DotDot \in ToSet(path)

CheckDeny(path) == Last(path) \notin DeniedNames

ValidateWrite(path) ==
  /\ ~HasDotDot(path)
  /\ CheckDeny(path)
  /\ IsWithinWorkspace(NormalizePath(path))

ValidateRead(path) ==
  /\ ~HasDotDot(path)
  /\ CheckDeny(path)
  /\ LET text == NormalizePath(path) IN
     IsWithinWorkspace(text) \/ IsPrefix(NormalizePath(TempDir), text)

(* The first word that assigns no variable, or the last one; words are
   <<variable, value>> or <<program>>. *)
CommandStem(words) ==
  LET programs == {i \in DOMAIN words : Len(words[i]) = 1 \/ i = Len(words)}
  IN  words[CHOOSE i \in programs : \A j \in programs : i <= j]

ValidateExec(words) == words # <<>> /\ CommandStem(words) \in {<<a>> : a \in Allowlist}
=============================================================================
