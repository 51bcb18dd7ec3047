------------------------------ MODULE MCToolHost ------------------------------
(* Model-checking instance of ToolHost. *)
EXTENDS ToolHost

W == <<"w">>
WorkspaceDef == <<Slash, W>>
TempDirDef == <<Slash, <<"t">>>>

InFile == <<Slash, W, <<"f">>>>
NewFile == <<Slash, W, <<"d">>, <<"n">>>>
DeniedFile == <<Slash, W, <<"k">>>>
HiddenFile == <<Slash, W, <<".", "g">>, <<"f">>>>
SiblingFile == <<Slash, <<"w", "x">>, <<"f">>>>
EscapingFile == <<Slash, W, DotDot, <<"w", "x">>, <<"f">>>>

DeniedNamesDef == {<<"k">>}

PresentDef == [p \in {InFile, HiddenFile} |-> "two"]
Dirs0Def ==
  {<<Slash>>, WorkspaceDef, <<Slash, W, <<".", "g">>>>, <<Slash, <<"w", "x">>>>}

Write(path, text, create) ==
  [tool |-> "write_file", path |-> path, text |-> text, create_dirs |-> create]
On(tool, path) == [tool |-> tool, path |-> path]
Bash(command, reach) == [tool |-> "bash", command |-> command, reach |-> reach]

RequestsDef ==
  {Write(NewFile, "one", TRUE), Write(NewFile, "two", FALSE),
   Write(DeniedFile, "one", FALSE), Write(SiblingFile, "one", FALSE),
   Write(EscapingFile, "one", FALSE),
   On("read_file", NewFile), On("list_dir", WorkspaceDef), On("grep", WorkspaceDef),
   Bash(<<<<"var", "value">>, <<"ls">>>>, {NewFile, SiblingFile}),
   Bash(<<<<"other">>>>, {InFile})}

RoomsDef == {[toServer |-> n, toClient |-> n] : n \in {0, 1}}

(* What the theorems about files suppose, on this instance. *)
ASSUME NamesAssumption == SiblingsApart /\ SiblingsUndenied
=============================================================================
