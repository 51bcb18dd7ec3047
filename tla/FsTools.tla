------------------------------- MODULE FsTools -------------------------------
(***************************************************************************)
(* The built-in tools read_file, write_file, list_dir, grep and bash over  *)
(* one file system.  Several of them run at once: tasks of one process, or *)
(* of several processes with the same workspace.  What bash starts is a    *)
(* shell, which no sandbox confines.  Links and what a shell does to       *)
(* directories are left out.                                               *)
(***************************************************************************)
EXTENDS SandboxPolicy, FiniteSets

CONSTANTS
  Actors,          \* whoever runs a tool
  Requests,        \* what the tools are asked to do; a command of bash comes
                   \* with its reach, the files its processes may change
  Oversized,       \* the contents that are larger than read_file's cap
  Present, Dirs0,  \* files (a function to contents) and directories at first
  Binary,          \* the contents that are not UTF-8
  MaxMatches,      \* grep's cap
  MaxInodes,       \* bound on the files a shell creates
  Empty, None

VARIABLES
  entry,     \* directory entries: path -> inode, 0 if there is none
  inode,     \* sequence of contents
  dirs,      \* existing directories
  act,       \* per actor: the call it executes, None if none
  acked,     \* per path: the content last acknowledged, as first Present
  clashed,   \* two write_file calls for one path have overlapped
  reached    \* the reach of every command started so far

files == <<entry, inode, dirs, acked, clashed>>
toolVars == <<entry, inode, dirs, act, acked, clashed, reached>>

-----------------------------------------------------------------------------
(* The file system.  "." disappears and ".." leads to the parent; a name that
   was renamed or opened keeps its inode. *)

Walked(dir, component) ==
  CASE component = Dot -> dir
    [] component = DotDot -> (IF Len(dir) > 1 THEN Front(dir) ELSE dir)
    [] OTHER -> Append(dir, component)

Walk(path) ==
  LET dir[n \in 0..Len(path)] == IF n = 0 THEN <<>> ELSE Walked(dir[n - 1], path[n])
  IN  dir

Canonical(path) == Walk(path)[Len(path)]

(* A mistake: no sibling. *)
InPlace(path) == path

(* The sibling the content is written to first: its name does not depend on
   the call. *)
TmpName(name) == Append(name, "~")
TmpPath(path) == Append(Front(path), TmpName(Last(path)))

Commands == {r \in Requests : r.tool = "bash"}
TargetOf == [r \in Requests \ Commands |-> Canonical(r.path)]
Targets == Range(TargetOf) \cup DOMAIN Present \cup UNION {r.reach : r \in Commands}
AllPaths == Targets \cup {TmpPath(p) : p \in Targets}

(* Empty marks a file that was created or truncated and not written to yet: no
   text that write_file is given is Empty, and each is UTF-8. *)
Writes == {r \in Requests : r.tool = "write_file"}
Texts == {r.text : r \in Writes} \cup Range(Present)
Contents == Texts \cup Binary \cup {Empty}

ASSUME ContentsAssumption ==
  Empty \notin Texts /\ \A r \in Writes : r.text \notin Binary

(* Paths are sequences of components, components are sequences of characters,
   and what is there at first is a tree. *)
Spellings == {Workspace} \cup {r.path : r \in Writes}
Components == UNION {Range(p) : p \in Targets \cup Dirs0 \cup Spellings}
Characters == UNION {Range(c) : c \in Components}

ASSUME TreeAssumption ==
  /\ Targets \cup Dirs0 \subseteq Seq(Components) \ {<<>>}
  /\ Components \subseteq Seq(Characters)
  /\ IsFiniteSet(DOMAIN Present)
  /\ \A d \in Dirs0 : \A n \in 1..Len(d) : SubSeq(d, 1, n) \in Dirs0
  /\ \A p \in DOMAIN Present : \A n \in 1..(Len(p) - 1) : SubSeq(p, 1, n) \in Dirs0

(* The workspace is given as an absolute path without "..". *)
ASSUME PathsAssumption ==
  /\ Spellings \subseteq Seq(Components) \ {<<>>}
  /\ \A path \in Spellings : IsPath(path)
  /\ ~HasDotDot(Workspace)

Exists(path) == entry[path] # 0
Content(path) == inode[entry[path]]

ToolsInit ==
  LET order == SetToSeq(DOMAIN Present) IN
  /\ inode = [i \in DOMAIN order |-> Present[order[i]]]
  /\ entry = [p \in AllPaths |->
                IF p \in DOMAIN Present THEN CHOOSE i \in DOMAIN order : order[i] = p
                ELSE 0]
  /\ dirs = Dirs0
  /\ act = [x \in Actors |-> None]
  /\ acked = [p \in Targets |-> IF p \in DOMAIN Present THEN Present[p] ELSE None]
  /\ clashed = FALSE
  /\ reached = {}

-----------------------------------------------------------------------------
(* A call, its stages and its result. *)

Call(r) ==
  [req |-> r, path |-> IF r.tool = "bash" THEN None ELSE TargetOf[r],
   stage |-> "start", handle |-> 0, todo |-> {},
   found |-> {}, before |-> <<>>, result |-> None]

Target(x) == act[x].path
At(x, tool, stage) ==
  act[x] # None /\ act[x].req.tool = tool /\ act[x].stage = stage

Failed == [ok |-> FALSE]
Done(x, result) == act' = [act EXCEPT ![x].stage = "done", ![x].result = result]
Fail(x) == Done(x, Failed) /\ UNCHANGED <<files, reached>>
To(x, stage) == act' = [act EXCEPT ![x].stage = stage]

Permitted(r) ==
  CASE r.tool = "bash" -> ValidateExec(r.command)
    [] r.tool = "write_file" -> ValidateWrite(r.path)
    [] OTHER -> ValidateRead(r.path)

Allowed == {r \in Requests : Permitted(r)}

Refuse(x) ==
  /\ act[x] # None /\ act[x].stage = "start"
  /\ act[x].req \notin Allowed
  /\ Fail(x)

Starts(x, tool) == At(x, tool, "start") /\ act[x].req \in Allowed

-----------------------------------------------------------------------------
(* write_file *)

Writing(x) ==
  act[x] # None /\ act[x].req.tool = "write_file"
    /\ act[x].stage \in {"opened", "filled", "cleanup"}

(* create_dir_all if asked; the sibling is created, or truncated. *)
WriteOpen(x) ==
  LET path == Target(x)
      tmp == TmpPath(path)
      made == IF act[x].req.create_dirs
              THEN dirs \cup {SubSeq(path, 1, n) : n \in 1..(Len(path) - 1)} ELSE dirs
      handle == IF Exists(tmp) THEN entry[tmp] ELSE Len(inode) + 1
  IN
  /\ Starts(x, "write_file")
  /\ dirs' = made
  /\ UNCHANGED reached
  /\ \/ /\ Front(path) \notin made
        /\ Done(x, Failed)
        /\ UNCHANGED <<entry, inode, acked, clashed>>
     \/ /\ Front(path) \in made
        /\ entry' = [entry EXCEPT ![tmp] = handle]
        /\ inode' = IF Exists(tmp) THEN [inode EXCEPT ![handle] = Empty]
                    ELSE Append(inode, Empty)
        /\ act' = [act EXCEPT ![x].stage = "opened", ![x].handle = handle]
        /\ clashed' = (clashed \/ \E y \in Actors \ {x} :
                                    Writing(y) /\ Target(y) = path)
        /\ UNCHANGED acked

WriteFill(x) ==
  /\ At(x, "write_file", "opened")
  /\ inode' = [inode EXCEPT ![act[x].handle] = act[x].req.text]
  /\ To(x, "filled")
  /\ UNCHANGED <<entry, dirs, acked, clashed, reached>>

(* The device is full: the sibling stays. *)
WriteFails(x) == At(x, "write_file", "opened") /\ Fail(x)

WriteRename(x) ==
  LET path == Target(x)  tmp == TmpPath(path) IN
  /\ At(x, "write_file", "filled")
  /\ \/ /\ Exists(tmp) /\ path \notin dirs
        /\ entry' = [entry EXCEPT ![path] = entry[tmp], ![tmp] = 0]
        /\ acked' = [acked EXCEPT ![path] = act[x].req.text]
        /\ Done(x, [ok |-> TRUE])
     \/ /\ ~Exists(tmp) \/ path \in dirs
        /\ To(x, "cleanup")
        /\ UNCHANGED <<entry, acked>>
  /\ UNCHANGED <<inode, dirs, clashed, reached>>

WriteCleanup(x) ==
  /\ At(x, "write_file", "cleanup")
  /\ entry' = [entry EXCEPT ![TmpPath(Target(x))] = 0]
  /\ Done(x, Failed)
  /\ UNCHANGED <<inode, dirs, acked, clashed, reached>>

-----------------------------------------------------------------------------
(* read_file: the size is looked at first, the content read afterwards. *)

ReadStat(x) ==
  /\ Starts(x, "read_file")
  /\ \/ /\ ~Exists(Target(x))
        /\ Fail(x)
     \/ /\ Exists(Target(x)) /\ Content(Target(x)) \in Oversized
        /\ Fail(x)
     \/ /\ Exists(Target(x)) /\ Content(Target(x)) \notin Oversized
        /\ To(x, "sized")
        /\ UNCHANGED <<files, reached>>

ReadAll(x) ==
  /\ At(x, "read_file", "sized")
  /\ IF Exists(Target(x)) /\ Content(Target(x)) \notin Binary
     THEN Done(x, [ok |-> TRUE, text |-> Content(Target(x))])
     ELSE Done(x, Failed)
  /\ UNCHANGED <<files, reached>>

(* list_dir *)
Children(dir) == {p \in AllPaths : Exists(p) /\ Front(p) = dir}

ListDir(x) ==
  /\ Starts(x, "list_dir")
  /\ Done(x, IF Target(x) \in dirs THEN [ok |-> TRUE, entries |-> Children(Target(x))]
             ELSE Failed)
  /\ UNCHANGED <<files, reached>>

-----------------------------------------------------------------------------
(* grep: walks the tree in the order the file system gives, a file at a time.
   Directories below the root whose name begins with a dot are passed over, and
   so is what is not UTF-8. *)

Hidden(component) == IsPrefix(Dot, component)

Searched(root, path) ==
  /\ IsPrefix(root, path)
  /\ \A n \in DOMAIN path : n > Len(root) /\ n < Len(path) => ~Hidden(path[n])

Under(root) ==
  IF root \in dirs THEN {p \in AllPaths : Exists(p) /\ Searched(root, p)}
  ELSE {p \in {root} : Exists(p)}

HasMatch(path) == Exists(path) /\ Content(path) \notin Binary \cup {Empty}

GrepStart(x) ==
  /\ Starts(x, "grep")
  /\ act' = [act EXCEPT ![x].stage = "walk", ![x].todo = Under(Target(x)),
                        ![x].before = [p \in {q \in Targets : HasMatch(q)} |-> entry[p]]]
  /\ UNCHANGED <<files, reached>>

Full(x) == Cardinality(act[x].found) >= MaxMatches

GrepScan(x) ==
  /\ At(x, "grep", "walk")
  /\ ~Full(x)
  /\ \E p \in act[x].todo :
       act' = [act EXCEPT ![x].todo = @ \ {p},
                          ![x].found = IF HasMatch(p) THEN @ \cup {p} ELSE @]
  /\ UNCHANGED <<files, reached>>

(* A file that cannot be read, or whose directory cannot, is passed over without
   a word. *)
GrepSkips(x) ==
  /\ At(x, "grep", "walk")
  /\ ~Full(x)
  /\ \E p \in act[x].todo :
       act' = [act EXCEPT ![x].todo = @ \ {p},
                          ![x].before = [q \in DOMAIN @ \ {p} |-> @[q]]]
  /\ UNCHANGED <<files, reached>>

(* A mistake: the cap is taken to be exceeded only past it. *)
GrepEndLate(x) ==
  /\ At(x, "grep", "walk")
  /\ act[x].todo = {} \/ Full(x)
  /\ Done(x, [ok |-> TRUE, truncated |-> Cardinality(act[x].found) > MaxMatches])
  /\ UNCHANGED <<files, reached>>

GrepEnd(x) ==
  /\ At(x, "grep", "walk")
  /\ act[x].todo = {} \/ Full(x)
  /\ Done(x, [ok |-> TRUE, truncated |-> Full(x)])
  /\ UNCHANGED <<files, reached>>

-----------------------------------------------------------------------------
(* bash: a child, and a timeout that leaves it running.  Neither the end of the
   call nor that of its caller ends what a shell left in the background. *)

BashSpawn(x) ==
  /\ Starts(x, "bash")
  /\ To(x, "running")
  /\ reached' = reached \cup act[x].req.reach
  /\ UNCHANGED files

BashExit(x) ==
  /\ At(x, "bash", "running")
  /\ Done(x, [ok |-> TRUE])
  /\ UNCHANGED <<files, reached>>

BashTimeout(x) == At(x, "bash", "running") /\ Fail(x)

(* A process of some command overwrites, creates or removes a file; what an
   inode without a name holds is lost. *)
ShellWrites ==
  /\ \E p \in reached :
       \/ /\ Exists(p)
          /\ \E content \in Contents : inode' = [inode EXCEPT ![entry[p]] = content]
          /\ UNCHANGED entry
       \/ /\ ~Exists(p) /\ Front(p) \in dirs /\ p \notin dirs
          /\ Len(inode) < MaxInodes
          /\ \E content \in Contents : inode' = Append(inode, content)
          /\ entry' = [entry EXCEPT ![p] = Len(inode) + 1]
       \/ /\ Exists(p)
          /\ entry' = [entry EXCEPT ![p] = 0]
          /\ inode' = [inode EXCEPT ![entry[p]] = Empty]
  /\ UNCHANGED <<dirs, act, acked, clashed, reached>>

-----------------------------------------------------------------------------

(* A read fails on the device, or reading a directory breaks off. *)
ReadFails(x) == (At(x, "read_file", "sized") \/ At(x, "grep", "walk")) /\ Fail(x)

(* What an actor does by itself; whether a child exits is not up to it. *)
ToolStep(x) ==
  \/ Refuse(x)
  \/ WriteOpen(x) \/ WriteFill(x) \/ WriteRename(x) \/ WriteCleanup(x)
  \/ ReadStat(x) \/ ReadAll(x) \/ ListDir(x)
  \/ GrepStart(x) \/ GrepScan(x) \/ GrepEnd(x)
  \/ BashSpawn(x) \/ BashTimeout(x)

-----------------------------------------------------------------------------

(* Unless two write_file calls for one path overlapped, a file that no command
   of bash can change holds what the last acknowledged call gave it, whole,
   whatever failed or was killed half way; so a reader never sees a part.
   (WriteFileTool::invoke) *)
PublishedIsAcked ==
  ~clashed =>
    /\ \A p \in Targets \ reached : acked[p] = (IF Exists(p) THEN Content(p) ELSE None)
    /\ \A x \in Actors :
         At(x, "read_file", "done") /\ act[x].result.ok /\ Target(x) \notin reached =>
           act[x].result.text # Empty

Outside == {p \in AllPaths \ {TmpPath(Workspace)} : ~IsPrefix(Workspace, p)}
Denied == {p \in AllPaths : Last(p) \in DeniedNames}

(* Nothing outside the workspace changes, the sibling of the workspace itself
   apart, and nothing under a denied name, but by a command of bash whose
   processes reach it: those are not confined.  (validate_write, check_deny,
   is_within_workspace, atomic_tmp_path, build_command) *)
OutsideUntouched ==
  \A p \in (Outside \cup Denied) \ reached :
    Exists(p) => p \in DOMAIN Present /\ Content(p) = Present[p]

(* A grep that does not say it was cut short found every file with a match
   below its root, in no dot directory, that could be read and was there,
   unchanged, from its beginning to its end.  (GrepTool, walk, scan_file) *)
GrepTellsAll ==
  \A x \in Actors :
    At(x, "grep", "done") /\ act[x].result.ok /\ ~act[x].result.truncated =>
      \A p \in DOMAIN act[x].before \ reached :
        Searched(Target(x), p) /\ entry[p] = act[x].before[p] => p \in act[x].found

-----------------------------------------------------------------------------
(* What the proofs suppose about names. *)

(* No temporary sibling is named in a request, in reach of a command or there at
   first.  The tools do not enforce it: a file called like the sibling of another
   is overwritten and renamed away.  (atomic_tmp_path) *)
SiblingsApart ==
  \A p, q \in Targets : Front(p) = Front(q) => Last(q) # TmpName(Last(p))

(* No deny pattern matches the sibling of a file that none matches.  The checks
   are of the file's name only.  (check_deny, atomic_tmp_path) *)
SiblingsUndenied ==
  \A p \in Targets : Last(p) \notin DeniedNames => TmpName(Last(p)) \notin DeniedNames
==============================================================================
