-------------------------------- MODULE Stores --------------------------------
(***************************************************************************)
(* SessionStore and MemoryStore over one AppState: every call takes a      *)
(* connection of a bounded pool, and the calls that write take a second    *)
(* one, for the row they return, while they still hold the first.  The     *)
(* session picker of the terminal (SessionList) is one of the callers.     *)
(***************************************************************************)
EXTENDS CivilTime, FiniteSets, SequencesExt

CONSTANTS
  Callers, Ui,   \* callers of the stores; Ui also has the session picker
  PoolSize,
  SessionIds,    \* texts, as sequences of parts
  Existing,      \* the sessions stored at the beginning
  AskedIds,      \* what get_by_id_prefix is asked for
  Cwds, UiCwd,
  ListLimit,     \* rows the picker asks for
  MemoryIds, Scopes,
  Instants,      \* UNIX seconds at which clocks are read, in their order
  Given,         \* the times callers give for created_at
  NoDate, NoRow,
  MaxCalls       \* bound: calls

ASSUME PoolAssumption == Ui \in Callers /\ PoolSize \in Nat \ {0}
ASSUME RowsAssumption == IsFiniteSet(SessionIds) /\ ListLimit \in Nat \ {0}
(* The texts of the times have a fixed width up to the year 9999.  created_at
   may be any text; callers who give one give it in the format of now_iso. *)
ASSUME InstantsAssumption ==
  /\ Instants \in Seq(Nat) \ {<<>>}
  /\ Given \subseteq Nat
  /\ \A t \in Given \cup {Instants[i] : i \in DOMAIN Instants} : StampOf(t)[1] <= 9999

VARIABLES
  sessions, memories,   \* the two tables
  clock,                \* index into Instants
  call,                 \* per caller: what it does, Idle if nothing
  holds,                \* per caller: connections held
  picker,               \* SessionList
  calls                 \* calls begun

tables == <<sessions, memories>>
storesVars == <<sessions, memories, clock, call, holds, picker, calls>>

-----------------------------------------------------------------------------
(* Scopes and their tags. *)

Scope(kind, id) == [kind |-> kind, id |-> id]

(* Session and Project carry a text, User and Global nothing. *)
ASSUME ScopesAssumption ==
  \A s \in Scopes : \/ s.kind \in {"session", "project"} /\ s = Scope(s.kind, s.id)
                    \/ s.kind \in {"user", "global"} /\ s = Scope(s.kind, "")

(* A mistake: the kind is left out of the tag. *)
ToTagBare(s) == IF s.kind \in {"session", "project"} THEN <<s.id>> ELSE <<s.kind>>

ToTag(s) ==
  IF s.kind \in {"session", "project"} THEN <<s.kind, ":", s.id>> ELSE <<s.kind>>

FromTag(tag) ==
  CASE Len(tag) = 3 /\ tag[1] \in {"session", "project"} -> Scope(tag[1], tag[3])
    [] Len(tag) = 1 /\ tag[1] \in {"user", "global"} -> Scope(tag[1], "")
    [] OTHER -> Scope("unknown", "")

-----------------------------------------------------------------------------
(* What can be asked.  A call records the time it began: now_iso comes before
   the connection. *)

Idle == [op |-> "idle"]

SessionCalls ==
  [op : {"create"}, id : SessionIds, cwd : Cwds, created : Given \cup {NoDate}]
    \cup [op : {"update_summary", "delete"}, id : SessionIds]
    \cup [op : {"get_by_id_prefix"}, id : AskedIds]

MemoryCalls ==
  [op : {"create_memory"}, id : MemoryIds, scope : Scopes]
    \cup [op : {"touch", "update_value", "delete_memory"}, id : MemoryIds]
    \cup [op : {"query"}, scope : Scopes]

Load == [op |-> "list"]

(* `at` is the time that the text names. *)
SessionRow(cwd, secs) == [cwd |-> cwd, updated |-> StampOf(secs), at |-> secs]
MemoryRow(scope) ==
  [tag |-> ToTag(scope), count |-> 0, scope |-> scope, touches |-> 0]

(* The database as earlier processes left it. *)
StoresInit ==
  /\ sessions = [i \in SessionIds |->
                   IF i \in Existing THEN SessionRow(UiCwd, Instants[1]) ELSE NoRow]
  /\ memories = [m \in MemoryIds |-> NoRow]
  /\ clock = 1
  /\ call = [c \in Callers |-> Idle]
  /\ holds = [c \in Callers |-> 0]
  /\ picker = [entries |-> <<>>, cursor |-> 0, filtered |-> TRUE, from |-> NoRow]
  /\ calls = 0

Begin(c) ==
  /\ call[c] = Idle
  /\ calls < MaxCalls
  /\ calls' = calls + 1
  /\ \E o \in SessionCalls \cup MemoryCalls \cup (IF c = Ui THEN {Load} ELSE {}) :
       call' = [call EXCEPT ![c] = [asked |-> o, op |-> o.op, at |-> clock,
                                    stage |-> "wait"]]
  /\ UNCHANGED <<sessions, memories, clock, holds, picker>>

Tick ==
  /\ clock < Len(Instants)
  /\ clock' = clock + 1
  /\ UNCHANGED <<sessions, memories, call, holds, picker, calls>>

-----------------------------------------------------------------------------
(* The pool. *)

Held == FoldFunction(+, 0, holds)

Stage(c) == IF call[c] = Idle THEN "idle" ELSE call[c].stage
Waiting(c) == Stage(c) \in {"wait", "waitAgain", "waitPrefix"}

NextStage(stage) ==
  CASE stage = "wait" -> "have"
    [] stage = "waitAgain" -> "haveAgain"
    [] stage = "waitPrefix" -> "havePrefix"

Acquire(c) ==
  /\ Waiting(c)
  /\ Held < PoolSize
  /\ holds' = [holds EXCEPT ![c] = @ + 1]
  /\ call' = [call EXCEPT ![c].stage = NextStage(@)]
  /\ UNCHANGED <<tables, clock, picker, calls>>

(* The call returns, and drops every connection it holds. *)
Return(c) ==
  /\ call' = [call EXCEPT ![c] = Idle]
  /\ holds' = [holds EXCEPT ![c] = 0]

(* A mistake: only the first request for a connection gives up. *)
TimeoutOnce(c) ==
  /\ Stage(c) = "wait"
  /\ Return(c)
  /\ UNCHANGED <<tables, clock, picker, calls>>

(* The pool gives up after its connection timeout: the call fails, also where
   its statement has been executed already. *)
Timeout(c) ==
  /\ Waiting(c)
  /\ Return(c)
  /\ UNCHANGED <<tables, clock, picker, calls>>

StatementFails(c) ==
  /\ Stage(c) \in {"have", "haveAgain", "havePrefix"}
  /\ Return(c)
  /\ UNCHANGED <<tables, clock, picker, calls>>

(* The statement is executed and committed; then the row is asked for again. *)
ReadBack(c) ==
  /\ call' = [call EXCEPT ![c].stage = "waitAgain"]
  /\ UNCHANGED holds

Doing(c, op) == Stage(c) = "have" /\ call[c].op = op
Asked(c) == call[c].asked
Now(c) == Instants[call[c].at]

-----------------------------------------------------------------------------
(* SessionStore *)

(* A caller may say when a session was created; updated_at starts there too. *)
CreatedAt(c) == IF Asked(c).created = NoDate THEN Now(c) ELSE Asked(c).created

Create(c) ==
  LET id == Asked(c).id IN
  /\ Doing(c, "create")
  /\ \/ /\ sessions[id] # NoRow
        /\ Return(c)
        /\ UNCHANGED sessions
     \/ /\ sessions[id] = NoRow
        /\ sessions' = [sessions EXCEPT ![id] = SessionRow(Asked(c).cwd, CreatedAt(c))]
        /\ ReadBack(c)
  /\ UNCHANGED <<memories, clock, picker, calls>>

UpdateSummary(c) ==
  LET id == Asked(c).id IN
  /\ Doing(c, "update_summary")
  /\ \/ /\ sessions[id] = NoRow
        /\ Return(c)
        /\ UNCHANGED sessions
     \/ /\ sessions[id] # NoRow
        /\ sessions' = [sessions EXCEPT ![id] =
                          SessionRow(sessions[id].cwd, Now(c))]
        /\ ReadBack(c)
  /\ UNCHANGED <<memories, clock, picker, calls>>

Delete(c) ==
  /\ Doing(c, "delete")
  /\ sessions' = [sessions EXCEPT ![Asked(c).id] = NoRow]
  /\ Return(c)
  /\ UNCHANGED <<memories, clock, picker, calls>>

(* get_by_id_prefix: the exact id first, under a connection of its own; *)
ResolveExact(c) ==
  LET id == Asked(c).id IN
  /\ Doing(c, "get_by_id_prefix")
  /\ \/ /\ id \in SessionIds /\ sessions[id] # NoRow
        /\ Return(c)
     \/ /\ id \notin SessionIds \/ sessions[id] = NoRow
        /\ call' = [call EXCEPT ![c].stage = "waitPrefix"]
        /\ holds' = [holds EXCEPT ![c] = 0]
  /\ UNCHANGED <<tables, clock, picker, calls>>

(* then one row, several rows or none, under another. *)
ResolvePrefix(c) ==
  /\ Stage(c) = "havePrefix"
  /\ Return(c)
  /\ UNCHANGED <<tables, clock, picker, calls>>

(* The row a call that wrote is answered with. *)
GetById(c) ==
  /\ Stage(c) = "haveAgain"
  /\ Return(c)
  /\ UNCHANGED <<tables, clock, picker, calls>>

-----------------------------------------------------------------------------
(* SessionStore::list for SessionList::load: rows of the directory, if the
   filter is on, the latest text of updated_at first, at most ListLimit. *)

Listed(filtered) ==
  {i \in SessionIds : /\ sessions[i] # NoRow
                      /\ filtered => sessions[i].cwd = UiCwd}

(* A mistake: no DESC. *)
Ascending(ids) ==
  {s \in SetToSeqs(ids) :
     \A i, j \in DOMAIN s :
       i < j => ~Earlier(sessions[s[j]].updated, sessions[s[i]].updated)}

Descending(ids) ==
  {s \in SetToSeqs(ids) :
     \A i, j \in DOMAIN s :
       i < j => ~Earlier(sessions[s[i]].updated, sessions[s[j]].updated)}

Limited(s) == SubSeq(s, 1, IF Len(s) < ListLimit THEN Len(s) ELSE ListLimit)

List(c) ==
  /\ Doing(c, "list")
  /\ \E s \in Descending(Listed(picker.filtered)) :
       picker' = [picker EXCEPT
                    !.entries = Limited(s),
                    !.cursor = IF s = <<>> THEN 0 ELSE 1,
                    !.from = [rows |-> sessions, filtered |-> picker.filtered]]
  /\ Return(c)
  /\ UNCHANGED <<tables, clock, calls>>

PickerMoves(p) ==
  /\ call[Ui] = Idle
  /\ picker' = p
  /\ UNCHANGED <<tables, clock, call, holds, calls>>

ToggleCwdFilter == PickerMoves([picker EXCEPT !.filtered = ~@])

PickerUp == picker.cursor > 1 /\ PickerMoves([picker EXCEPT !.cursor = @ - 1])

PickerDown ==
  /\ picker.cursor > 0 /\ picker.cursor < Len(picker.entries)
  /\ PickerMoves([picker EXCEPT !.cursor = @ + 1])

-----------------------------------------------------------------------------
(* MemoryStore *)

CreateMemory(c) ==
  LET id == Asked(c).id IN
  /\ Doing(c, "create_memory")
  /\ \/ /\ memories[id] # NoRow
        /\ Return(c)
        /\ UNCHANGED memories
     \/ /\ memories[id] = NoRow
        /\ memories' = [memories EXCEPT ![id] = MemoryRow(Asked(c).scope)]
        /\ ReadBack(c)
  /\ UNCHANGED <<sessions, clock, picker, calls>>

(* touch counts the access in the statement itself; update_value leaves the
   count alone. *)
Touched(row, op) ==
  IF op = "touch" THEN [row EXCEPT !.count = @ + 1, !.touches = @ + 1] ELSE row

TouchOrUpdate(c) ==
  LET id == Asked(c).id IN
  /\ Doing(c, "touch") \/ Doing(c, "update_value")
  /\ \/ /\ memories[id] = NoRow
        /\ Return(c)
        /\ UNCHANGED memories
     \/ /\ memories[id] # NoRow
        /\ memories' = [memories EXCEPT ![id] = Touched(@, call[c].op)]
        /\ ReadBack(c)
  /\ UNCHANGED <<sessions, clock, picker, calls>>

DeleteMemory(c) ==
  /\ Doing(c, "delete_memory")
  /\ memories' = [memories EXCEPT ![Asked(c).id] = NoRow]
  /\ Return(c)
  /\ UNCHANGED <<sessions, clock, picker, calls>>

(* The rows query finds by tag. *)
Found(scope) ==
  {m \in MemoryIds : memories[m] # NoRow /\ memories[m].tag = ToTag(scope)}

Query(c) ==
  /\ Doing(c, "query")
  /\ Return(c)
  /\ UNCHANGED <<tables, clock, picker, calls>>

-----------------------------------------------------------------------------

Step(c) ==
  \/ Create(c) \/ UpdateSummary(c) \/ Delete(c) \/ ResolveExact(c)
  \/ ResolvePrefix(c) \/ GetById(c) \/ List(c)
  \/ CreateMemory(c) \/ TouchOrUpdate(c) \/ DeleteMemory(c) \/ Query(c)

StoresNext ==
  \/ \E c \in Callers : Begin(c) \/ Acquire(c) \/ Timeout(c)
                          \/ StatementFails(c) \/ Step(c)
  \/ Tick \/ ToggleCwdFilter \/ PickerUp \/ PickerDown

(* Threads run, and the pool's timeout expires. *)
StoresFairness ==
  \A c \in Callers : WF_storesVars(Timeout(c)) /\ WF_storesVars(Step(c))

StoresSpec == StoresInit /\ [][StoresNext]_storesVars /\ StoresFairness

-----------------------------------------------------------------------------

(* The picker shows what the table held when it was loaded: no session twice,
   none of another directory when the filter was on, none missing that there
   was room for, and the rows in the order of the times they were stored with
   (the clock when the call began, or what the caller of create gave), though
   the table orders texts; the cursor is on a row exactly when there is one.
   (SessionStore::list, now_iso, SessionList::load) *)
PickerShowsTable ==
  picker.from # NoRow =>
    LET rows == picker.from.rows
        shown == ToSet(picker.entries)
        wanted == {i \in SessionIds : /\ rows[i] # NoRow
                                      /\ picker.from.filtered => rows[i].cwd = UiCwd}
    IN
    /\ IsInjective(picker.entries) /\ shown \subseteq wanted
    /\ Len(picker.entries) = ListLimit \/ shown = wanted
    /\ \A i, j \in DOMAIN picker.entries :
         i < j => rows[picker.entries[i]].at >= rows[picker.entries[j]].at
    /\ \A i \in wanted \ shown, j \in shown : rows[i].at <= rows[j].at
    /\ picker.cursor \in (IF shown = {} THEN {0} ELSE 1..Len(picker.entries))

(* Every stored memory comes back with the scope it was given and is found by
   that scope alone, whatever texts session and project ids are, and its
   count is the number of touches that were executed, lost answers and
   concurrent touches included.  (Scope::to_tag, from_tag, touch) *)
MemoriesKept ==
  \A m \in MemoryIds : memories[m] # NoRow =>
    /\ FromTag(memories[m].tag) = memories[m].scope
    /\ \A s \in Scopes : m \in Found(s) <=> memories[m].scope = s
    /\ memories[m].count = memories[m].touches

(* Every call returns, even when every connection is held by a call that waits
   for its second one.  (AppState::conn, create, update_summary, touch) *)
EveryCallReturns ==
  \A c \in Callers : (call[c] # Idle) ~> (call[c] = Idle)
=============================================================================
