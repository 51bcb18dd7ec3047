# A TLA+ model of mscode

mscode is an agentic coding CLI in Rust: a session is an event log on disk, a
turn is a plan executed on a DAG of nodes by an agent quartet, models are
reached through streaming providers, tools are reached directly or over MCP,
and a terminal UI sits on top. This directory holds TLA+ modules of its state
machines, the TLC configurations that check them on small instances, and
theorems checked by TLAPS.

## 1. Inventory

| Part (crate) | State it keeps | Operations | Hard behaviour | What makes it correct |
|---|---|---|---|---|
| `rollout` | `<session>.jsonl`, a BufWriter per writer | create, append, flush; open with tail repair, iter, replay | kill inside a write, failed writes, power loss, two processes | a log always reopens; no acknowledged event is lost; a failed append takes no other event with it |
| `core` | `SessionState` (status, transcript, checkpoint, counters) | open, emit, flush, apply, snapshot | append and apply are two steps; replay must give the same state | state = fold of the log |
| `protocol` | none | event and message encoding | forward compatibility | text is one whole event or an error |
| `dag-runtime` | stable graph of `DagNode`s, free list of indices | add/remove node, add edge, claim, release, complete, fail, skip, next_ready | any order of calls by several workers, replayed and late calls, index reuse | the record of a node never contradicts itself; acyclic; an intact plan has a ready node |
| `exec` | handler registry | register, execute | missing handlers, failing handlers | dispatch by label |
| `agents` | locals of `run_turn`, the graph it borrows | plan, execute_plan, critique, reflect | partial failure, dropped futures, reuse of old nodes, bounded reflection | results match the graph; no node left running; the turn ends |
| `credentials` | SQLite table, secrets in a keyring, file keyring cache | add, remove, set_default, resolve, cooldown, dead, clear | two stores without a common transaction, concurrent processes, expiry times | at most one default per provider; a row's secret exists |
| `state` | SQLite pool (at most 4 in memory), migrations | conn, in_memory, migrate | holding one connection while asking for another, crash between statements | callers do not starve each other; migrations restart |
| `thread-store`, `memories` | rows in the pool | create, update, touch, get, delete | nested `conn` calls, lost updates | an update returns what it stored |
| `tui` | modes, message buffer, history, pending edit, pickers, login wizard, slash commands | one handler per key | long key sequences across modes | cursor in range, no dead mode, no submitted draft lost |
| `mcp-client`, `mcp-server` | request ids, stdio transport | request, recv, close; handle_line, tools_call | unrelated lines, dropped requests, late answers, full pipes | an answer is matched to its own request; a call ends |
| `provider` | SSE buffer, partially assembled blocks and tool calls, retries | send, feed, next_event, stream, finalize | deltas of several blocks interleaved, truncated streams, errors after retries | tool calls are assembled from their own deltas only |
| `sandbox`, `tools` | policy; files | validate_read/write/exec; fs and bash tools | order of allow and deny rules, check-then-act | deny wins; a file tool changes nothing outside the roots (a shell is not confined) |
| `edit-formats` | none (pure) | parse, fuzzy match, apply | ambiguous anchors, edits that shift one another | applied text is what the edits say |
| `config` | none (pure) | load layers, merge | precedence | later layers win field by field |
| `cli`, `shared`, `embeddings`, `vector-index`, `vector-index-lancedb` | wiring, an in-memory vector map, stubs | | | |

Interactions. `core` owns one `rollout` writer and replays through the
reader. `agents` drives `dag-runtime` by `&mut DagGraph` and `exec` by await;
planner and critic call `provider`. `thread-store` and `memories` take
connections from `state`'s pool. `mcp-server` calls `tools`, which ask
`sandbox`. `tui` calls `credentials` through the login wizard and the model
picker. `cli` opens the stores and starts the rest.

## 2. Modules

### SessionLog (crates rollout, core, protocol)

The file is a sequence of tokens. A line is `head of e, rest of e, newline`,
so that a write may stop inside the JSON text or between the text and its
newline: the two places repair treats differently. A handle is an open
`Orchestrator`. Correspondence:

| TLA+ | code |
|---|---|
| `OpenRead`, `OpenCut`, `OpenReplay` | `Orchestrator::open`: `repair_truncated_tail` reads and judges, `truncate_to` cuts, `replay` folds. Three steps, because another process can write in between |
| `EmitBegin`, `Write`, `AppendFails`, `EmitEnd` | `emit`: serialise into the BufWriter, `write` system calls of any length, an error, `SessionState::apply` |
| `Flush`, `Close` | `RolloutWriter::flush` with fsync, dropping the writer |
| `Crash`, `PowerLoss` | process death loses the buffer; power loss keeps a prefix at least as long as the fsynced part |
| `Applies`, `Applied` | `SessionState::apply`, every arm |
| `Reading`, `Replay`, `EndLine` | the reader's line iterator and `replay`, token by token; blank lines are skipped, the first bad line is an error |
| `RepairedLength` | the rule "no newline and not JSON: cut to the last newline" |

`damage` records what went wrong so far (`io`: an append failed; `dropped`:
what was left of its line was forgotten as well; `apply`: an event was emitted
that the state, or a replay of the log, refuses; `torn`: a log whose last event
had lost its newline was opened). `StateMatchesLog`, `Reopenable` and
`AckedSurvive` are stated for undamaged logs, because the code does not keep
them after those (see section 5). `FailedAppendsContained` speaks of the logs
in which appends failed and nothing else: the failed event may be in the file
although its `emit` returned an error, but the file opens and no acknowledged
event is missing.

Assumptions: the file system keeps a prefix of unsynced appends, `set_len` is
durable at once, directory creation and opening a file do not fail, and an id
or a text is abstracted to the number of its event. 

Runs. `SessionLog_safety`: one handle, seven kinds of event, three emits. Every
pair of adjacent lines, each with every crash point, needs two emits; the
third one appends after a recovery or a failure. `StateMatchesLog`,
`Reopenable`, `AckedSurvive`, `FailedAppendsContained`.
`SessionLog_KilledWriterRecovered` is a finding (section 5). The module allows
several handles on one log, but the runs have one at a time, and so none of
their properties is about two processes: those break each of them (section 5).

### DagRuntime (crate dag-runtime)

One action per method of `DagGraph` that changes it. petgraph's storage is
modelled as far as indices go: freed indices are a stack and `add_node` pops
it. Calls that return an error or change nothing are not steps. Parallel edges
of petgraph are one edge here: no property or guard can tell them apart.
`Ready` allows any ready node, a superset of the one `next_ready` returns.
`slotOf` and `id` are the history of which `add_node` created what.

`DagRuntime_safety`: two processes (interchangeable: symmetry), three indices,
four additions, so every index can be freed and reused and a cycle of three is
possible. `NoStuckPlan` needs the transitive cycle test: with a test for
direct back edges only, three nodes wait for each other.

### Supervisor (crates agents, exec; composes DagRuntime)

`run_turn` as a program counter over the same graph variables, whose calls are
the actions of `D == INSTANCE DagRuntime`. A plan is any non-empty sequence of
at most `MaxSteps` steps; handlers succeed with any value, fail, or are
missing; the critic accepts, rejects, errs or asks for another round. The
future may be dropped at each await. Between turns the host adds, removes or
releases nodes. `AddStepNode` and `ClaimStepNode` are two steps of one
uninterrupted stretch of code: nothing else is enabled in phase `step`.

`Supervisor_turns`: two turns, two rounds, two steps, one host call; the cap of
the code is 3, and the bound is a parameter. A second turn meets what a dropped
first one left in the graph, and two steps are what it takes for one to fail
after another succeeded. `MaxAdds` is large enough that it never blocks a step.
Fairness: `WF_vars(TurnStep)`, that is, providers answer and handlers return;
both are awaits without a timeout in the code. The host gets no fairness.

### AccountStore, CredentialStore (crate credentials; tables of crate state)

`AccountStore` is the promise of the `CredentialStore` trait, translated from
`InMemoryCredentialStore`: a map from (provider, label) to account, one step
per call. `CredentialStore` is the SQLite store over one of two keyrings, where
an account is written in two places:

| TLA+ | code |
|---|---|
| `Open`, `Leave` | a CLI process builds its store (`FileKeyringBackend::new` reads the file, once); it exits or is killed between any two steps |
| `KeyringCall` | `store` and `delete`: one call of the platform service, or a change of the map in memory followed by `FlushWrite`, `FlushRename` (or `FlushFails`) |
| `AddBegin`, `AddInsert`, `AddRefused`, `AddFails` | `add`: secret first, then one transaction (clear the default, insert, count), the delete of the secret when the insert is refused, and the error paths that leave it |
| `RemoveRow`, `Unstore`, `UnstoreFails` | `remove`: row first, then the secret, whose failure is ignored |
| `SetDefault`, `MarkCooldown`, `MarkDead`, `ClearStatus` | one transaction or statement each |
| `Resolve`, `LoadKey`, `LoadSecret` | the row is read, then the secret; another process may act in between |

A transaction is one step because SQLite serialises writers. A refused call
changes nothing and is no step. The id of a secret is a counter (a fresh uuid
in the code); the secret itself is not told apart from its id. `abandoned` is
history: the key ids that a kill or a returned error left without care, which
`SecretsAccounted` excuses. Two processes with one file share the temporary name:
`FlushRename` takes whatever `<path>.tmp` holds.
A write that fails may leave part of a temporary file; the next flush writes
it whole, so `FlushFails` leaves `tmp` alone.

`CredentialStore_safety`: two processes that share the platform keyring, or use
the file keyring one at a time; two providers with two labels each, three adds,
two instants. Three adds give a default, a second account, and either a refused
duplicate or a re-add while a removal is still deleting the old secret; two
processes are what it takes for a row to go between `Resolve` and `LoadSecret`.
Processes and providers are interchangeable. `ImplementsAccountStore` maps the
abstract map to the rows whose secret is in the keyring. `Shared` names the
keyrings two processes may have open at once; the run and the theorems leave
"file" out of it, because a shared keyring file loses secrets (section 5).

### Stores, CivilTime (crates thread-store, memories, state; the session list of tui)

`Stores` has one action per statement of `SessionStore` and `MemoryStore`, and
the connections each call holds while it executes. A session is created at the time
its caller gives, or else at the clock's (`CreatedAt`; `Given` are the times
callers give, in the format of `now_iso`). A call is `Begin` (where
`now_iso` is read), `Acquire` or `Timeout`, its statement, and for the calls
that write a second `Acquire` for the row they return: `create`,
`update_summary`, `touch` and `update_value` call `get_by_id` while the first
connection is still in scope. `get_by_id_prefix` takes two connections one after
the other. `StatementFails` stands for every SQLite error. `SessionList` of the
terminal is a caller with a cached list and a cursor. The history variable
`from` in the picker is the table the list was read from.

`CivilTime` is `epoch_to_ymd_hms`, which both stores contain. SQLite orders by
the text; `PickerShowsTable` says the order is that of the times the rows were
stored with: the order of the calls only as far as callers of `create` leave the
time to the clock. The years end
with 9999 (`InstantsAssumption`): a longer year would sort before a shorter one,
because `now_iso` pads to four digits and no more. `MCStores` ASSUMEs
`CalendarFollowed`: over the 400 years after which the calendar repeats, the next
day's date is the day after.

`Stores_pool`: two callers and two connections, the smallest pool in which
every connection can be held by a call that waits for a second one; three
calls; two instants on either side of a new year, and a caller who gives the day
before; three session ids of which
one is a prefix of another; a session whose id is the word "user", so that a
tag without its kind would be ambiguous. Fairness: `Timeout` (r2d2's
`connection_timeout`) and the statements of each caller. `Acquire` has none:
the pool does not promise who is served.

### Picker, LoginWizard, TuiApp, Tui (crate tui)

`Picker` holds the fuzzy pickers and the helpers on typed text. `LoginWizard`
has one action per key and step of `login_prompt.rs`, with the text fields'
byte cursors (a character has a width). `TuiApp` has one action per key and
mode of `App::handle_key`, the message buffer with its bounded history, the
slash-command parser, the model picker, and the host's calls
`toggle_plan_mode` and `approve_pending`. `Tui` runs either on one terminal:
`RawModeGuard`, the loop, read and draw errors, and every way out. A message is
the number of its submission; `returned`, `submitted` and `confirmed` are history.
What `PlanModeGates` says is what the `App` returns for execution, from
`handle_key` (`Dispatched`) and `approve_pending`. What becomes of it is up to
the caller, which is outside the model: the loop of the crate, `App::run`, drops
every outcome of `handle_key` (`app.rs:478-482`) and calls neither
`toggle_plan_mode` nor `approve_pending`, so under it the mode stays `Planning`
and no message is sent anywhere. The repository's tests are the only callers of both.

`Tui_keys`: drafts of four characters over four keys, so that `/m`, `/mm`, a
trailing blank and a non-command fit; three messages in a history of two, so
that one is evicted; command names one of which is a prefix of another; a
character of two bytes in the wizard. There is no deadlock check: a program
that quit does nothing more.

### ProviderApi, ProviderStream (crate provider)

`ProviderApi` are the conversions: request bodies, one-shot responses, the class
of an HTTP error. `ProviderStream` is `stream` of the three HTTP adapters:

| TLA+ | code |
|---|---|
| `Respond` | the request goes out; a status that is no success ends it, otherwise `MessageStart` |
| `AnthropicServer`, `OpenAiServer`, `OllamaServer`, `ServerCloses` | the server's events, as the decoders expect them (external); the connection may end anywhere |
| `Receive`, `ReceiveWhole`, `ReceiveCut` | one chunk: `SseParser::feed` or Ollama's splitter, and the decoder for every complete event |
| `Read`, `TakeLine` | one symbol put into the buffer; a newline completes a line (`next_event`, Ollama's splitter) |
| `BlockStart`, `ArgsDelta`, `CallDelta`, `TextDelta` | the arms of the decoders |
| `Stop`, `Final`, `TransportError` | the end of the body and `finalize`; `?` on a transport error |
| `Captured`, `Sink` | `CapturingStreamSink` |

The wire is symbols (name line, data, newline; data in two halves when a
character of several bytes is inside), so a chunk may end in every place the
parser treats differently. What a connection is after a chunk is the recursive
function `Reading` of its symbols, because that is what the proofs reason about
(section 3). `lossy` is history: a chunk or an entry of a call
array was thrown away. `FinalIsWhatWasSaid` compares with the one-shot answer to
the same words when nothing was lost, and otherwise demands that nothing is
invented or reordered.

`ProviderStream_chunks`: four events, two blocks or calls, eight symbols on the
way: two tool calls with interleaved fragments and a text need four events.
`ProviderStream_CutCharactersKept` is a finding (section 5).

### SandboxPolicy, FsTools, ToolHost (crates sandbox, tools, mcp-client, mcp-server)

`SandboxPolicy` are the checks as the code makes them, on the text of a path.
`FsTools` are the five built-in tools over one file system with directory
entries and inodes: `write_file` opens (and truncates) its sibling, fills it,
renames it, or cleans up; `read_file` looks at the size first; `grep` walks file
by file; `bash` spawns, and times out without waiting for the child.

The walk of `grep` passes over directories whose name begins with a dot
(`Searched`; the root itself may), files that are not UTF-8 (`Binary`) and, at any
moment, what cannot be read (`GrepSkips`), all without a word, as the code does;
`GrepTellsAll` claims the other files only. `ReadFails` is an error that ends the
call.

The shell of `bash` is not confined: the allowlist looks at the first word of the
command and at nothing the shell then does, and neither a timeout nor the end of
the call ends what it left running. A command comes with its `reach`, the files
its processes may change; from the spawn on (`reached`) any of them may be
overwritten, created or removed, at any time (`ShellWrites`). The properties of
files are about those no command started so far reaches, so
`OutsideUntouched` is a statement about the four file tools beside arbitrary
shells and not about `bash`. What a shell does to directories, and links, are
left out.

`ToolHost`
composes them: tasks of a host with a `ToolRegistry`, and an MCP server in a
child process that runs the same tools on the same workspace. A pipe holds what
`room` says without a reader, and more only while the other side waits for a
line (`ServerListens`, `ClientListens`); whoever finds no room waits, the host with the
mutex in its hands.

| TLA+ | code |
|---|---|
| `Invoke`, `Discover` | `invoke_by_name`; `register_all` |
| `Lock`, `Send`, `Recv`, `Ends` | `McpToolAdapter` takes the mutex, `McpClient::request` writes a line and reads one |
| `Cancel` | the future is dropped at its await: the lock is free, a line may be half written or half read, an answer may still come |
| `Close`, `ServerGone` | `McpClient::close`; the child exits or is killed |
| `ServerRead`, `HandleLine`, `ServerReply`, `ServerWrite` | `run_stdio`, `handle_line`, `tools_call`; the write of the response, before which no line is read |
| `Jammed` | the host's `write_all` (`transport.rs:74`) and the server's (`server.rs:170`) wait for each other |

`ToolHost_calls`: two tasks, three calls (discovery, one that is cancelled, one
that meets what it left), one cancellation; pipes that hold no line or one. The
requests have two contents for a new file, a denied name, a sibling whose name
begins like the workspace, a path with "..", a read, a listing and a grep, and
two commands, on and off the allowlist; bash runs on the server, and the command
on the list reaches the new file and the file outside. A hidden directory
with a match is there at first. A shell writes texts, binary contents or nothing,
and may create files up to `MaxInodes`, three of them. Fairness: each task (`TaskStep`) and each
tool (tokio schedules tasks, its mutex is first come first served, `bash` has a
timeout), and the server's reading, answering and writing (`ServerStep`) as long as
the pipes let it. The last is justified for this repository's server and for no
other: `client.rs` has no timeout, so a foreign server that hangs holds its callers
for ever. There is none for shells, for files passed over, for failing reads and
writes, for cancellation or for the death of the server.

`EveryCallEnds` says that a call ends unless both processes wait for each other
for good, which they can: a call is cancelled whose answer does not fit the pipe,
and the next request does not fit either. `JamNeedsCancel` says that this takes a
cancelled call.

### EditApply (crate edit-formats)

The three parsers, `FuzzyMatcher::find_block` and `apply_edit_operation` as
operators; a state machine applies proposals one after another, each to the
content the one before left. Similarities are fractions, compared exactly where
the code compares floating-point numbers. `EditLandsOnBest` states the result
over ranges of positions, without the scan over lines and without its order.
Texts are sequences over `Chars`. An answer with a block carries what its author
meant (`block`, history), and `AnswersAssumption` says that its lines are those
of that block, with prose but no other marker before it and any lines after.

`EditApply_blocks`: files of three lines over four kinds of line, with and
without a final newline; needles and replacements of one or two lines, several
at and just under the threshold of 0.7 and the tie distance.

### ProviderCatalog, Config, Cli (crates credentials, config, cli)

`ProviderCatalog` is `PROVIDER_CATALOG`, tier by tier, reduced to what decides
whether an account can be added. `Cli` has one action per subcommand; `login
add` goes prompt by prompt (or through the wizard), so that another terminal
acts in between; accounts are those of `Store == INSTANCE AccountStore`, the
specification `CredentialStore` implements. `get_by_id_prefix` puts what is typed
into a LIKE pattern as it is: `Like` is that match, with "%" and "_" as wildcards
and ASCII letters of either case, and `Matches` are the sessions it finds. What
`ReportIsTrue` demands of a resumed session is said without it: no other id
begins as the text does, in either case, and its own does unless the text has
a wildcard. `Config` are pure functions; `MCCli`
ASSUMEs `MergeIsHighest` (the merge of five layers is the highest layer that
says something, field by field) and `EnvironmentTaken` (what any order of the
environment can give).

`Cli_commands`: two terminals, one a TTY, four commands: two adds, a removal and
a use, or an add whose row is removed and added again by the other terminal
before it is read back. The texts for `mscode resume` have the other case, a "%" and
a "_" among them. The VIEW leaves out `report`, which no step reads;
`ReportIsTrue` is a property of steps, and `report'` depends only on what the
view keeps, so no violation is hidden.

## 3. Proofs

Eight modules hold theorems, checked by TLAPS for all values of the constants.
Their hypotheses are the named ASSUMEs of the modules, which TLC evaluates on
every instance, and where a theorem says so a condition of its own.

| Module | Theorems (property of a run) |
|---|---|
| `DagRuntimeProofs` | `TypeCorrect`, `RecordsConsistent`, `EdgesJoinLiveNodes`, `GraphAcyclic`, `PlanNeverStuck`, `NodeHistoryKept` |
| `SupervisorProofs` | `TurnsUseGraph` (refines DagRuntime), `TurnTypesKept`, `CapHolds` (`ReflectionsCapped`), `RunningNodesAccounted` (`RunningAccounted`), `ResultsAreTheGraphs` (`ResultsMatchGraph`) |
| `PersistenceProofs` | of SessionLog: `LogIsTyped` (`TypeOK`), `StateIsTheLogs` (`StateMatchesLog`), `LogReopens` (`Reopenable`), `AcknowledgedEventsSurvive` (`AckedSurvive`); of Stores and CivilTime: `StampsInOrder`, `MemoriesAreKept` (`MemoriesKept`), `PickerIsTrue` (`PickerShowsTable`) |
| `CredentialStoreProofs` | `TypeCorrect`, `OneDefaultHolds`, `SecretsKept`, `SecretsAreAccounted` (`SecretsAccounted`), `ChosenLoads`, `Implements` (refines AccountStore) |
| `ToolHostProofs` | `AnswersAreForRequests` (`AnswerIsForRequest`), `AcknowledgedIsPublished` (`PublishedIsAcked`), `GrepIsComplete` (`GrepTellsAll`), `OutsideIsUntouched` (`OutsideUntouched`) |
| `FrontEndProofs` | of the terminal: `ScreenCachesAreFresh` (`CachesFresh`), `PlanModeGatesEveryMessage` (`PlanModeGates`), `CursorsStayOnBoundaries` (`CursorOnBoundary`), `WizardReturnsTheConfirmed` (`ResultIsConfirmed`), `TerminalIsRestored` (`TerminalRestored`); of Cli: `AccountsStaySound` (`AccountsSound`), `ReportsAreTrue` (`ReportIsTrue`) |
| `ResponseProofs` | of ProviderStream: `TheConversationIsKept` (`BodyKeepsText`), `TheAnswerIsWhatWasSaid` (`FinalIsWhatWasSaid`); of EditApply: `EditsLandOnTheBest` (`EditLandsOnBest`), `BlocksAreReadAsWritten` (`BlockReadAsWritten`) |
| `NumberLemmas` | no theorem of its own: induction over a range of numbers stated with sets, least and greatest numbers, that a function defined by recursion over `0..k` exists, and when two such functions agree |

**DagRuntime.** Types first; then `RecordConsistent`, `NoDanglingEdge` and
`IndicesPartitioned` (a lemma of the proofs, on how petgraph keeps its indices)
are each inductive relative to types (an added node takes a fresh record, a freed
index leaves no edge behind). Acyclicity is inductive
because `add_edge` tests the whole new edge set and a subset of an acyclic set
is acyclic. `PlanNeverStuck` follows from acyclicity alone: were no pending
node ready, the pending nodes would be a non-empty set in which each has a
predecessor, which is what a cycle is. `NodeHistoryKept` is an action property
from types and records.

**Supervisor.** `TurnsUseGraph` comes first: every step of a turn or the host
is a call of the graph or leaves it alone, so the facts about a node's record
are DagRuntime's own invariants. Then the locals: `RoundsCounted` ties the loop
counter to the number of plans in each phase; `NodeRuns` says the awaited node
is running and no dropped turn's; `RunLogged` keeps, for every step done, a
node of its own that is completed with the recorded outputs. `RunLogged` is
what makes `ResultsMatchGraph` inductive: a later step takes a pending node, so
never one of an earlier step.

**SessionLog.** The invariant is `LogInv`: types, `Judged` (what a repair
decided on is still what the file needs) and, while nothing is damaged,
`Healthy`: the file is a good log, that is, each prefix of it reads as complete
lines and a begun one without error; acknowledged events are read from it; and
each handle stands where its buffer says. The proofs need what reading a file
gives when tokens are appended or cut: `Replay` reads through the recursive
function `Reading(f)`, so that its value at each length is a fact to use, and
`NumberLemmas` gives the induction. The hypothesis of these proofs is
`OneHandle`, one Orchestrator at a time per session: the code has no lock on the
log, and without it the properties fail (section 5). The run has one handle.

`LogIsTyped` needs no such hypothesis: with any number of handles every value
keeps its type, the counter of messages in a `SessionState` included. That one
is bounded by the number of events emitted because no event is twice in the
file and the buffers (`WrittenOnce`), however many handles append, cut and
flush, and because replaying a file counts at most the beginnings of lines in
it (`CountInv`, `ReadingCounted`).

**Stores.** `StampsInOrder`: for all seconds a and b with a before b, the civil
time of a is before that of b. The lemmas follow `epoch_to_ymd_hms`: where a
century and a year begin (`YearStart`), that the division it uses finds that
year (`YearsOfEra`), the months in a year that begins in March (`MonthsOfYear`),
and that later days have later dates (`LaterDay`, `CivilOrder`). `TextsOrdered`
carries the order over to the texts. `StoresInv` says that what a call holds is
what was asked, that a session's row has the text of a time, the clock's or the caller's,
and that a memory's row agrees with itself: tag, scope, touches and
count are those of one insert and the updates after it (`MemoryIs`), so no call
leaves one column changed without the other. `PickerIsTrue` adds `PickerInv`:
the screen shows the first rows of a table that was there, latest first.

**ProviderStream.** For any texts, fragments, numbers of blocks, chunk sizes and
order of events. `StreamInv` speaks, while the response is read, of what the
parser would be after everything on the way:

- `Typed`: every block the decoder, a pending line or the wire mentions is one
  the server has described, and every id is its block's, or absent;
- `Spoken`: for the text, and for each block, the words the client holds, in
  the response, in pending lines and on the wire, are among those the server
  said, in their order (`Follows`). It survives every loss: a dropped chunk, a
  garbled line, an entry of a call array never looked at;
- `Whole`: if nothing was lost, reading the wire leaves the parser clean, with
  text, stop reason, buffers and the sink's calls those of what was said.

A chunk of any size moves symbols from the wire to the parser, and reading two
pieces one after the other is reading them joined (`ReadingJoined`), so where the
transport cuts does not matter. A server's event adds to the wire and to
`said`; the lemmas `TextSame`, `StopSame`, `KnownSame` and `NewSame` say that a
clean parser that reads it does the same to the response. `EndStep` goes from
there to the final response, which leaves buffers out (`ArgsChosen`).
`TheConversationIsKept` needs only that the body is `Body` of the request until
it is sent, and what choosing elements of a sequence and mapping them keeps.
The server is the one the decoders expect: blocks in order, a known index, an
id with the first fragment of a call; a server that breaks this is not modelled.

**EditApply.** The code scans windows of whole lines; the property speaks of
ranges of the text. `WindowsAre` says they are the same, from where the lines of
a text start and end. `HoldsBest` is the invariant of the scan: no window so far is
better than the best by more than the distance of a tie, none is better at all
when no tie is counted, and a counted tie is of a window that is close. A window
that is better by more than that distance takes the place of the best, and is
above all that were close to the old one or below it (`FarAbove`, on fractions).
Distances and scores are numbers in range because the table of the distance is,
row by row. `Proposed` and `Applied` are the invariants of the machine. For the
parser, the scan of the lines stops at the author's END whatever comes before
the SEARCH and after the END. Both theorems hold for files, edits and answers of
any length over any characters.

**CredentialStore.** `TypeCorrect` and `OneDefaultHolds` need no condition,
the others that the file keyring is not shared, `Shared \subseteq {"os"}`. The
inductive invariant `Inv` is the conjunction of

- `Typed`: the types, and that the key id and the account an operation holds
  are there (`LocalsReady`), without which `AddInsert` could insert nothing;
- `KeysApart`: a key id belongs to one row, or to one operation in progress, or
  to nothing. It is what makes a late delete harmless: `Unstore` takes away a
  key id that no row and no other process's insert relies on;
- `OsSecrets`: with the platform keyring, rows and pending inserts have their
  secret in the service;
- `FileSecrets`: with the file keyring, one process has it open, its map holds
  the secrets of all rows and of its own add, and what it is about to rename is
  that map.

`Inv` gives that the usable accounts are all the rows, so that every step of
the table is the step of the atomic store of the same name, and every other
step changes nothing. `SecretsAreAccounted` adds `SecretsOwned`: also what is in
the map of the process that has the file is owned, because its next flush
writes it, and a delete has taken its key out of that map already.

**ToolHost and FsTools.** For the wire, `WireTyped` and `IdsApart`: a request id
goes with one call (`Pairs`), on either pipe, in the server's hands or in the
response it is writing, so that an answer accepted by its id is the answer to that
call, however many lines of cancelled calls are under way. For the files,
`FilesTyped` and `EntriesApart` (no two names for one inode). A step of a shell
(`Shells`) disturbs one file that is in `reached`, and `reached` only grows; so each
invariant is stated for the files outside it. Per theorem:

- `Undisturbed`: as long as no two writes to one path overlapped, a writer has
  its sibling to itself and every file that no shell reaches is what was
  acknowledged last;
- `Tree` and `GrepKnows`: files are in directories, an inode that a grep saw at
  its beginning has no other name later (`Settled`), and what it has not looked at
  is still to do or was passed over;
- `HandlesInside`: who writes was allowed to, and holds no inode outside, except
  one that a shell reaches.

`OutsideIsUntouched` rests on the sandbox. `SandboxConfines` is that what
`validate_write` lets through has the workspace at its beginning, component by
component, although the check is on the text: the texts of a path's beginnings,
with a slash after each (`Lines`), are each the beginning of the next, and a
name without a slash ends where the next slash is, so that `w` is no beginning
of `wx` (`LinesTellNames`). A path that passes is absolute and has no dots, so
the file system takes it as it is written (`CanonicalAbsolute`; there are no
links in the model).

Two conditions are on names, stated in `FsTools`. `SiblingsApart`: no temporary
name is also a target. `SiblingsUndenied`: no deny pattern matches the temporary
name of a file that none matches. The code checks neither: a file called like a
sibling is overwritten (section 5). `MCToolHost` has both as `NamesAssumption`,
so TLC evaluates them on the instance.

**Tui.** One invariant per program. `AppInv` adds to the two properties that
messages are numbered as they were submitted (`Numbered`) and that the open
picker is of a shape the picker operations keep (`PickerSound`). `WizardInv` says
what has been chosen and typed at each step (`Chosen`, `Typed`) and that every
field's cursor is the offset of some character; the offsets of a text are the
recursive function `Offsets`, and the lemmas say what inserting, removing and
moving do to them. `ProgramSteps` makes each step of `Tui` a step of one program
or of none. `TerminalRestored` is inductive by itself.

**Cli.** Commands that run have numbers of their own, and keys carry the number
of the `login add` that made them (`Numbered`); a row with a running command's
key is the one it has added, under its names and with its endpoint (`Owned`).
That a failed command left no account, and what a successful one printed,
follows with other terminals acting in between. `StepKinds` sorts the sixteen
actions into five kinds by what they do, and the invariants are proved per
kind. A default is there as long as none was removed because the first account
of a provider becomes its default and the flag only moves (`Sound`).

The ASSUMEs, beyond bounds being natural numbers and markers like `None` being
no record: the markers of the graph a turn uses are apart from its values
(`GraphAssumption`); what a file just opened holds is told apart from every text
that is written (`ContentsAssumption`); paths and their components are
sequences, and what is there at first is a tree with finitely many files
(`TreeAssumption`); a given path is what `std::path` splits it into, and the
workspace is absolute and without ".." (`PathsAssumption`, `RootsAssumption`); a buffer has room for a message, which `MessageBuffer::new`
sees to with `max(1)` (`BufferAssumption`); the tables of models and providers
are sequences (`ModelsAssumption`, `ItemsAssumption`); session ids are
sequences, and finitely many, as uuids are (`SessionAssumption`); an argument
that is given is one that may be typed (`ArgsAssumption`); the times of the
clock are natural numbers of seconds before the year 10000
(`InstantsAssumption`), the picker's limit is positive (`RowsAssumption`), and a
scope of kind user or global has no id (`ScopesAssumption`); texts are sequences
of characters, of which newline is one (EditApply's `ContentsAssumption`), and
the lines of an answer hold the block its author meant (`AnswersAssumption`);
the messages of a request and their blocks are sequences
(`RequestsAssumption`), and an absent id is no block's number and only texts that
are not empty hold characters of several bytes (`ServerAssumption`).

Only model-checked:

- liveness: `TurnEnds`, `EveryCallReturns`, `EveryCallEnds`. It needs ENABLED,
  which the prover does not handle.
- `FailedAppendsContained` and `JamNeedsCancel`. Every other property of a
  passing run is stated by a theorem.
- the merge of `Config`, and what `validate_read` and `validate_exec` let
  through, as operators.

## 4. Plan

Built, in this order: `SessionLog`, `DagRuntime`, `Supervisor`; `AccountStore`,
`CredentialStore`; `Stores`; `TuiApp`, `LoginWizard`, `Tui`; `ProviderStream`;
`SandboxPolicy`, `FsTools`, `ToolHost`; `EditApply`; `Config`, `Cli`; then the
proofs of section 3.

Left: an abstract durable log that `SessionLog` refines under `OneHandle`, and the
components of section 6.

## 5. Where the code and its documentation differ

Shown by a run (see `findings` in PROJECT.json):

- `SessionLog_KilledWriterRecovered`: a line that lost only its newline is
  kept, and the next append joins it.
- `ProviderStream_CutCharactersKept`: a chunk that ends inside a character is
  dropped with everything in it.

Seen while modelling, without a run of their own.

Session log and plan:

- an append that failed half way, or an event the reducer refuses, is not
  undone: the log and the state differ from then on.
- two processes can have one log open: nothing locks it. Repair cuts to a length
  judged before the other one's append (`reader.rs:195`) and so takes its complete,
  acknowledged events away; and the two write between each other's lines.
- a `SessionStarted` whose append failed may be in the log all the same; emitted
  again it is there twice, and the log no longer opens.
- `core/src/error.rs` declares `SessionNotStarted`; nothing raises it, and
  `apply` accepts messages in status `New`.
- `fail` moves a completed node to `Failed`.
- `DagEdge`'s doc says `from` must complete before `to` may start; `claim`
  does not look at predecessors.
- `NodeNotFound` is documented for nodes that were removed, but the index of a
  removed node is reused by the next `add_node`.
- `InvalidState`'s doc mentions `complete` by a process that does not own the
  claim; `complete` does not take a pid.
- a reused pending node keeps its old inputs.
- `run_turn` appends the critic's feedback to the goal after the planner has
  answered, so the planner never sees it.
- the crash recovery `dag-runtime/src/lib.rs` describes (scan for nodes whose
  claimant is gone) is not in the repository.

Stores:

- two processes with one keyring file: a flush writes a map read before the
  other's change, whose row then has no secret.
- `mark_cooldown` puts a dead account on a timer, and it comes back by itself;
  a failure reported late overwrites a status set meanwhile.
- `credentials/src/store.rs` says selection by oldest `last_used_at`
  load-balances; nothing writes `last_used_at`, so `resolve` takes the first
  eligible label (`Chosen`).
- `credentials/src/sqlite.rs` speaks of immediate transactions and WAL;
  `conn.transaction()` is deferred and no pragma sets WAL.
- `add` can return an error after its commit, when the row is read back.
- `state/src/pool.rs` says one connection per logical operation; calls that
  write hold two, and a call may fail by timeout after its statement was
  committed.
- `state/src/migrations.rs` says migrations run in a single transaction; none
  is opened.
- `update_value` without an embedding clears the stored one.
- `create` stores any text a caller gives as `created_at`, and in `updated_at`
  too: what is not in the format of `now_iso` sorts by its characters, and a time
  that is not the clock's puts the session elsewhere in the list.
- `get_by_id_prefix` is documented to resolve an unambiguous prefix
  (`store.rs:111-116`); its LIKE has no ESCAPE and ignores the case of ASCII
  letters, so "%" and "_" match ids that do not begin with the text.

Terminal and command line:

- in slash mode Backspace shortens the filter but not the draft, and Enter runs
  the draft.
- the history drops its oldest entries, also those that wait for approval.
- `App::run` drops what `handle_key` returns, a dispatched message included, and no key reaches
  `toggle_plan_mode` or `approve_pending`.
- `launch_tui` drops the session id; `chat` creates no session, though its doc
  says so; the picker works on a snapshot of the accounts.
- the wizard asks for no endpoint, so a custom provider, or one without a
  default endpoint, is always refused unless `--endpoint` is given.
- the catalog's doc says `add` refuses OAuth-only providers; `add` does not look
  at it.
- `mscode models` with only an ollama account says no provider is configured.
- `mscode new` can report a failure after the row exists.
- of two spellings of an environment variable, the order of a `HashMap` decides;
  the CLI does not call `load_config`.

Tools and MCP:

- `fs_write.rs` documents a temporary name with the pid; the name is fixed, so
  two writes to one path share it (`clashed`), and the path may end up with a
  part of either. A write to the workspace root makes its sibling outside.
- relative paths are documented as allowed and are refused.
- a bash timeout does not kill the child, which goes on changing files. The
  allowlist is a check of the command's first word, and `sh` and `python` are on
  it: what the shell then does is not confined to the workspace.
- `grep` passes over dot directories, what it cannot read and what is not UTF-8,
  and still says `truncated: false`.
- a cancelled call with a long answer can leave the server writing to a pipe
  nobody reads; a long next request then waits for the server, and there is no
  timeout on either side.
- a parse error is answered with id 0 where the doc says null, and a
  notification is answered although the doc says it is not.
- after a cancelled request every later answer is one behind, and each call
  fails with `IdMismatch`: `AnswerIsForRequest` holds because the id is compared.
- a tool's failure comes back over MCP as a success with `isError`; the client
  reads `input_schema` where the server writes `inputSchema`; it never sends
  `initialize`.

Edits and providers:

- the doc promises that close candidates are refused as ambiguous; a better
  window forgets ties counted before it (0.90, 0.91, 0.925), and several exact
  occurrences are never ambiguous: the first is taken.
- `anchor` is not used, and blocks after the first are ignored.
- an Anthropic tool block that never gets a fragment goes out with its id as
  arguments; OpenAI and Ollama bodies lose tool results and the system prompt.

Hazards that are one line of code, where a property would only restate it, are
in the lists above: a claim before the predecessors completed, feedback after
the planner, `last_used_at` never written, late cooldowns, the snapshot of the
picker, the order of environment variables, the eviction of pending entries.

## 6. Not modelled

- `vector-index`: a map under one lock with a brute-force scan over
  floating-point vectors; no protocol, and real arithmetic is out of TLC's
  reach. `vector-index-lancedb`: every operation returns a not-implemented error.
  `embeddings`: wraps an external model. `shared`: an error type and a version.
- Rendering (`login_render.rs`, draw functions, theme): layout only.
- `protocol`: ids, timestamps and JSON encoding; only that a line is one whole
  event or none. `exec`: registration, which happens once; `NodeContext`.
- The echo provider, a test double, and the models.dev snapshot, data of which
  `Cli` keeps the providers it names. Reading calls that change nothing and on
  which nothing depends: `to_json`, `status_counts`, snapshots, `list` of
  accounts in CredentialStore.
- Running migrations: they are over before any call. Integration tests are read
  as statements of intent.
