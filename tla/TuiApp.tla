------------------------------- MODULE TuiApp -------------------------------
(***************************************************************************)
(* The chat screen: the App state machine (input modes, slash commands,    *)
(* the /models picker), its MessageBuffer (draft and bounded history) and  *)
(* the slash-command parser.  Each action is one key in one mode, or one   *)
(* call of the public API that a host may make (toggle_plan_mode,          *)
(* approve_pending).  The loop of the crate, App::run, is a host that      *)
(* makes neither call and drops what handle_key returns: under it the mode *)
(* stays Planning and no message goes anywhere.                            *)
(*                                                                         *)
(* A message is the number of its submission; draft, filter and command    *)
(* names are sequences of characters.                                      *)
(***************************************************************************)
EXTENDS Picker

CONSTANTS
  Keys,         \* characters that can be typed (Char keys)
  Slash,        \* the character "/"
  Commands,     \* the commands of this instance, a subset of AllCommands
  Spelling,     \* Spelling[c]: the name of command c
  AllFlag,      \* the word "--all"
  Layers,       \* the words /memory accepts
  Models,       \* catalog rows of the /models picker: [target, custom |-> FALSE]
  NoPicker,
  Capacity,     \* TuiConfig.history_capacity, which MessageBuffer raises to 1
  MaxDraft,     \* bound: characters of the draft and of the filter
  MaxMessages   \* bound: messages submitted

ASSUME SlashAssumption == Slash \in Keys
ASSUME BufferAssumption == Capacity \in Nat \ {0} /\ MaxMessages \in Nat
ASSUME ModelsAssumption ==
  /\ Models \in Seq(ToSet(Models))
  /\ NoPicker \notin [query : Seq(Keys), filtered : Seq(Nat), cursor : Nat]

VARIABLES
  inputMode, planMode,
  draft, messages, historyCursor,   \* MessageBuffer
  slashFilter, slashMatches,
  modelsPicker,
  shouldQuit,
  submitted,  \* history: messages submitted so far
  returned    \* history: returned[m], times the App returned m for execution

buffer == <<draft, messages, historyCursor>>
slashVars == <<slashFilter, slashMatches>>
tally == <<submitted, returned>>
appVars == <<inputMode, planMode, buffer, slashVars, modelsPicker, shouldQuit,
             tally>>

Modes == {"Normal", "Insert", "SlashCommand", "ModelsPicker"}

-----------------------------------------------------------------------------
(* slash.rs *)

(* ALL_SLASH_COMMANDS, by the arguments they take. *)
TakesNone == {"help", "new", "compact", "models", "plugin", "clear", "quit"}
TakesOne == {"resume", "model"}
AllCommands ==
  TakesNone \cup TakesOne \cup {"sessions", "config", "memory", "export"}

ASSUME CommandsAssumption == Commands \subseteq AllCommands

(* expect_no_args, parse_sessions, parse_resume, parse_model, parse_config,
   parse_memory, parse_export *)
ArgumentsFit(command, args) ==
  CASE command \in TakesNone  -> args = <<>>
    [] command \in TakesOne   -> Len(args) = 1
    [] command = "sessions"   -> \A i \in DOMAIN args : args[i] = AllFlag
    [] command = "config"     -> Len(args) >= 1
    [] command = "memory"     -> /\ Len(args) <= 1
                                 /\ \A i \in DOMAIN args : args[i] \in Layers
    [] command = "export"     -> Len(args) <= 1

(* parse_slash_command of a text that starts with a slash: the commands it
   may name, none when the parser answers with an error. *)
Parsed(text) ==
  LET words == Words(Tail(TrimStart(text))) IN
  {c \in Commands :
     /\ words # <<>>
     /\ Spelling[c] = Head(words)
     /\ ArgumentsFit(c, Tail(words))}

(* refresh_slash_matches *)
MatchesOf(filter) == {c \in Commands : IsPrefix(filter, Spelling[c])}

-----------------------------------------------------------------------------
(* message_buffer.rs; historyCursor counts from 1, the newest entry *)

SetDraft(text) ==
  /\ draft' = text
  /\ historyCursor' = NoCursor
  /\ UNCHANGED messages

PushHistory(entry) ==
  messages' =
    Append(IF Len(messages) >= Capacity THEN Tail(messages) ELSE messages,
           entry)

HistoryPrev ==
  /\ messages # <<>>
  /\ historyCursor' = IF historyCursor < Len(messages) THEN historyCursor + 1
                                                       ELSE Len(messages)
  /\ UNCHANGED <<draft, messages>>

HistoryNext ==
  /\ historyCursor # NoCursor
  /\ historyCursor' = historyCursor - 1
  /\ UNCHANGED <<draft, messages>>

(* Whether and how the runtime gets the message is the caller's business. *)
Submit(pending) ==
  /\ PushHistory([id |-> submitted + 1, pending |-> pending])
  /\ submitted' = submitted + 1
  /\ draft' = <<>>
  /\ historyCursor' = NoCursor

-----------------------------------------------------------------------------
(* app.rs *)

AppInit ==
  /\ inputMode = "Normal"
  /\ planMode = "Planning"
  /\ draft = <<>> /\ messages = <<>> /\ historyCursor = NoCursor
  /\ slashFilter = <<>> /\ slashMatches = {}
  /\ modelsPicker = NoPicker
  /\ shouldQuit = FALSE
  /\ submitted = 0
  /\ returned = [m \in 1..MaxMessages |-> 0]

Quit ==
  /\ shouldQuit' = TRUE
  /\ UNCHANGED <<inputMode, planMode, buffer, slashVars, modelsPicker, tally>>

(* Arrow keys in Normal mode, Ctrl-arrow keys in Insert mode. *)
BrowseHistory ==
  /\ inputMode \in {"Normal", "Insert"}
  /\ HistoryPrev \/ HistoryNext
  /\ UNCHANGED <<inputMode, planMode, slashVars, modelsPicker, shouldQuit,
                 tally>>

NormalInsert ==
  /\ inputMode = "Normal"
  /\ inputMode' = "Insert"
  /\ UNCHANGED <<planMode, buffer, slashVars, modelsPicker, shouldQuit, tally>>

(* enter_slash_mode: the draft stays as it is until the next character. *)
NormalSlash ==
  /\ inputMode = "Normal"
  /\ inputMode' = "SlashCommand"
  /\ slashFilter' = <<>>
  /\ slashMatches' = MatchesOf(<<>>)
  /\ UNCHANGED <<planMode, buffer, modelsPicker, shouldQuit, tally>>

InsertEsc ==
  /\ inputMode = "Insert"
  /\ inputMode' = "Normal"
  /\ UNCHANGED <<planMode, buffer, slashVars, modelsPicker, shouldQuit, tally>>

(* push_char, backspace, tab_queue: a queued line stays in the draft, with
   its newline. *)
InsertEdit ==
  /\ inputMode = "Insert"
  /\ \/ /\ draft # <<>>
        /\ draft' = Front(draft)
     \/ \E c \in Keys : draft' = Append(draft, c)
     \/ /\ draft # <<>>
        /\ draft' = Append(draft, Blank)
  /\ Len(draft') <= MaxDraft
  /\ UNCHANGED <<inputMode, planMode, messages, historyCursor, slashVars,
                 modelsPicker, shouldQuit, tally>>

(* submit_draft of a text the parser accepts as a command *)
InsertCommand ==
  /\ inputMode = "Insert"
  /\ ~IsBlankText(draft)
  /\ Head(TrimStart(draft)) = Slash
  /\ \E c \in Parsed(draft) :
       /\ shouldQuit' = (c = "quit")
       /\ inputMode' = IF c = "models" THEN "ModelsPicker" ELSE inputMode
       /\ modelsPicker' = IF c = "models" THEN NewPicker(Models)
                                          ELSE modelsPicker
  /\ SetDraft(<<>>)
  /\ UNCHANGED <<planMode, slashVars, tally>>

(* submit_draft of a text that is no command: planning queues it
   (QueuedForApproval), executing returns it to the caller of handle_key
   (Dispatched). *)
InsertMessage ==
  /\ inputMode = "Insert"
  /\ ~IsBlankText(draft)
  /\ Head(TrimStart(draft)) # Slash
  /\ submitted < MaxMessages
  /\ Submit(planMode = "Planning")
  /\ returned' = IF planMode = "Planning" THEN returned
                 ELSE [returned EXCEPT ![submitted + 1] = @ + 1]
  /\ UNCHANGED <<inputMode, planMode, slashVars, modelsPicker, shouldQuit>>

SlashEsc ==
  /\ inputMode = "SlashCommand"
  /\ inputMode' = "Normal"
  /\ slashFilter' = <<>>
  /\ slashMatches' = {}
  /\ UNCHANGED <<planMode, buffer, modelsPicker, shouldQuit, tally>>

(* Enter on a draft without the slash just leaves; a draft the parser refuses
   changes nothing; /quit keeps the draft, every other command clears it. *)
SlashEnter ==
  /\ inputMode = "SlashCommand"
  /\ \/ /\ ~IsPrefix(<<Slash>>, draft)
        /\ UNCHANGED <<buffer, shouldQuit>>
     \/ /\ IsPrefix(<<Slash>>, draft)
        /\ \E c \in Parsed(draft) :
             IF c = "quit" THEN shouldQuit' = TRUE /\ UNCHANGED buffer
                           ELSE SetDraft(<<>>) /\ UNCHANGED shouldQuit
  /\ inputMode' = "Normal"
  /\ UNCHANGED <<planMode, slashVars, modelsPicker, tally>>

(* Backspace shortens the filter but not the draft. *)
SlashBackspace ==
  /\ inputMode = "SlashCommand"
  /\ IF slashFilter = <<>>
     THEN /\ inputMode' = "Normal"
          /\ slashMatches' = {}
          /\ UNCHANGED slashFilter
     ELSE /\ slashFilter' = Front(slashFilter)
          /\ slashMatches' = MatchesOf(slashFilter')
          /\ UNCHANGED inputMode
  /\ UNCHANGED <<planMode, buffer, modelsPicker, shouldQuit, tally>>

SlashTab ==
  /\ inputMode = "SlashCommand"
  /\ \E c \in slashMatches :
       /\ slashMatches = {c}
       /\ SetDraft(<<Slash>> \o Spelling[c] \o <<Blank>>)
       /\ slashFilter' = Spelling[c]
       /\ slashMatches' = MatchesOf(slashFilter')
  /\ UNCHANGED <<inputMode, planMode, modelsPicker, shouldQuit, tally>>

SlashChar ==
  /\ inputMode = "SlashCommand"
  /\ Len(slashFilter) + 1 < MaxDraft
  /\ \E c \in Keys : slashFilter' = Append(slashFilter, c)
  /\ slashMatches' = MatchesOf(slashFilter')
  /\ SetDraft(<<Slash>> \o slashFilter')
  /\ UNCHANGED <<inputMode, planMode, modelsPicker, shouldQuit, tally>>

PickerBrowse ==
  /\ inputMode = "ModelsPicker"
  /\ \/ modelsPicker' = MoveUp(modelsPicker)
     \/ modelsPicker' = MoveDown(modelsPicker)
     \/ modelsPicker' = PopQuery(modelsPicker, Models)
     \/ modelsPicker' = NewPicker(Models)
     \/ \E c \in Keys :
          /\ Len(modelsPicker.query) < MaxDraft - 1
          /\ modelsPicker' = PushQuery(modelsPicker, Models, c)
  /\ UNCHANGED <<inputMode, planMode, buffer, slashVars, shouldQuit, tally>>

(* Esc, Enter on a row (the command it makes is the caller's) and Enter on an
   empty list all close the picker. *)
PickerClose ==
  /\ inputMode = "ModelsPicker"
  /\ modelsPicker' = NoPicker
  /\ inputMode' = "Normal"
  /\ UNCHANGED <<planMode, buffer, slashVars, shouldQuit, tally>>

(* The calls of a host. *)
TogglePlanMode ==
  /\ planMode' = IF planMode = "Planning" THEN "Executing" ELSE "Planning"
  /\ UNCHANGED <<inputMode, buffer, slashVars, modelsPicker, shouldQuit, tally>>

(* A mistake: an approved entry stays in the queue. *)
ApprovedAgain(entry) == entry

Approved(entry) == [entry EXCEPT !.pending = FALSE]

ApprovePending ==
  LET queued == {i \in DOMAIN messages : messages[i].pending} IN
  /\ queued # {}
  /\ messages' = [i \in DOMAIN messages |-> Approved(messages[i])]
  /\ returned' = [m \in DOMAIN returned |->
                    IF \E i \in queued : messages[i].id = m
                    THEN returned[m] + 1 ELSE returned[m]]
  /\ UNCHANGED <<inputMode, planMode, draft, historyCursor, slashVars,
                 modelsPicker, shouldQuit, submitted>>

(* App::run reads no key once a key has set should_quit. *)
AppNext ==
  /\ ~shouldQuit
  /\ \/ Quit
     \/ BrowseHistory
     \/ NormalInsert \/ NormalSlash
     \/ InsertEsc \/ InsertEdit \/ InsertCommand \/ InsertMessage
     \/ SlashEsc \/ SlashEnter \/ SlashBackspace \/ SlashTab \/ SlashChar
     \/ PickerBrowse \/ PickerClose
     \/ TogglePlanMode \/ ApprovePending

-----------------------------------------------------------------------------

(* The values the screen caches agree with what they are computed from: the
   picker exists exactly in its mode, its rows and cursor are those of its
   query, the command list is the one of the filter, and the history cursor
   points at an entry (history_prev and history_next subtract it from the
   length without a check).  (App::refresh_slash_matches,
   ModelPicker::recompute_filtered, MessageBuffer::history_next) *)
CachesFresh ==
  /\ (inputMode = "ModelsPicker") <=> (modelsPicker # NoPicker)
  /\ modelsPicker # NoPicker => Fresh(modelsPicker, Models)
  /\ inputMode = "SlashCommand" => slashMatches = MatchesOf(slashFilter)
  /\ historyCursor \in 0..Len(messages)

(* What the App returns for execution, plan mode gates: a message still waiting
   for approval was never returned, every other message of the history was
   returned exactly once, by handle_key or by approve_pending, and no message
   ever twice.  What becomes of it is up to the caller.  (PlanMode,
   App::submit_draft, MessageBuffer::submit, approve_pending) *)
PlanModeGates ==
  /\ \A m \in DOMAIN returned : returned[m] <= 1
  /\ \A i \in DOMAIN messages :
       returned[messages[i].id] = IF messages[i].pending THEN 0 ELSE 1
=============================================================================
