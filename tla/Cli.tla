--------------------------------- MODULE Cli ---------------------------------
(***************************************************************************)
(* The commands of the mscode binary, run in several terminals over one    *)
(* state directory.  A command that only makes one call of a store is one  *)
(* step; login add waits for its user in between, and the chat screen      *)
(* stays open.                                                             *)
(***************************************************************************)
EXTENDS ProviderCatalog, SequencesExt

CONSTANTS
  Terminals,
  Cwd,             \* Cwd[t]: the directory of a terminal
  Tty,             \* terminals whose stdout is a TTY
  Ids,             \* what may be typed as a provider
  Labels,          \* what may be typed as a label
  Malformed,       \* the ids and labels validation refuses
  WithModels,      \* providers of the embedded models.dev snapshot
  SessionIds,      \* ids uuid may produce, sequences of characters
  Typed,           \* what may be typed as a session id or prefix
  Small,           \* capital letters of ASCII -> their small letters
  AddArgs,         \* arguments login add may be called with
  None,
  MaxCommands      \* bound

(* Ids are texts that uuid makes of a bounded length, and an argument that is
   given is one of those that may be typed. *)
ASSUME SessionAssumption ==
  /\ IsFiniteSet(SessionIds)
  /\ \A i \in SessionIds \cup Typed : i \in Seq(ToSet(i))

ASSUME ArgsAssumption ==
  AddArgs \subseteq [provider : Ids \cup {None}, label : Labels \cup {None},
                    secret : {"", "key", None}, endpoint : STRING \cup {NoEndpoint},
                    stdin : BOOLEAN, default : BOOLEAN]

ASSUME NoneAssumption ==
  None \notin [key : Nat, default : BOOLEAN, status : {"active"}, until : {None}]

VARIABLES
  accounts, endpoint,   \* (provider, label) -> account, and -> its endpoint
  sessions,             \* id -> directory, or None
  term,                 \* per terminal: the command that runs, or None
  report,               \* what the last step that ended a command said, or None
  commands,             \* commands so far
  unled                 \* history: providers whose default was removed since they had one

vars == <<accounts, endpoint, sessions, term, report, commands, unled>>

Store == INSTANCE AccountStore WITH
  Providers <- Ids, Keys <- 1..MaxCommands, Times <- {}, NoTime <- None, NoAccount <- None

Names == Ids \X Labels
SafeEndpoints == {"https", "http-localhost"}

Init ==
  /\ Store!Init
  /\ endpoint = [a \in Names |-> NoEndpoint]
  /\ sessions = [i \in SessionIds |-> None]
  /\ term = [t \in Terminals |-> None]
  /\ report = None
  /\ commands = 0
  /\ unled = {}

-----------------------------------------------------------------------------
(* A command ends with an exit code; out is what it printed. *)

Report(n, op, arg, code, out) ==
  [n |-> n, op |-> op, arg |-> arg, code |-> code, out |-> out]

(* A command of one step. *)
Runs(t, op, arg, code, out) ==
  /\ term[t] = None
  /\ commands < MaxCommands
  /\ commands' = commands + 1
  /\ report' = Report(commands + 1, op, arg, code, out)
  /\ UNCHANGED term

(* A command that goes on; its number is also the key id it will make. *)
Begins(t, op, stage, args) ==
  /\ term[t] = None
  /\ commands < MaxCommands
  /\ commands' = commands + 1
  /\ term' = [term EXCEPT ![t] = [op |-> op, n |-> commands + 1, stage |-> stage, args |-> args]]
  /\ report' = None

Exits(t, code, out) ==
  /\ term' = [term EXCEPT ![t] = None]
  /\ report' = Report(term[t].n, term[t].op, term[t].args, code, out)
  /\ UNCHANGED commands

GoesOn(t, stage, args) ==
  /\ term' = [term EXCEPT ![t].stage = stage, ![t].args = args]
  /\ report' = None
  /\ UNCHANGED commands

Nothing == UNCHANGED <<accounts, endpoint, sessions, unled>>

Version(t) == Runs(t, "version", None, 0, None) /\ Nothing

(* open_state fails. *)
StateFails(t) ==
  /\ \E op \in {"new", "sessions", "resume", "chat", "list", "remove", "use"} :
       Runs(t, op, None, 2, None)
  /\ Nothing

-----------------------------------------------------------------------------
(* Sessions. *)

(* SessionStore::create reads the row again, which may fail when it is there. *)
New(t) ==
  /\ \E i \in SessionIds :
       /\ sessions[i] = None
       /\ sessions' = [sessions EXCEPT ![i] = Cwd[t]]
       /\ \/ Runs(t, "new", Cwd[t], 0, i)
          \/ Runs(t, "new", Cwd[t], 2, "io")
  /\ UNCHANGED <<accounts, endpoint, unled>>

Exists == {i \in SessionIds : sessions[i] # None}

Sessions(t) ==
  /\ \E all \in BOOLEAN :
       Runs(t, "sessions", all, 0, {i \in Exists : all \/ sessions[i] = Cwd[t]})
  /\ Nothing

Fold(ch) == IF ch \in DOMAIN Small THEN Small[ch] ELSE ch

AnyText == "%"
AnyCharacter == "_"
Wildcards == {AnyText, AnyCharacter}

(* LIKE of SQLite, no ESCAPE given: "%" stands for any text, "_" for any one
   character, and letters of ASCII for either case.  The text is cut into one
   piece per character of the pattern. *)
Like(pattern, text) ==
  \E cut \in [0..Len(pattern) -> 0..Len(text)] :
    /\ cut[0] = 0 /\ cut[Len(pattern)] = Len(text)
    /\ \A k \in 1..Len(pattern) :
         /\ pattern[k] = AnyText => cut[k - 1] <= cut[k]
         /\ pattern[k] # AnyText => cut[k] = cut[k - 1] + 1
         /\ pattern[k] \notin Wildcards => Fold(pattern[k]) = Fold(text[cut[k]])

LikeIds == [text \in Typed |-> {i \in SessionIds : Like(Append(text, AnyText), i)}]

Matches(text) == LikeIds[text] \cap Exists

(* A mistake: the first of the matches. *)
GetFirstByIdPrefix(text) ==
  IF Matches(text) = {} \/ text = <<>> THEN None
  ELSE CHOOSE i \in Matches(text) : \A j \in Matches(text) : Len(i) <= Len(j)

(* get_by_id_prefix; what is typed goes into the pattern as it is. *)
GetByIdPrefix(text) ==
  CASE text = <<>> -> None
    [] text # <<>> /\ text \in Exists -> text
    [] text # <<>> /\ text \notin Exists /\ Cardinality(Matches(text)) = 1 ->
         CHOOSE i \in Matches(text) : TRUE
    [] OTHER -> None

(* load_models_items: the providers whose models are shown.  A store that
   cannot be opened counts as empty. *)
Configured == {a[1] : a \in {b \in Names : accounts[b] # None}}

LoadModelsItems(only, all, configured) ==
  LET gated == IF all THEN WithModels ELSE configured
      allow == IF only = None THEN gated
               ELSE IF all \/ only \in configured THEN {only} ELSE {}
  IN  WithModels \cap allow

(* The screen is given the models of now; the id that was resolved is
   dropped. *)
LaunchTui(t) ==
  \E configured \in {Configured, {}} :
    Begins(t, "chat", "tui", LoadModelsItems(None, FALSE, configured))

Resume(t) ==
  /\ \E text \in Typed :
       LET found == GetByIdPrefix(text) IN
       \/ found = None /\ Runs(t, "resume", text, 2, None)
       \/ found # None /\ t \notin Tty /\ Runs(t, "resume", text, 0, found)
       \/ /\ found # None /\ t \in Tty
          /\ LaunchTui(t)
  /\ Nothing

(* Without an id no session is created. *)
Chat(t) ==
  /\ \E text \in Typed \cup {None} :
       \/ /\ t \notin Tty \/ (text # None /\ GetByIdPrefix(text) = None)
          /\ Runs(t, "chat", text, 2, None)
       \/ /\ t \in Tty
          /\ text # None => GetByIdPrefix(text) # None
          /\ LaunchTui(t)
  /\ Nothing

LeaveTui(t) ==
  /\ term[t] # None /\ term[t].stage = "tui"
  /\ \E code \in {0, 2} : Exits(t, code, None)
  /\ Nothing

ListModels(t) ==
  /\ \E all \in BOOLEAN, only \in Ids \cup {None} :
       \E configured \in {Configured, {}} :
         Runs(t, "models", [all |-> all, only |-> only, open |-> configured = Configured], 0,
              LoadModelsItems(only, all, configured))
  /\ Nothing

-----------------------------------------------------------------------------
(* login list, remove, use *)

Held(a) == accounts[a] # None

LoginList(t) ==
  /\ \E only \in Ids \cup {None} :
       Runs(t, "list", only, 0, {a \in Names : Held(a) /\ only \in {None, a[1]}})
  /\ Nothing

LoginRemove(t) ==
  \E a \in Names :
    \/ /\ Store!Remove(a)
       /\ endpoint' = [endpoint EXCEPT ![a] = NoEndpoint]
       /\ unled' = IF accounts[a].default THEN unled \cup {a[1]} ELSE unled
       /\ Runs(t, "remove", a, 0, None)
       /\ UNCHANGED sessions
    \/ /\ ~Held(a)
       /\ Runs(t, "remove", a, 2, None)
       /\ Nothing

LoginUse(t) ==
  \E a \in Names :
    \/ /\ Store!SetDefault(a)
       /\ unled' = unled \ {a[1]}
       /\ Runs(t, "use", a, 0, None)
       /\ UNCHANGED <<endpoint, sessions>>
    \/ /\ ~Held(a)
       /\ Runs(t, "use", a, 2, None)
       /\ Nothing

-----------------------------------------------------------------------------
(* login add: flags, or the wizard, or prompts for what the flags leave out.
   args is [provider, label, secret, endpoint, stdin, default]; None where
   nothing was given. *)

ShouldLaunchWizard(t, args) ==
  /\ t \in Tty
  /\ args.provider = None /\ args.label = None /\ args.secret = None /\ ~args.stdin

AddBegin(t) ==
  /\ \E args \in AddArgs :
       Begins(t, "add", IF ShouldLaunchWizard(t, args) THEN "wizard" ELSE "prompts", args)
  /\ Nothing

At(t, stage) == term[t] # None /\ term[t].stage = stage

(* The wizard offers the catalog's providers that take a key, and a name of
   the user's own; it asks for no endpoint. *)
Offered == {p \in Ids : p \in Catalog => SupportsApiKey(Auth(p))}

WizardEnds(t) ==
  /\ At(t, "wizard")
  /\ \/ \E p \in Offered, l \in Labels :
          GoesOn(t, "add", [term[t].args EXCEPT !.provider = p, !.label = l, !.secret = "key"])
     \/ \E code \in {130, 2} : Exits(t, code, None)
  /\ Nothing

(* The prompts, in this order; an empty answer ends the command. *)
Asked(args) ==
  CASE args.provider = None -> "provider"
    [] args.provider # None /\ args.label = None -> "label"
    [] args.provider # None /\ args.label # None /\ args.secret = None -> "secret"
    [] OTHER -> "nothing"

Answers(args) ==
  CASE Asked(args) = "provider" -> {[args EXCEPT !.provider = p] : p \in Ids}
    [] Asked(args) = "label" -> {[args EXCEPT !.label = l] : l \in Labels}
    [] Asked(args) = "secret" ->
         {[args EXCEPT !.secret = s] : s \in IF args.stdin THEN {"", "key"} ELSE {"key"}}
    [] OTHER -> {}

Prompt(t) ==
  /\ At(t, "prompts")
  /\ \/ Asked(term[t].args) = "nothing" /\ GoesOn(t, "add", term[t].args)
     \/ \E args \in Answers(term[t].args) : GoesOn(t, "prompts", args)
     \/ Asked(term[t].args) # "nothing" /\ Exits(t, 2, None)
  /\ Nothing

(* A mistake: an endpoint that is given is taken as it is. *)
TakenEndpoint(args) ==
  IF args.endpoint # NoEndpoint THEN args.endpoint ELSE DefaultEndpoint(args.provider)

(* The endpoint that is given, if it passes validate_endpoint, or the default
   of the catalog. *)
EndpointOf(args) ==
  IF args.endpoint # NoEndpoint
  THEN IF args.endpoint \in SafeEndpoints THEN args.endpoint ELSE NoEndpoint
  ELSE DefaultEndpoint(args.provider)

Acceptable(args) ==
  /\ {args.provider, args.label} \cap Malformed = {}
  /\ args.secret # ""
  /\ EndpointOf(args) # NoEndpoint

(* SqliteCredentialStore::add up to its commit.  The store may also fail. *)
AddStore(t) ==
  LET args == term[t].args
      a == <<args.provider, args.label>>
  IN
  /\ At(t, "add")
  /\ \/ /\ Acceptable(args)
        /\ Store!Add(a, term[t].n, args.default)
        /\ endpoint' = [endpoint EXCEPT ![a] = EndpointOf(args)]
        /\ unled' = IF accounts'[a].default THEN unled \ {a[1]} ELSE unled
        /\ GoesOn(t, "readback", args)
        /\ UNCHANGED sessions
     \/ Exits(t, 2, None) /\ Nothing

(* ... and the row read again by name, which others may have removed or even
   added anew, to be printed. *)
AddReadBack(t) ==
  LET a == <<term[t].args.provider, term[t].args.label>> IN
  /\ At(t, "readback")
  /\ \/ Held(a) /\ Exits(t, 0, [name |-> a, endpoint |-> endpoint[a], row |-> accounts[a]])
     \/ ~Held(a) /\ Exits(t, 2, None)
     \/ Exits(t, 2, "io")
  /\ Nothing

-----------------------------------------------------------------------------

Next ==
  \E t \in Terminals :
    \/ Version(t) \/ StateFails(t)
    \/ New(t) \/ Sessions(t) \/ Resume(t) \/ Chat(t) \/ LeaveTui(t) \/ ListModels(t)
    \/ LoginList(t) \/ LoginRemove(t) \/ LoginUse(t)
    \/ AddBegin(t) \/ WizardEnds(t) \/ Prompt(t) \/ AddStore(t) \/ AddReadBack(t)

Spec == Init /\ [][Next]_vars

-----------------------------------------------------------------------------

(* An account has names and an endpoint that validation accepts, also when the
   endpoint was never validated because it is the catalog's; its provider has
   one default, and none only when the default was removed since.
   (run_login_add, add, validate_*, default_endpoint, remove) *)
AccountsSound ==
  /\ \A a \in Names : Held(a) =>
       /\ {a[1], a[2]} \cap Malformed = {}
       /\ endpoint[a] \in SafeEndpoints
       /\ a[1] \in unled \/ \E b \in Names : b[1] = a[1] /\ Held(b) /\ accounts[b].default
  /\ Store!OneDefault

(* An id that begins as a text does, in either case; a text without the
   characters that LIKE gives a meaning. *)
BeginsAs(text, id) ==
  Len(text) <= Len(id) /\ \A k \in 1..Len(text) : Fold(text[k]) = Fold(id[k])
Plain(text) == ToSet(text) \cap Wildcards = {}

Made(n) == {a \in Names : Held(a) /\ accounts[a].key = n}

(* What a command reports is so.  A command that failed changed nothing, and a
   login add that failed left no account, other terminals' removals included,
   unless only reading the new row again failed; one that succeeded printed
   its own account, or one that another terminal put in its place.  A session
   is resumed by its id, or by a text that no other session's id begins with
   in either case, and that its own begins with unless "%" or "_" is in it;
   models are shown of exactly the providers that have an account.  (the run_*
   functions, get_by_id_prefix) *)
ReportIsTrue ==
  [][report' # None /\ report' # report =>
       LET r == report' IN
       /\ (r.code # 0 /\ r.out # "io") =>
            UNCHANGED <<accounts, sessions>> /\ Made(r.n) = {}
       /\ (r.op = "add" /\ r.code = 0) =>
            /\ Held(r.out.name)
            /\ r.arg.provider = r.out.name[1] /\ r.arg.label = r.out.name[2]
            /\ Made(r.n) # {} =>
                 /\ Made(r.n) = {r.out.name}
                 /\ r.out.endpoint \in {r.arg.endpoint, DefaultEndpoint(r.arg.provider)}
       /\ (r.op = "resume" /\ r.code = 0) =>
            /\ sessions[r.out] # None
            /\ r.arg # r.out =>
                 /\ Plain(r.arg) => BeginsAs(r.arg, r.out)
                 /\ \A i \in SessionIds \ {r.out} : sessions[i] # None => ~BeginsAs(r.arg, i)
       /\ (r.op = "models" /\ r.arg.open) =>
            \A p \in Ids : p \in r.out <=>
              /\ p \in WithModels
              /\ r.arg.all \/ \E l \in Labels : Held(<<p, l>>)
              /\ r.arg.only \in {None, p}]_vars
=============================================================================
