---------------------------- MODULE FrontEndProofs ----------------------------
(***************************************************************************)
(* Proofs about what a user drives.                                        *)
(*                                                                         *)
(* The full-screen programs, for every set of keys, commands, models and   *)
(* providers and every length of the texts: the chat screen's caches and   *)
(* plan mode, the wizard's cursors and result, and the terminal.  Each     *)
(* program has its own invariant; ProgramSteps says that a step of the     *)
(* composition is a step of one program or of none.                        *)
(*                                                                         *)
(* The commands, for every set of terminals, of what may be typed and of   *)
(* session ids, and any number of commands.                                *)
(***************************************************************************)
EXTENDS Tui, Cli, NumberLemmas, FiniteSetTheorems, TLAPS

-----------------------------------------------------------------------------
(* Pickers *)

\* The rows of a picker are indices of its items.
LEMMA MatchingProps ==
  ASSUME NEW S, NEW items \in Seq(S), NEW query
  PROVE  Matching(items, query) \in Seq(1 .. Len(items))
<1> DEFINE k == Len(items)
           R == Seq(1 .. k)
           shows(n) == items[n].custom \/ FuzzyMatch(items[n].target, Trim(query))
           next == [n \in 1 .. k |-> [r \in R |-> IF shows(n) THEN Append(r, n) ELSE r]]
           Fits(f) == f = [n \in 0 .. k |->
                             IF n = 0 THEN <<>>
                             ELSE IF shows(n) THEN Append(f[n - 1], n) ELSE f[n - 1]]
<1>1. k \in Nat /\ <<>> \in R
  OBVIOUS
<1>2. \A n \in 1 .. k, r \in R : Append(r, n) \in R
  OBVIOUS
<1>3. Matching(items, query) = (CHOOSE f : Fits(f))[k]
  BY DEF Matching
<1> HIDE DEF k, R, shows
<1>4. next \in [1 .. k -> [R -> R]]
  BY <1>2
<1>5. PICK g \in [0 .. k -> R] : g[0] = <<>> /\ \A n \in 1 .. k : g[n] = next[n][g[n - 1]]
  <2> HIDE DEF next
  <2>1. PICK g : Recursion(g, k, R, <<>>, next)
    BY <1>1, <1>4, RecursionExists
  <2> QED
    BY <2>1 DEF Recursion
<1>6. Fits(g)
  <2>1. ASSUME NEW n \in 1 .. k
        PROVE  g[n] = IF shows(n) THEN Append(g[n - 1], n) ELSE g[n - 1]
    <3>1. g[n - 1] \in R
      BY <1>1
    <3> QED
      BY <1>5, <3>1
  <2> DEFINE value(n) == IF n = 0 THEN <<>>
                         ELSE IF shows(n) THEN Append(g[n - 1], n) ELSE g[n - 1]
  <2>2. \A n \in 0 .. k : g[n] = value(n)
    <3>1. \A n \in 0 .. k : n = 0 \/ n \in 1 .. k
      BY <1>1
    <3>2. g[0] = <<>>
      BY <1>5
    <3> HIDE DEF next
    <3> QED
      BY <2>1, <3>1, <3>2
  <2>3. g = [n \in 0 .. k |-> g[n]]
    BY <1>5
  <2>4. g = [n \in 0 .. k |-> value(n)]
    <3> HIDE DEF value
    <3> QED
      BY <2>2, <2>3
  <2> QED
    BY <2>4
<1>7. PICK f : f = CHOOSE h : Fits(h)
  OBVIOUS
<1>8. Fits(f)
  <2> HIDE DEF Fits
  <2> QED
    BY <1>6, <1>7
<1> DEFINE T == {n \in Nat : f[n] \in R}
<1>9. 0 \in T
  BY <1>1, <1>8
<1>10. ASSUME NEW n \in 0 .. k, n < k, n \in T PROVE n + 1 \in T
  <2>1. n + 1 \in 1 .. k /\ n + 1 # 0 /\ (n + 1) - 1 = n /\ n + 1 \in 0 .. k /\ n + 1 \in Nat
    BY <1>1, <1>10
  <2>2. f[n + 1] = IF shows(n + 1) THEN Append(f[n], n + 1) ELSE f[n]
    BY <1>8, <2>1
  <2> QED
    BY <1>2, <1>10, <2>1, <2>2
<1>11. k \in T
  <2> HIDE DEF T
  <2>1. 0 .. k \subseteq T
    BY <1>1, <1>9, <1>10, Climb
  <2> QED
    BY <1>1, <2>1
<1> QED
  BY <1>3, <1>7, <1>11 DEF R, k

PickerOf(items, chars) ==
  {p \in [query : Seq(chars), filtered : Seq(Nat), cursor : Nat] : Fresh(p, items)}

LEMMA QueryProps ==
  ASSUME NEW S, NEW items \in Seq(S), NEW chars, NEW q \in Seq(chars)
  PROVE  /\ WithQuery(items, q) \in PickerOf(items, chars)
         /\ WithQuery(items, q).filtered \in Seq(1 .. Len(items))
<1>1. PICK rows, p : rows = Matching(items, q) /\ p = WithQuery(items, q)
  OBVIOUS
<1>2. rows \in Seq(1 .. Len(items)) /\ Len(items) \in Nat
  BY <1>1, MatchingProps
<1>3. rows \in Seq(Nat) /\ (rows # <<>> => 1 \in DOMAIN rows)
  BY <1>2
<1>4. p = [query |-> q, filtered |-> rows, cursor |-> IF rows = <<>> THEN NoCursor ELSE 1]
  BY <1>1 DEF WithQuery
<1>5. p \in [query : Seq(chars), filtered : Seq(Nat), cursor : Nat]
  BY <1>3, <1>4 DEF NoCursor
<1>6. Fresh(p, items)
  BY <1>1, <1>3, <1>4 DEF Fresh
<1> QED
  BY <1>1, <1>2, <1>4, <1>5, <1>6 DEF PickerOf

\* What a key does to a picker leaves it consistent.
LEMMA PickerProps ==
  ASSUME NEW S, NEW items \in Seq(S), NEW chars, NEW p \in PickerOf(items, chars)
  PROVE  /\ NewPicker(items) \in PickerOf(items, chars)
         /\ MoveUp(p) \in PickerOf(items, chars) /\ MoveDown(p) \in PickerOf(items, chars)
         /\ PopQuery(p, items) \in PickerOf(items, chars)
         /\ \A c \in chars : PushQuery(p, items, c) \in PickerOf(items, chars)
<1>1. /\ p \in [query : Seq(chars), filtered : Seq(Nat), cursor : Nat] /\ Fresh(p, items)
      /\ DOMAIN p.filtered = 1 .. Len(p.filtered) /\ Len(p.filtered) \in Nat
  BY DEF PickerOf
<1>2. NewPicker(items) \in PickerOf(items, chars)
  <2>1. <<>> \in Seq(chars)
    OBVIOUS
  <2> QED
    BY <2>1, QueryProps DEF NewPicker
<1>3. ASSUME NEW n \in Nat, p.filtered # <<>>, n \in DOMAIN p.filtered
      PROVE  [p EXCEPT !.cursor = n] \in PickerOf(items, chars)
  <2>1. [p EXCEPT !.cursor = n] \in [query : Seq(chars), filtered : Seq(Nat), cursor : Nat]
    BY <1>1
  <2> QED
    BY <1>1, <1>3, <2>1 DEF PickerOf, Fresh
<1>4. MoveUp(p) \in PickerOf(items, chars)
  <2>1. ASSUME p.cursor > 1 PROVE [p EXCEPT !.cursor = @ - 1] \in PickerOf(items, chars)
    <3>1. p.filtered # <<>> /\ p.cursor - 1 \in DOMAIN p.filtered /\ p.cursor - 1 \in Nat
      BY <1>1, <2>1 DEF Fresh, NoCursor
    <3> QED
      BY <1>3, <3>1
  <2> QED
    BY <2>1 DEF MoveUp
<1>5. MoveDown(p) \in PickerOf(items, chars)
  <2>1. ASSUME p.cursor # NoCursor, p.cursor < Len(p.filtered)
        PROVE  [p EXCEPT !.cursor = @ + 1] \in PickerOf(items, chars)
    <3>1. p.filtered # <<>> /\ p.cursor + 1 \in DOMAIN p.filtered /\ p.cursor + 1 \in Nat
      BY <1>1, <2>1 DEF Fresh
    <3> QED
      BY <1>3, <3>1
  <2> QED
    BY <2>1 DEF MoveDown
<1>6. PopQuery(p, items) \in PickerOf(items, chars)
  <2>1. ASSUME p.query # <<>> PROVE Front(p.query) \in Seq(chars)
    BY <1>1, <2>1 DEF Front
  <2> QED
    BY <2>1, QueryProps DEF PopQuery
<1>7. ASSUME NEW c \in chars PROVE PushQuery(p, items, c) \in PickerOf(items, chars)
  <2>1. Append(p.query, c) \in Seq(chars)
    BY <1>1
  <2> QED
    BY <2>1, QueryProps DEF PushQuery
<1> QED
  BY <1>2, <1>4, <1>5, <1>6, <1>7

-----------------------------------------------------------------------------
(* The invariants *)

Message == [id : Nat, pending : BOOLEAN]

\* Messages are numbered as they are submitted, no number is there twice, and
\* what has not been submitted was not returned.
Numbered ==
  /\ submitted \in 0 .. MaxMessages /\ messages \in Seq(Message)
  /\ returned \in [1 .. MaxMessages -> Nat]
  /\ \A i \in DOMAIN messages : messages[i].id \in 1 .. submitted
  /\ \A i, j \in DOMAIN messages : messages[i].id = messages[j].id => i = j
  /\ \A m \in 1 .. MaxMessages : m > submitted => returned[m] = 0

PickerSound == modelsPicker # NoPicker => modelsPicker \in PickerOf(Models, Keys)

AppInv == Numbered /\ PlanModeGates /\ PickerSound /\ CachesFresh

-----------------------------------------------------------------------------
(* The chat screen: messages *)

\* A message is submitted: the oldest may leave the history.
LEMMA SubmitProps ==
  ASSUME Numbered, PlanModeGates, InsertMessage
  PROVE  Numbered' /\ PlanModeGates'
<1> DEFINE n == submitted + 1
<1>1. /\ submitted \in Nat /\ n \in 1 .. MaxMessages /\ submitted' = n /\ n > submitted
      /\ MaxMessages \in Nat
  BY BufferAssumption DEF Numbered, InsertMessage, Submit
<1>2. PICK new : new = [id |-> n, pending |-> planMode = "Planning"]
  OBVIOUS
<1>3. PICK base : base = IF Len(messages) >= Capacity THEN Tail(messages) ELSE messages
  OBVIOUS
<1>4. messages' = Append(base, new) /\ new \in Message
  BY <1>1, <1>2, <1>3 DEF InsertMessage, Submit, PushHistory, Message
<1>5. /\ base \in Seq(Message)
      /\ \E d \in {0, 1} : \A i \in DOMAIN base :
           i + d \in DOMAIN messages /\ base[i] = messages[i + d]
  <2>1. messages \in Seq(Message)
    BY DEF Numbered
  <2>2. CASE Len(messages) >= Capacity
    <3>1. messages # <<>> /\ base = Tail(messages)
      BY <1>3, <2>1, <2>2, BufferAssumption
    <3>2. \A i \in DOMAIN base : i + 1 \in DOMAIN messages /\ base[i] = messages[i + 1]
      BY <2>1, <3>1
    <3> QED
      BY <2>1, <3>1, <3>2
  <2>3. CASE ~(Len(messages) >= Capacity)
    <3>1. base = messages
      BY <1>3, <2>3
    <3>2. \A i \in DOMAIN base : i + 0 \in DOMAIN messages /\ base[i] = messages[i + 0]
      BY <2>1, <3>1
    <3> QED
      BY <2>1, <3>1, <3>2
  <2> QED
    BY <2>2, <2>3
<1>6. PICK d \in {0, 1} : \A i \in DOMAIN base :
        i + d \in DOMAIN messages /\ base[i] = messages[i + d]
  BY <1>5
<1>7. /\ messages' \in Seq(Message) /\ DOMAIN messages' = 1 .. Len(base) + 1
      /\ Len(base) \in Nat /\ DOMAIN base = 1 .. Len(base)
      /\ messages'[Len(base) + 1] = new /\ \A i \in DOMAIN base : messages'[i] = base[i]
  BY <1>4, <1>5
<1>8. \A i \in DOMAIN base : base[i].id \in 1 .. submitted
  BY <1>6 DEF Numbered
<1>9. \A i, j \in DOMAIN base : base[i].id = base[j].id => i = j
  BY <1>6, <1>7 DEF Numbered
<1>10. new.id = n /\ (new.pending <=> planMode = "Planning")
  BY <1>2
<1>11. returned' = [returned EXCEPT ![n] = IF planMode = "Planning" THEN @ ELSE @ + 1]
  BY DEF InsertMessage, Numbered
<1>12. /\ returned' \in [1 .. MaxMessages -> Nat] /\ returned[n] = 0
       /\ returned'[n] = IF planMode = "Planning" THEN 0 ELSE 1
       /\ \A m \in 1 .. MaxMessages : m # n => returned'[m] = returned[m]
  BY <1>1, <1>11 DEF Numbered
<1> HIDE DEF n
<1>13. Numbered'
  <2>1. \A i \in DOMAIN messages' : messages'[i].id \in 1 .. submitted'
    BY <1>1, <1>7, <1>8, <1>10
  <2>2. \A i, j \in DOMAIN messages' : messages'[i].id = messages'[j].id => i = j
    <3>1. \A i \in DOMAIN base : messages'[i].id # n
      BY <1>1, <1>7, <1>8
    <3>2. \A i \in DOMAIN messages' : i \in DOMAIN base \/ i = Len(base) + 1
      BY <1>7
    <3> QED
      BY <1>7, <1>9, <1>10, <3>1, <3>2
  <2>3. \A m \in 1 .. MaxMessages : m > submitted' => returned'[m] = 0
    BY <1>1, <1>12 DEF Numbered
  <2> QED
    BY <1>1, <1>7, <1>12, <2>1, <2>2, <2>3 DEF Numbered
<1>14. PlanModeGates'
  <2>1. \A m \in DOMAIN returned' : returned'[m] <= 1
    BY <1>1, <1>12 DEF Numbered, PlanModeGates
  <2>2. ASSUME NEW i \in DOMAIN messages'
        PROVE  returned'[messages'[i].id] = IF messages'[i].pending THEN 0 ELSE 1
    <3>1. CASE i = Len(base) + 1
      BY <1>7, <1>10, <1>12, <3>1
    <3>2. CASE i \in DOMAIN base
      <4>1. returned[base[i].id] = IF base[i].pending THEN 0 ELSE 1
        BY <1>6, <3>2 DEF PlanModeGates
      <4>2. base[i].id \in 1 .. MaxMessages /\ base[i].id # n
        BY <1>1, <1>8, <3>2
      <4> QED
        BY <1>7, <1>12, <3>2, <4>1, <4>2
    <3> QED
      BY <1>7, <3>1, <3>2
  <2> QED
    BY <2>1, <2>2 DEF PlanModeGates
<1> QED
  BY <1>13, <1>14

\* What waited for approval is returned, once.
LEMMA ApproveProps ==
  ASSUME Numbered, PlanModeGates, ApprovePending
  PROVE  Numbered' /\ PlanModeGates'
<1> DEFINE queued == {i \in DOMAIN messages : messages[i].pending}
           due(m) == \E i \in queued : messages[i].id = m
<1>1. /\ messages' = [i \in DOMAIN messages |-> Approved(messages[i])]
      /\ returned' = [m \in DOMAIN returned |-> IF due(m) THEN returned[m] + 1 ELSE returned[m]]
      /\ submitted' = submitted
  BY DEF ApprovePending
<1>2. /\ messages \in Seq(Message) /\ returned \in [1 .. MaxMessages -> Nat]
      /\ DOMAIN messages = 1 .. Len(messages) /\ Len(messages) \in Nat
      /\ submitted \in 0 .. MaxMessages /\ MaxMessages \in Nat
  BY BufferAssumption DEF Numbered
<1>3. \A i \in DOMAIN messages : /\ Approved(messages[i]) \in Message
                                 /\ Approved(messages[i]).id = messages[i].id
                                 /\ Approved(messages[i]).pending = FALSE
  <2>1. \A i \in DOMAIN messages : messages[i] \in Message
    BY <1>2
  <2>2. \A x \in Message : /\ Approved(x) \in Message /\ Approved(x).id = x.id
                           /\ Approved(x).pending = FALSE
    BY DEF Approved, Message
  <2> QED
    BY <2>1, <2>2
<1>4. /\ messages' \in Seq(Message) /\ DOMAIN messages' = DOMAIN messages
      /\ \A i \in DOMAIN messages : messages'[i].id = messages[i].id
                                      /\ messages'[i].pending = FALSE
  BY <1>1, <1>2, <1>3
<1>5. \A i \in DOMAIN messages : messages[i].id \in 1 .. submitted
                                   /\ messages[i].id \in DOMAIN returned
  BY <1>2 DEF Numbered
<1>6. ASSUME NEW m \in 1 .. MaxMessages, due(m)
      PROVE  returned[m] = 0 /\ returned'[m] = 1 /\ m <= submitted
  <2>1. PICK i \in DOMAIN messages : messages[i].pending /\ messages[i].id = m
    BY <1>6
  <2>2. returned[m] = 0
    BY <2>1 DEF PlanModeGates
  <2> QED
    BY <1>1, <1>2, <1>5, <1>6, <2>1, <2>2
<1>7. ASSUME NEW m \in 1 .. MaxMessages, ~due(m) PROVE returned'[m] = returned[m]
  BY <1>1, <1>2, <1>7
<1> HIDE DEF due
<1>8. returned' \in [1 .. MaxMessages -> Nat]
  BY <1>1, <1>2
<1>9. Numbered'
  <2>1. \A m \in 1 .. MaxMessages : m > submitted' => returned'[m] = 0
    BY <1>1, <1>2, <1>6, <1>7 DEF Numbered
  <2> QED
    BY <1>1, <1>2, <1>4, <1>8, <2>1 DEF Numbered
<1>10. PlanModeGates'
  <2>1. \A m \in DOMAIN returned' : returned'[m] <= 1
    <3>1. \A m \in 1 .. MaxMessages : returned[m] <= 1 /\ returned[m] \in Nat
      BY <1>2 DEF PlanModeGates
    <3>2. DOMAIN returned' = 1 .. MaxMessages
      BY <1>8
    <3> QED
      BY <1>6, <1>7, <3>1, <3>2
  <2>2. ASSUME NEW i \in DOMAIN messages PROVE returned'[messages[i].id] = 1
    <3>1. CASE due(messages[i].id)
      BY <1>2, <1>5, <1>6, <3>1
    <3>2. CASE ~due(messages[i].id)
      <4>1. ~messages[i].pending
        BY <3>2 DEF due
      <4> QED
        BY <1>2, <1>5, <1>7, <3>2, <4>1 DEF PlanModeGates
    <3> QED
      BY <3>1, <3>2
  <2> QED
    BY <1>4, <2>1, <2>2 DEF PlanModeGates
<1> QED
  BY <1>9, <1>10

-----------------------------------------------------------------------------
(* The chat screen: steps *)

LEMMA AppStart == AppInit => AppInv
<1> SUFFICES ASSUME AppInit PROVE AppInv
  OBVIOUS
<1>1. messages = <<>> /\ messages \in Seq(Message) /\ Len(messages) = 0
  BY DEF AppInit
<1>2. Numbered /\ PlanModeGates
  BY <1>1, BufferAssumption DEF AppInit, Numbered, PlanModeGates
<1>3. PickerSound /\ CachesFresh
  BY <1>1 DEF AppInit, PickerSound, CachesFresh, NoCursor
<1> QED
  BY <1>2, <1>3 DEF AppInv

\* A picker in the models' mode is none that NoPicker could be taken for.
LEMMA OpenPicker ==
  ASSUME NEW p \in PickerOf(Models, Keys) PROVE p # NoPicker /\ Fresh(p, Models)
BY ModelsAssumption DEF PickerOf

\* Only submitting and approving touch the messages.
LEMMA MessagesStep ==
  ASSUME AppInv, [AppNext]_appVars PROVE Numbered' /\ PlanModeGates'
<1>1. CASE InsertMessage
  BY <1>1, SubmitProps DEF AppInv
<1>2. CASE ApprovePending
  BY <1>2, ApproveProps DEF AppInv
<1>3. CASE ~InsertMessage /\ ~ApprovePending
  <2>1. UNCHANGED <<messages, submitted, returned>>
    BY <1>3 DEF AppNext, appVars, buffer, tally, slashVars, Quit, BrowseHistory, HistoryPrev,
                HistoryNext, NormalInsert, NormalSlash, InsertEsc, InsertEdit, InsertCommand,
                SetDraft, SlashEsc, SlashEnter, SlashBackspace, SlashTab, SlashChar,
                PickerBrowse, PickerClose, TogglePlanMode
  <2> QED
    BY <2>1 DEF AppInv, Numbered, PlanModeGates
<1> QED
  BY <1>1, <1>2, <1>3

LEMMA PickerStep ==
  ASSUME AppInv, [AppNext]_appVars
  PROVE  PickerSound' /\ ((inputMode = "ModelsPicker") <=> (modelsPicker # NoPicker))'
<1> USE DEF PickerSound
<1>0. /\ (inputMode = "ModelsPicker") <=> (modelsPicker # NoPicker)
      /\ modelsPicker # NoPicker => modelsPicker \in PickerOf(Models, Keys)
  BY DEF AppInv, CachesFresh
<1>1. NewPicker(Models) \in PickerOf(Models, Keys)
  <2>1. <<>> \in Seq(Keys)
    OBVIOUS
  <2> QED
    BY <2>1, ModelsAssumption, QueryProps DEF NewPicker
<1>2. CASE InsertCommand
  BY <1>0, <1>1, <1>2, OpenPicker DEF InsertCommand
<1>3. CASE PickerBrowse
  <2>1. modelsPicker \in PickerOf(Models, Keys) /\ inputMode' = "ModelsPicker"
    BY <1>0, <1>3 DEF PickerBrowse
  <2>2. modelsPicker' \in PickerOf(Models, Keys)
    BY <1>1, <1>3, <2>1, PickerProps, ModelsAssumption DEF PickerBrowse
  <2> QED
    BY <2>1, <2>2, OpenPicker
<1>4. CASE PickerClose
  BY <1>4 DEF PickerClose
<1>5. CASE ~InsertCommand /\ ~PickerBrowse /\ ~PickerClose
  <2>1. modelsPicker' = modelsPicker
        /\ (inputMode' = "ModelsPicker" <=> inputMode = "ModelsPicker")
    BY <1>5 DEF AppNext, appVars, Quit, BrowseHistory, NormalInsert, NormalSlash, InsertEsc,
                InsertEdit, InsertMessage, SlashEsc, SlashEnter, SlashBackspace, SlashTab,
                SlashChar, TogglePlanMode, ApprovePending
  <2> QED
    BY <1>0, <2>1
<1> QED
  BY <1>2, <1>3, <1>4, <1>5

\* The command list is the filter's, and the history cursor is on an entry.
LEMMA CachesStep ==
  ASSUME AppInv, [AppNext]_appVars
  PROVE  /\ (inputMode = "SlashCommand" => slashMatches = MatchesOf(slashFilter))'
         /\ (historyCursor \in 0 .. Len(messages))'
<1>0. /\ inputMode = "SlashCommand" => slashMatches = MatchesOf(slashFilter)
      /\ historyCursor \in 0 .. Len(messages) /\ Len(messages) \in Nat
      /\ messages \in Seq(Message)
  BY DEF AppInv, CachesFresh, Numbered
<1>1. (inputMode = "SlashCommand" => slashMatches = MatchesOf(slashFilter))'
  <2>1. CASE NormalSlash \/ SlashBackspace \/ SlashTab \/ SlashChar
    BY <1>0, <2>1 DEF NormalSlash, SlashBackspace, SlashTab, SlashChar, MatchesOf
  <2>2. CASE ~(NormalSlash \/ SlashBackspace \/ SlashTab \/ SlashChar)
    <3>1. inputMode' = "SlashCommand" =>
            inputMode = "SlashCommand" /\ UNCHANGED <<slashFilter, slashMatches>>
      BY <2>2 DEF AppNext, appVars, slashVars, Quit, BrowseHistory, NormalInsert, InsertEsc,
                  InsertEdit, InsertCommand, InsertMessage, SlashEsc, SlashEnter,
                  PickerBrowse, PickerClose, TogglePlanMode, ApprovePending
    <3> QED
      BY <1>0, <3>1 DEF MatchesOf
  <2> QED
    BY <2>1, <2>2
<1>2. (historyCursor \in 0 .. Len(messages))'
  <2>1. CASE BrowseHistory
    BY <1>0, <2>1 DEF BrowseHistory, HistoryPrev, HistoryNext, NoCursor
  <2>2. CASE ApprovePending
    <3>1. messages' = [i \in DOMAIN messages |-> Approved(messages[i])]
          /\ historyCursor' = historyCursor
      BY <2>2 DEF ApprovePending
    <3>2. messages' \in Seq(Message) /\ Len(messages') = Len(messages)
      <4>1. \A x \in Message : Approved(x) \in Message
        BY DEF Approved, Message
      <4> QED
        BY <1>0, <3>1, <4>1
    <3> QED
      BY <1>0, <3>1, <3>2
  <2>3. CASE InsertMessage \/ InsertCommand \/ SlashTab \/ SlashChar
    <3>1. historyCursor' = 0
      BY <2>3 DEF InsertMessage, InsertCommand, SlashTab, SlashChar, SetDraft, Submit, NoCursor
    <3>2. messages' \in Seq(Message)
      BY MessagesStep DEF Numbered
    <3>3. Len(messages') \in Nat
      BY <3>2
    <3> QED
      BY <3>1, <3>3
  <2>4. CASE ~(BrowseHistory \/ ApprovePending \/ InsertMessage \/ InsertCommand
                 \/ SlashTab \/ SlashChar)
    <3>1. messages' = messages /\ historyCursor' \in {0, historyCursor}
      BY <2>4 DEF AppNext, appVars, buffer, Quit, NormalInsert, NormalSlash, InsertEsc,
                  InsertEdit, SlashEsc, SlashEnter, SetDraft, NoCursor, SlashBackspace,
                  PickerBrowse, PickerClose, TogglePlanMode
    <3> QED
      BY <1>0, <3>1
  <2> QED
    BY <2>1, <2>2, <2>3, <2>4
<1> QED
  BY <1>1, <1>2

LEMMA AppStep == AppInv /\ [AppNext]_appVars => AppInv'
<1> SUFFICES ASSUME AppInv, [AppNext]_appVars PROVE AppInv'
  OBVIOUS
<1>1. Numbered' /\ PlanModeGates'
  BY MessagesStep
<1>2. PickerSound' /\ ((inputMode = "ModelsPicker") <=> (modelsPicker # NoPicker))'
  BY PickerStep
<1>3. (modelsPicker # NoPicker => Fresh(modelsPicker, Models))'
  BY <1>2, OpenPicker DEF PickerSound
<1>4. CachesFresh'
  BY <1>2, <1>3, CachesStep DEF CachesFresh
<1> QED
  BY <1>1, <1>2, <1>4 DEF AppInv

-----------------------------------------------------------------------------
(* Text: where characters begin *)

LEMMA OffsetsProps ==
  ASSUME NEW s \in Seq(Chars)
  PROVE  /\ Offsets(s) \in [0 .. Len(s) -> Nat] /\ Offsets(s)[0] = 0
         /\ \A n \in 1 .. Len(s) : Offsets(s)[n] = Offsets(s)[n - 1] + Width[s[n]]
<1> DEFINE k == Len(s)
           next == [n \in 1 .. k |-> [x \in Nat |-> x + Width[s[n]]]]
           value(f, n) == IF n = 0 THEN 0 ELSE f[n - 1] + Width[s[n]]
           Fits(f) == f = [n \in 0 .. k |-> value(f, n)]
<1>1. k \in Nat /\ \A n \in 1 .. k : Width[s[n]] \in Nat
  BY WidthAssumption
<1>2. Offsets(s) = CHOOSE f : Fits(f)
  BY DEF Offsets
<1> HIDE DEF k
<1>3. next \in [1 .. k -> [Nat -> Nat]]
  BY <1>1
<1>4. PICK g \in [0 .. k -> Nat] : g[0] = 0 /\ \A n \in 1 .. k : g[n] = next[n][g[n - 1]]
  <2> HIDE DEF next
  <2>1. PICK g : Recursion(g, k, Nat, 0, next)
    BY <1>1, <1>3, RecursionExists
  <2> QED
    BY <2>1 DEF Recursion
<1>5. Fits(g)
  <2>1. ASSUME NEW n \in 0 .. k PROVE g[n] = value(g, n)
    <3>1. CASE n = 0
      BY <1>4, <3>1
    <3>2. CASE n # 0
      <4>1. n \in 1 .. k /\ n - 1 \in 0 .. k
        BY <1>1, <3>2
      <4>2. g[n - 1] \in Nat
        BY <4>1
      <4> QED
        BY <1>4, <3>2, <4>1, <4>2
    <3> QED
      BY <3>1, <3>2
  <2>2. g = [n \in 0 .. k |-> g[n]]
    OBVIOUS
  <2> HIDE DEF value
  <2> QED
    BY <2>1, <2>2
<1>6. PICK f : f = Offsets(s)
  OBVIOUS
<1>7. Fits(f)
  <2> HIDE DEF Fits
  <2> QED
    BY <1>2, <1>5, <1>6
<1>8. f[0] = 0 /\ \A n \in 1 .. k : f[n] = f[n - 1] + Width[s[n]]
  BY <1>1, <1>7
<1> DEFINE T == {n \in Nat : f[n] \in Nat}
<1>9. ASSUME NEW n \in 0 .. k, n < k, n \in T PROVE n + 1 \in T
  <2>1. n + 1 \in 1 .. k /\ (n + 1) - 1 = n /\ n + 1 \in Nat
    BY <1>1, <1>9
  <2>2. f[n + 1] = f[n] + Width[s[n + 1]]
    BY <1>8, <2>1
  <2> QED
    BY <1>1, <1>9, <2>1, <2>2
<1>10. 0 .. k \subseteq T
  <2>1. 0 \in T
    BY <1>8
  <2> HIDE DEF T
  <2> QED
    BY <1>1, <1>9, <2>1, Climb
<1>11. f \in [0 .. k -> Nat]
  BY <1>7, <1>10
<1> QED
  BY <1>6, <1>8, <1>11 DEF k

\* The characters before a place decide where it is.
LEMMA OffsetsPrefix ==
  ASSUME NEW s \in Seq(Chars), NEW t \in Seq(Chars), NEW k \in Nat,
         k <= Len(s), k <= Len(t), \A i \in 1 .. k : s[i] = t[i]
  PROVE  Offsets(s)[k] = Offsets(t)[k]
<1> DEFINE T == {n \in Nat : Offsets(s)[n] = Offsets(t)[n]}
<1>1. 0 \in T
  BY OffsetsProps
<1>2. ASSUME NEW n \in 0 .. k, n < k, n \in T PROVE n + 1 \in T
  <2>1. n + 1 \in 1 .. Len(s) /\ n + 1 \in 1 .. Len(t) /\ s[n + 1] = t[n + 1]
        /\ (n + 1) - 1 = n
    BY <1>2
  <2>2. /\ Offsets(s)[n + 1] = Offsets(s)[n] + Width[s[n + 1]]
        /\ Offsets(t)[n + 1] = Offsets(t)[n] + Width[t[n + 1]]
    BY <2>1, OffsetsProps
  <2> QED
    BY <1>2, <2>1, <2>2
<1>3. 0 .. k \subseteq T
  <2> HIDE DEF T
  <2> QED
    BY <1>1, <1>2, Climb
<1>4. k \in 0 .. k
  OBVIOUS
<1> QED
  BY <1>3, <1>4

OnBoundary(t) == \E k \in 0 .. Len(t.value) : Offsets(t.value)[k] = t.cursor

Inputs == {t \in [value : Seq(Chars), cursor : Nat] : OnBoundary(t)}

LEMMA InputProps ==
  ASSUME NEW v \in Seq(Chars), NEW k \in 0 .. Len(v), NEW n, n = Offsets(v)[k]
  PROVE  [value |-> v, cursor |-> n] \in Inputs
<1>1. n \in Nat
  BY OffsetsProps
<1> QED
  BY <1>1 DEF Inputs, OnBoundary

\* The slices of the value around the cursor, and the offsets next to it.
LEMMA SliceProps ==
  ASSUME NEW t \in Inputs
  PROVE  \E k \in 0 .. Len(t.value) :
           /\ Before(t) = SubSeq(t.value, 1, k)
           /\ After(t) = SubSeq(t.value, k + 1, Len(t.value))
           /\ t.cursor = Offsets(t.value)[k] /\ (t.cursor # 0 => k # 0)
           /\ t.value \in Seq(Chars) /\ Len(t.value) \in Nat
           /\ t = [value |-> t.value, cursor |-> t.cursor]
<1> DEFINE k == CHOOSE k \in 0 .. Len(t.value) : Offsets(t.value)[k] = t.cursor
<1>1. t.value \in Seq(Chars) /\ OnBoundary(t) /\ Len(t.value) \in Nat
      /\ t = [value |-> t.value, cursor |-> t.cursor]
  BY DEF Inputs
<1>2. k \in 0 .. Len(t.value) /\ Offsets(t.value)[k] = t.cursor
  BY <1>1 DEF OnBoundary
<1>3. Before(t) = SubSeq(t.value, 1, k)
  BY DEF Before
<1> HIDE DEF k
<1>4. Len(Before(t)) = k
  BY <1>1, <1>2, <1>3
<1>5. After(t) = SubSeq(t.value, k + 1, Len(t.value))
  BY <1>4 DEF After
<1>6. t.cursor # 0 => k # 0
  BY <1>1, <1>2, OffsetsProps
<1> QED
  BY <1>1, <1>2, <1>3, <1>5, <1>6

LEMMA Joined ==
  ASSUME NEW S, NEW a \in Seq(S), NEW b \in Seq(S)
  PROVE  /\ a \o b \in Seq(S) /\ Len(a \o b) = Len(a) + Len(b)
         /\ \A i \in 1 .. Len(a) : (a \o b)[i] = a[i]
         /\ \A i \in 1 .. Len(b) : (a \o b)[Len(a) + i] = b[i]
OBVIOUS

LEMMA EditProps ==
  ASSUME NEW t \in Inputs
  PROVE  /\ NewInput \in Inputs /\ Backspace(t) \in Inputs
         /\ MoveLeft(t) \in Inputs /\ MoveRight(t) \in Inputs
         /\ \A c \in Chars : Insert(t, c) \in Inputs
<1>1. PICK v, n, k : v = t.value /\ n = t.cursor /\ k \in 0 .. Len(v)
        /\ Before(t) = SubSeq(v, 1, k) /\ After(t) = SubSeq(v, k + 1, Len(v))
        /\ n = Offsets(v)[k] /\ (n # 0 => k # 0)
        /\ v \in Seq(Chars) /\ Len(v) \in Nat /\ t = [value |-> v, cursor |-> n]
  BY SliceProps
<1>2. /\ k \in Nat /\ Before(t) \in Seq(Chars) /\ After(t) \in Seq(Chars)
      /\ Len(Before(t)) = k /\ Len(After(t)) = Len(v) - k
      /\ \A i \in 1 .. k : Before(t)[i] = v[i]
      /\ k < Len(v) => After(t)[1] = v[k + 1]
  BY <1>1
<1>3. /\ \A i \in 0 .. Len(v) : Offsets(v)[i] \in Nat
      /\ \A i \in 1 .. Len(v) : Offsets(v)[i] = Offsets(v)[i - 1] + Width[v[i]]
      /\ \A i \in 1 .. Len(v) : Width[v[i]] \in Nat
  <2>1. \A i \in 1 .. Len(v) : Width[v[i]] \in Nat
    BY <1>1, WidthAssumption
  <2>2. Offsets(v) \in [0 .. Len(v) -> Nat]
    BY <1>1, OffsetsProps
  <2>3. \A i \in 1 .. Len(v) : Offsets(v)[i] = Offsets(v)[i - 1] + Width[v[i]]
    BY <1>1, OffsetsProps
  <2> QED
    BY <2>1, <2>2, <2>3
<1>4. NewInput \in Inputs
  <2>1. PICK e : e = <<>>
    OBVIOUS
  <2>2. e \in Seq(Chars) /\ 0 \in 0 .. Len(e)
    BY <2>1
  <2>3. Offsets(e)[0] = 0
    BY <2>2, OffsetsProps
  <2>4. [value |-> e, cursor |-> 0] \in Inputs
    BY <2>2, <2>3, InputProps
  <2> QED
    BY <2>1, <2>4 DEF NewInput
<1>5. ASSUME n # 0
      PROVE  /\ k \in 1 .. Len(v) /\ k - 1 \in 0 .. Len(v) /\ k - 1 \in Nat
             /\ Last(Before(t)) = v[k] /\ n - Width[v[k]] = Offsets(v)[k - 1]
  <2>1. k \in 1 .. Len(v) /\ k - 1 \in 0 .. Len(v) /\ k - 1 \in Nat
    BY <1>1, <1>5
  <2>2. Last(Before(t)) = v[k]
    BY <1>2, <2>1 DEF Last
  <2>3. PICK x, y, z : x = Offsets(v)[k] /\ y = Offsets(v)[k - 1] /\ z = Width[v[k]]
    OBVIOUS
  <2>4. y \in Nat /\ z \in Nat /\ x = y + z
    BY <1>3, <2>1, <2>3
  <2>5. x - z = y
    BY <2>4
  <2> QED
    BY <1>1, <2>1, <2>2, <2>3, <2>5
<1>6. MoveLeft(t) \in Inputs
  <2>1. CASE n = 0
    BY <1>1, <2>1 DEF MoveLeft
  <2>2. CASE n # 0
    <3>1. MoveLeft(t) = [value |-> v, cursor |-> n - Width[v[k]]]
      BY <1>1, <1>5, <2>2 DEF MoveLeft
    <3> QED
      BY <1>1, <1>5, <2>2, <3>1, InputProps
  <2> QED
    BY <2>1, <2>2
<1>7. Backspace(t) \in Inputs
  <2>1. CASE n = 0
    BY <1>1, <2>1 DEF Backspace
  <2>2. CASE n # 0
    <3>1. PICK w : w = Front(Before(t)) \o After(t)
      OBVIOUS
    <3>2. /\ Front(Before(t)) \in Seq(Chars) /\ Len(Front(Before(t))) = k - 1
          /\ \A i \in 1 .. k - 1 : Front(Before(t))[i] = v[i]
      BY <1>2, <1>5, <2>2 DEF Front
    <3>3. w \in Seq(Chars) /\ Len(w) = Len(v) - 1 /\ \A i \in 1 .. k - 1 : w[i] = v[i]
      <4>1. PICK a, b : a = Front(Before(t)) /\ b = After(t)
        OBVIOUS
      <4>2. /\ a \in Seq(Chars) /\ b \in Seq(Chars) /\ Len(a) = k - 1
            /\ Len(b) = Len(v) - k /\ w = a \o b /\ \A i \in 1 .. k - 1 : a[i] = v[i]
        BY <1>2, <3>1, <3>2, <4>1
      <4>3. w \in Seq(Chars) /\ Len(w) = Len(a) + Len(b)
            /\ \A i \in 1 .. Len(a) : w[i] = a[i]
        BY <4>2, Joined
      <4> QED
        BY <1>1, <1>2, <4>2, <4>3
    <3>4. k - 1 \in 0 .. Len(w) /\ Offsets(w)[k - 1] = Offsets(v)[k - 1]
      <4>1. /\ k - 1 \in Nat /\ k - 1 <= Len(w) /\ k - 1 <= Len(v) /\ k - 1 \in 0 .. Len(w)
        BY <1>1, <1>5, <2>2, <3>3
      <4> QED
        BY <1>1, <3>3, <4>1, OffsetsPrefix
    <3>5. Backspace(t) = [value |-> w, cursor |-> n - Width[v[k]]]
      BY <1>1, <1>5, <2>2, <3>1 DEF Backspace
    <3> QED
      BY <1>5, <2>2, <3>3, <3>4, <3>5, InputProps
  <2> QED
    BY <2>1, <2>2
<1>8. MoveRight(t) \in Inputs
  <2>1. CASE Len(After(t)) > 1
    <3>1. k + 1 \in 1 .. Len(v) /\ (k + 1) - 1 = k /\ Head(After(t)) = v[k + 1]
          /\ k + 1 \in 0 .. Len(v)
      BY <1>1, <1>2, <2>1
    <3>2. n + Width[v[k + 1]] = Offsets(v)[k + 1]
      BY <1>1, <1>3, <3>1
    <3>3. MoveRight(t) = [value |-> v, cursor |-> n + Width[v[k + 1]]]
      BY <1>1, <2>1, <3>1 DEF MoveRight
    <3> QED
      BY <1>1, <3>1, <3>2, <3>3, InputProps
  <2>2. CASE ~(Len(After(t)) > 1)
    <3>1. MoveRight(t) = [value |-> v, cursor |-> Offsets(v)[Len(v)]]
      BY <1>1, <2>2 DEF MoveRight, Bytes
    <3>2. Len(v) \in 0 .. Len(v)
      BY <1>1
    <3> QED
      BY <1>1, <3>1, <3>2, InputProps
  <2> QED
    BY <2>1, <2>2
<1>9. ASSUME NEW c \in Chars PROVE Insert(t, c) \in Inputs
  <2>1. PICK w : w = Before(t) \o <<c>> \o After(t)
    OBVIOUS
  <2>2. <<c>> \in Seq(Chars) /\ Len(<<c>>) = 1 /\ <<c>>[1] = c
    OBVIOUS
  <2>3. w \in Seq(Chars) /\ Len(w) = Len(v) + 1 /\ w[k + 1] = c
        /\ \A i \in 1 .. k : w[i] = v[i]
    <3>1. PICK d : d = Before(t) \o <<c>>
      OBVIOUS
    <3>2. d \in Seq(Chars) /\ Len(d) = k + 1 /\ d[k + 1] = c /\ \A i \in 1 .. k : d[i] = v[i]
      <4>1. PICK a, b : a = Before(t) /\ b = <<c>>
        OBVIOUS
      <4>2. /\ a \in Seq(Chars) /\ b \in Seq(Chars) /\ Len(a) = k /\ Len(b) = 1 /\ b[1] = c
            /\ d = a \o b /\ \A i \in 1 .. k : a[i] = v[i]
        BY <1>2, <2>2, <3>1, <4>1
      <4>3. d \in Seq(Chars) /\ Len(d) = k + 1 /\ d[k + 1] = b[1]
            /\ \A i \in 1 .. k : d[i] = a[i]
        BY <4>2, Joined
      <4> QED
        BY <4>2, <4>3
    <3>3. PICK b : b = After(t)
      OBVIOUS
    <3>4. b \in Seq(Chars) /\ Len(b) = Len(v) - k /\ w = d \o b
      BY <1>2, <2>1, <3>1, <3>3
    <3>5. w \in Seq(Chars) /\ Len(w) = Len(d) + Len(b)
          /\ \A i \in 1 .. Len(d) : w[i] = d[i]
      BY <3>2, <3>4, Joined
    <3>6. Len(w) = Len(v) + 1
      <4>1. PICK i, j, l, m : i = Len(d) /\ j = Len(b) /\ l = Len(v) /\ m = Len(w)
        OBVIOUS
      <4>2. l \in Nat /\ k \in Nat /\ i = k + 1 /\ j = l - k /\ m = i + j
        BY <1>1, <1>2, <3>2, <3>4, <3>5, <4>1
      <4>3. m = l + 1
        BY <4>2
      <4> QED
        BY <4>1, <4>3
    <3>7. w[k + 1] = d[k + 1] /\ \A i \in 1 .. k : w[i] = d[i]
      <4>1. k + 1 \in 1 .. Len(d) /\ \A i \in 1 .. k : i \in 1 .. Len(d)
        BY <1>1, <3>2
      <4> QED
        BY <3>5, <4>1
    <3> QED
      BY <3>2, <3>5, <3>6, <3>7
  <2>4. /\ k + 1 \in 1 .. Len(w) /\ (k + 1) - 1 = k /\ k + 1 \in 0 .. Len(w)
        /\ k <= Len(w) /\ k <= Len(v)
    BY <1>1, <1>2, <2>3
  <2>5. Offsets(w)[k] = Offsets(v)[k]
    BY <1>1, <1>2, <2>3, <2>4, OffsetsPrefix
  <2>6. Offsets(w)[k + 1] = Offsets(w)[k] + Width[w[k + 1]]
    BY <2>3, <2>4, OffsetsProps
  <2>7. Offsets(w)[k + 1] = n + Width[c]
    BY <1>1, <2>3, <2>5, <2>6
  <2>8. Insert(t, c) = [value |-> w, cursor |-> n + Width[c]]
    BY <1>1, <2>1 DEF Insert
  <2> QED
    BY <2>3, <2>4, <2>7, <2>8, InputProps
<1> QED
  BY <1>4, <1>6, <1>7, <1>8, <1>9

-----------------------------------------------------------------------------
(* The wizard *)

\* What was chosen and typed in the steps already passed stays as it was when
\* they were left.
Chosen ==
  step \in {"CustomProvider", "Label", "Secret", "Done"} =>
    /\ HasSelection(picker) /\ confirmed = Selected(picker)
    /\ choseCustom = Items[confirmed].custom

WizardTyped ==
  /\ step \in {"Label", "Secret", "Done"} /\ choseCustom =>
       ~IsBlankText(field["CustomProvider"].value)
  /\ step \in {"Secret", "Done"} => ~IsBlankText(field["Label"].value)
  /\ step = "Done" => field["Secret"].value # <<>>

WizardInv ==
  /\ picker \in PickerOf(Items, Chars) /\ field \in [EditSteps -> Inputs]
  /\ Chosen /\ WizardTyped

LEMMA ItemsProps ==
  /\ Items \in Seq(ToSet(Items)) /\ Len(Items) \in Nat
  /\ \A i \in 1 .. Len(Items) : Items[i] \in ToSet(Items)
<1>1. Providers \in Seq(ToSet(Providers))
  BY ItemsAssumption
<1>2. Items \in Seq(ToSet(Providers) \cup {CustomItem})
  BY <1>1 DEF Items
<1>3. PICK s : s = Items
  OBVIOUS
<1>4. s \in Seq(ToSet(s))
  BY <1>2, <1>3 DEF ToSet
<1>5. \A i \in 1 .. Len(s) : s[i] \in ToSet(s)
  BY <1>4 DEF ToSet
<1> QED
  BY <1>3, <1>4, <1>5

LEMMA WizardStart == WizardInit => WizardInv
<1> SUFFICES ASSUME WizardInit PROVE WizardInv
  OBVIOUS
<1>1. NewPicker(Items) \in PickerOf(Items, Chars)
  <2>1. <<>> \in Seq(Chars)
    OBVIOUS
  <2> QED
    BY <2>1, ItemsProps, QueryProps DEF NewPicker
<1>2. NewInput \in Inputs
  <2>1. PICK e : e = <<>>
    OBVIOUS
  <2>2. e \in Seq(Chars) /\ 0 \in 0 .. Len(e)
    BY <2>1
  <2>3. [value |-> e, cursor |-> 0] \in Inputs
    BY <2>2, OffsetsProps, InputProps
  <2> QED
    BY <2>1, <2>3 DEF NewInput
<1> QED
  BY <1>1, <1>2 DEF WizardInit, WizardInv, Chosen, WizardTyped

LEMMA WizardStep == WizardInv /\ [WizardNext]_wizardVars => WizardInv'
<1> SUFFICES ASSUME WizardInv, [WizardNext]_wizardVars PROVE WizardInv'
  OBVIOUS
<1>0. /\ picker \in PickerOf(Items, Chars) /\ field \in [EditSteps -> Inputs]
      /\ Chosen /\ WizardTyped
  BY DEF WizardInv
<1>1. CASE CtrlC \/ ProviderEsc
  BY <1>0, <1>1 DEF CtrlC, ProviderEsc, WizardInv, Chosen, WizardTyped
<1>2. CASE ProviderEnter
  <2>1. /\ step = "Provider" /\ HasSelection(picker) /\ confirmed' = Selected(picker)
        /\ choseCustom' = Items[Selected(picker)].custom /\ UNCHANGED <<picker, field>>
        /\ step' = IF choseCustom' THEN "CustomProvider" ELSE "Label"
    BY <1>2 DEF ProviderEnter, RoutedCustom
  <2>2. HasSelection(picker') /\ confirmed' = Selected(picker')
        /\ choseCustom' = Items[confirmed'].custom
    BY <2>1
  <2>3. (step' = "Label" /\ ~choseCustom') \/ step' = "CustomProvider"
    BY <2>1
  <2>4. Chosen'
    BY <2>2 DEF Chosen
  <2>5. WizardTyped'
    BY <2>3 DEF WizardTyped
  <2> QED
    BY <1>0, <2>1, <2>4, <2>5 DEF WizardInv
<1>3. CASE ProviderBrowse
  <2>1. picker' \in PickerOf(Items, Chars)
    <3>1. WithQuery(Items, <<>>) \in PickerOf(Items, Chars)
      BY <1>0, ItemsProps, PickerProps DEF NewPicker
    <3> QED
      BY <1>0, <1>3, <3>1, ItemsProps, PickerProps DEF ProviderBrowse
  <2> QED
    BY <1>0, <1>3, <2>1 DEF ProviderBrowse, WizardInv, Chosen, WizardTyped
<1>4. CASE FieldEsc
  <2>1. /\ step' \in {"Provider", "CustomProvider", "Label"} /\ step \in EditSteps
        /\ step' = "Label" => step = "Secret"
        /\ UNCHANGED <<picker, field, choseCustom, confirmed>>
    BY <1>4 DEF FieldEsc, Previous, EditSteps
  <2> QED
    BY <1>0, <2>1 DEF WizardInv, Chosen, WizardTyped, EditSteps
<1>5. CASE FieldEnter
  <2>1. UNCHANGED <<picker, field, choseCustom, confirmed>> /\ step \in EditSteps
    BY <1>5 DEF FieldEnter
  <2>2. CASE step = "CustomProvider"
    <3>1. step' = "Label" /\ ~IsBlankText(field["CustomProvider"].value)
      BY <1>5, <2>2 DEF FieldEnter, Following
    <3> QED
      BY <1>0, <2>1, <2>2, <3>1 DEF WizardInv, Chosen, WizardTyped
  <2>3. CASE step = "Label"
    <3>1. step' = "Secret" /\ ~IsBlankText(field["Label"].value)
      BY <1>5, <2>3 DEF FieldEnter, Following
    <3> QED
      BY <1>0, <2>1, <2>3, <3>1 DEF WizardInv, Chosen, WizardTyped
  <2>4. CASE step = "Secret"
    <3>1. step' = "Done" /\ field["Secret"].value # <<>>
      BY <1>5, <2>4 DEF FieldEnter, Following
    <3> QED
      BY <1>0, <2>1, <2>4, <3>1 DEF WizardInv, Chosen, WizardTyped
  <2> QED
    BY <2>1, <2>2, <2>3, <2>4 DEF EditSteps
<1>6. CASE FieldEdit
  <2>1. step \in EditSteps /\ UNCHANGED <<step, picker, choseCustom, confirmed>>
    BY <1>6 DEF FieldEdit
  <2>2. PICK t : t = field[step]
    OBVIOUS
  <2>3. t \in Inputs
    BY <1>0, <2>1, <2>2
  <2>4. \E u \in Inputs : field' = [field EXCEPT ![step] = u]
    <3>1. /\ NewInput \in Inputs /\ Backspace(t) \in Inputs
          /\ MoveLeft(t) \in Inputs /\ MoveRight(t) \in Inputs
          /\ \A c \in Chars : Insert(t, c) \in Inputs
      BY <2>3, EditProps
    <3>2. \/ field' = [field EXCEPT ![step] = Backspace(t)]
          \/ field' = [field EXCEPT ![step] = MoveLeft(t)]
          \/ field' = [field EXCEPT ![step] = MoveRight(t)]
          \/ field' = [field EXCEPT ![step] = NewInput]
          \/ \E c \in Chars : field' = [field EXCEPT ![step] = Insert(t, c)]
      BY <1>6, <2>2 DEF FieldEdit
    <3> QED
      BY <3>1, <3>2
  <2>5. /\ field' \in [EditSteps -> Inputs]
        /\ \A s \in EditSteps : s # step => field'[s] = field[s]
    BY <1>0, <2>4
  <2>6. Chosen'
    BY <1>0, <2>1 DEF Chosen
  <2>7. WizardTyped'
    BY <1>0, <2>1, <2>5 DEF WizardTyped, EditSteps
  <2> QED
    BY <1>0, <2>1, <2>5, <2>6, <2>7 DEF WizardInv
<1>7. CASE UNCHANGED wizardVars
  BY <1>0, <1>7 DEF wizardVars, WizardInv, Chosen, WizardTyped
<1> QED
  BY <1>1, <1>2, <1>3, <1>4, <1>5, <1>6, <1>7 DEF WizardNext

\* Something is left of a text that is not blank.
LEMMA TrimProps ==
  ASSUME NEW S, NEW s \in Seq(S), ~IsBlankText(s)
  PROVE  Trim(s) \in Seq(S) /\ Trim(s) # <<>>
<1> DEFINE last == SelectLastInSeq(s, LAMBDA c : c # Blank)
           u == SubSeq(s, 1, last)
           first == SelectInSeq(u, LAMBDA c : c # Blank)
<1>1. last \in 1 .. Len(s) /\ s[last] # Blank
  <2> DEFINE I == {i \in 1 .. Len(s) : s[i] # Blank}
  <2>1. I # {} /\ I \subseteq 1 .. Len(s) /\ Len(s) \in Nat
    BY DEF IsBlankText
  <2>2. last = IF I # {} THEN Max(I) ELSE 0
    BY DEF SelectLastInSeq
  <2>3. Max(I) \in I
    <3> HIDE DEF I
    <3> QED
      BY <2>1, GreatestNumber
  <2>4. last \in I
    BY <2>1, <2>2, <2>3
  <2> QED
    BY <2>4
<1> HIDE DEF last
<1>2. u \in Seq(S) /\ Len(u) = last /\ u[last] = s[last] /\ last \in Nat
  BY <1>1
<1> HIDE DEF u
<1>3. first \in 1 .. Len(u)
  <2> DEFINE J == {i \in 1 .. Len(u) : u[i] # Blank}
  <2>1. J # {} /\ J \subseteq Nat
    BY <1>1, <1>2
  <2>2. first = IF J # {} THEN Min(J) ELSE 0
    BY DEF SelectInSeq
  <2>3. Min(J) \in J
    <3> HIDE DEF J
    <3> QED
      BY <2>1, LeastIsMin
  <2>4. first \in J
    BY <2>1, <2>2, <2>3
  <2> QED
    BY <2>4
<1> HIDE DEF first
<1>4. ~IsBlankText(u)
  BY <1>1, <1>2 DEF IsBlankText
<1>5. Trim(s) = SubSeq(u, first, Len(u))
  BY <1>4 DEF Trim, TrimStart, u, last, first
<1>6. PICK r : r = SubSeq(u, first, Len(u))
  OBVIOUS
<1>7. r \in Seq(S) /\ Len(r) = Len(u) - first + 1
  BY <1>2, <1>3, <1>6
<1>8. r # <<>>
  BY <1>2, <1>3, <1>7
<1> QED
  BY <1>5, <1>6, <1>7, <1>8

LEMMA WizardResult == WizardInv => ResultIsConfirmed
<1> SUFFICES ASSUME WizardInv, step = "Done"
             PROVE  /\ Result # NoResult
                    /\ IF Items[confirmed].custom
                       THEN /\ Head(Result.provider) = CustomPrefix
                            /\ ~IsBlankText(field["CustomProvider"].value)
                       ELSE Result.provider = Items[confirmed].id
                    /\ Result.label # <<>> /\ Result.secret # <<>>
  BY DEF ResultIsConfirmed
<1> DEFINE ids == {item.id : item \in ToSet(Items)}
           names == Seq(Chars \cup {CustomPrefix})
           id == ProviderId
           label == Trim(field["Label"].value)
           secret == field["Secret"].value
<1>1. /\ HasSelection(picker) /\ confirmed = Selected(picker)
      /\ choseCustom = Items[confirmed].custom
      /\ choseCustom => ~IsBlankText(field["CustomProvider"].value)
      /\ ~IsBlankText(field["Label"].value) /\ secret # <<>>
  BY DEF WizardInv, Chosen, WizardTyped
<1>2. \A s \in EditSteps : field[s].value \in Seq(Chars)
  BY DEF WizardInv, Inputs
<1>3. label \in Seq(Chars) /\ label # <<>> /\ secret \in Seq(Chars)
  BY <1>1, <1>2, TrimProps DEF EditSteps
<1>4. \A t \in Seq(Chars) : t \in names
  OBVIOUS
<1>5. Items[confirmed].id \in ids
  <2>1. picker.filtered \in Seq(1 .. Len(Items))
    BY ItemsProps, MatchingProps DEF WizardInv, PickerOf, Fresh
  <2>2. confirmed \in 1 .. Len(Items)
    BY <1>1, <2>1 DEF HasSelection, Selected
  <2> QED
    BY <2>2, ItemsProps
<1>6. NoResult \notin ids /\ NoResult \notin names
      /\ NoResult \notin [provider : ids, label : names, secret : names]
      /\ NoResult \notin [provider : names, label : names, secret : names]
  BY ItemsAssumption
<1>7. CASE choseCustom
  <2>1. PICK raw1 : raw1 = Trim(field["CustomProvider"].value)
    OBVIOUS
  <2>2. raw1 \in Seq(Chars) /\ raw1 # <<>>
    BY <1>1, <1>2, <1>7, <2>1, TrimProps DEF EditSteps
  <2>3. id = IF Head(raw1) = CustomPrefix THEN raw1 ELSE <<CustomPrefix>> \o raw1
    BY <1>7, <2>1, <2>2 DEF ProviderId
  <2>4. id \in names /\ Head(id) = CustomPrefix
    <3>1. CASE Head(raw1) = CustomPrefix
      BY <1>4, <2>2, <2>3, <3>1
    <3>2. CASE Head(raw1) # CustomPrefix
      <4>1. PICK p : p = <<CustomPrefix>>
        OBVIOUS
      <4>2. /\ p \in names /\ Len(p) = 1 /\ p[1] = CustomPrefix /\ raw1 \in names
            /\ id = p \o raw1
        BY <1>4, <2>2, <2>3, <3>2, <4>1
      <4>3. id \in names /\ Len(id) = Len(p) + Len(raw1) /\ \A i \in 1 .. Len(p) : id[i] = p[i]
        BY <4>2, Joined
      <4>4. id[1] = CustomPrefix /\ Len(id) > 0
        BY <2>2, <4>2, <4>3
      <4> QED
        BY <4>3, <4>4
    <3> QED
      BY <3>1, <3>2
  <2> HIDE DEF id, label, secret, ids, names
  <2>5. PICK r : r = [provider |-> id, label |-> label, secret |-> secret]
    OBVIOUS
  <2>6. r \in [provider : names, label : names, secret : names]
    BY <1>3, <1>4, <2>4, <2>5
  <2>7. Result = r
    BY <1>6, <2>4, <2>5 DEF Result, id, label, secret
  <2>8. r.provider = id /\ r.label = label /\ r.secret = secret /\ r # NoResult
    BY <1>6, <2>5, <2>6
  <2> QED
    BY <1>1, <1>3, <1>7, <2>4, <2>7, <2>8
<1>8. CASE ~choseCustom
  <2>1. id = Items[confirmed].id
    BY <1>1, <1>8 DEF ProviderId
  <2> HIDE DEF id, label, secret, ids, names
  <2>2. PICK r : r = [provider |-> id, label |-> label, secret |-> secret]
    OBVIOUS
  <2>3. r \in [provider : ids, label : names, secret : names]
    BY <1>3, <1>4, <1>5, <2>1, <2>2
  <2>4. Result = r
    BY <1>5, <1>6, <2>1, <2>2 DEF Result, id, label, secret
  <2>5. r.provider = id /\ r.label = label /\ r.secret = secret /\ r # NoResult
    BY <1>6, <2>2, <2>3
  <2> QED
    BY <1>1, <1>3, <1>8, <2>1, <2>4, <2>5
<1> QED
  BY <1>7, <1>8

-----------------------------------------------------------------------------
(* The two programs on one terminal *)

\* A step of the composition is a step of one program, or of none.
LEMMA ProgramSteps ==
  [TuiNext]_tuiVars => [AppNext]_appVars /\ [WizardNext]_wizardVars
<1> SUFFICES ASSUME [TuiNext]_tuiVars
             PROVE  [AppNext]_appVars /\ [WizardNext]_wizardVars
  OBVIOUS
<1>1. CASE HandleKey
  BY <1>1 DEF HandleKey
<1>2. CASE ~HandleKey
  <2>1. UNCHANGED appVars /\ UNCHANGED wizardVars
    BY <1>2 DEF TuiNext, tuiVars, Enable, Return, LoopError, screens
  <2> QED
    BY <2>1
<1> QED
  BY <1>1, <1>2

\* A closed program makes no step, and only Restore and a failed Enable close one.
LEMMA TerminalStep ==
  TerminalRestored /\ [TuiNext]_tuiVars => TerminalRestored'
<1> SUFFICES ASSUME TerminalRestored, [TuiNext]_tuiVars PROVE TerminalRestored'
  OBVIOUS
<1> USE DEF TerminalRestored
<1>1. CASE Enable
  BY <1>1 DEF Enable
<1>2. CASE HandleKey
  BY <1>2 DEF HandleKey, terminal
<1>3. CASE Return \/ LoopError
  BY <1>3 DEF Return, LoopError, Restore
<1>4. CASE UNCHANGED tuiVars
  BY <1>4 DEF tuiVars, terminal
<1> QED
  BY <1>1, <1>2, <1>3, <1>4 DEF TuiNext

LEMMA CursorsOfFields == WizardInv => CursorOnBoundary
BY DEF WizardInv, CursorOnBoundary, Inputs, OnBoundary

LEMMA AppAlways == TuiSpec => []AppInv
<1>1. TuiInit => AppInv
  BY AppStart DEF TuiInit
<1>2. AppInv /\ [TuiNext]_tuiVars => AppInv'
  BY AppStep, ProgramSteps
<1> QED
  BY <1>1, <1>2, PTL DEF TuiSpec

LEMMA WizardAlways == TuiSpec => []WizardInv
<1>1. TuiInit => WizardInv
  BY WizardStart DEF TuiInit
<1>2. WizardInv /\ [TuiNext]_tuiVars => WizardInv'
  BY WizardStep, ProgramSteps
<1> QED
  BY <1>1, <1>2, PTL DEF TuiSpec

\* The suggestions, the rows of the models picker and the history's cursor are
\* those of the text, the query and the messages they are cached from, after
\* every key: the slash command, picker and history handlers of TuiApp.
THEOREM ScreenCachesAreFresh == TuiSpec => []CachesFresh
<1>1. AppInv => CachesFresh
  BY DEF AppInv
<1> QED
  BY <1>1, AppAlways, PTL

\* In plan mode a message is queued and the App returns it for execution only
\* by an approval, and no message twice, also when the bounded history drops
\* it, whatever keys and host calls come between: submit_draft, submit,
\* approve_pending and push_history.  (App::run makes none of these calls
\* itself and drops what a key returns.)
THEOREM PlanModeGatesEveryMessage == TuiSpec => []PlanModeGates
<1>1. AppInv => PlanModeGates
  BY DEF AppInv
<1> QED
  BY <1>1, AppAlways, PTL

\* Each field's byte cursor lies between two characters whatever their widths,
\* so no slice of the value panics: TextInput's insert, backspace and moves.
THEOREM CursorsStayOnBoundaries == TuiSpec => []CursorOnBoundary
<1> QED
  BY CursorsOfFields, WizardAlways, PTL

\* What the login wizard returns names the provider that was confirmed and
\* carries texts that are not blank, however the user went back and forth.
THEOREM WizardReturnsTheConfirmed == TuiSpec => []ResultIsConfirmed
<1> QED
  BY WizardResult, WizardAlways, PTL

\* Whichever way its loop ends, a program that ended gave the terminal back
\* unless a call on the terminal failed: RawModeGuard.
THEOREM TerminalIsRestored == TuiSpec => []TerminalRestored
<1>1. TuiInit => TerminalRestored
  BY DEF TuiInit, TerminalRestored
<1> QED
  BY <1>1, TerminalStep, PTL DEF TuiSpec

-----------------------------------------------------------------------------
(* The commands *)

-----------------------------------------------------------------------------
(* Their inductive invariant *)

Secrets == {"", "key", None}

AccountRow == [key : Nat, default : BOOLEAN, status : {"active"}, until : {None}]

AddArguments ==
  [provider : Ids \cup {None}, label : Labels \cup {None}, secret : Secrets,
   endpoint : STRING \cup {NoEndpoint}, stdin : BOOLEAN, default : BOOLEAN]

ScreenTerm == [op : {"chat"}, n : Nat, stage : {"tui"}, args : SUBSET WithModels]

AddTerm ==
  [op : {"add"}, n : Nat, stage : {"wizard", "prompts", "add", "readback"},
   args : AddArguments]

CliTyped ==
  /\ accounts \in [Names -> AccountRow \cup {None}]
  /\ endpoint \in [Names -> SafeEndpoints \cup {NoEndpoint}]
  /\ sessions = [i \in SessionIds |-> sessions[i]]
  /\ term \in [Terminals -> ScreenTerm \cup AddTerm \cup {None}]
  /\ commands \in Nat

\* A command that has come to the store knows a provider and a label.
Named ==
  \A t \in Terminals : At(t, "add") \/ At(t, "readback") =>
    term[t].args.provider \in Ids /\ term[t].args.label \in Labels

\* Commands that run have numbers of their own, and so have the keys they made.
TermsNumbered ==
  /\ \A t \in Terminals : term[t] # None => term[t].n \in 1..commands
  /\ \A t, u \in Terminals :
       t # u /\ term[t] # None /\ term[u] # None => term[t].n # term[u].n
  /\ \A a \in Names : Held(a) => accounts[a].key \in 1..commands

\* A row with a running command's key is the one it has added and reads again.
Owned ==
  \A t \in Terminals, a \in Names :
    term[t] # None /\ Held(a) /\ accounts[a].key = term[t].n =>
      /\ At(t, "readback")
      /\ a = <<term[t].args.provider, term[t].args.label>>
      /\ endpoint[a] \in {term[t].args.endpoint, DefaultEndpoint(term[t].args.provider)}

-----------------------------------------------------------------------------
(* The store's operations *)

\* A new account: the default if it was asked for or is the provider's first.
LEMMA AddFacts ==
  ASSUME CliTyped, NEW a \in Names, NEW k \in Nat, NEW d \in BOOLEAN, Store!Add(a, k, d)
  PROVE  /\ accounts' \in [Names -> AccountRow \cup {None}]
         /\ ~Held(a) /\ Held(a)' /\ accounts'[a].key = k
         /\ accounts'[a].default <=>
              d \/ \A b \in Names : b[1] = a[1] => ~Held(b)
         /\ \A b \in Names : b # a =>
              /\ Held(b)' <=> Held(b)
              /\ Held(b) => accounts'[b].key = accounts[b].key
              /\ Held(b) => (accounts'[b].default <=>
                               accounts[b].default /\ ~(d /\ b[1] = a[1]))
<1> DEFINE row(b) == IF d /\ accounts[b] # None /\ b[1] = a[1]
                     THEN [accounts[b] EXCEPT !.default = FALSE]
                     ELSE accounts[b]
           first == {b \in Names : b[1] = a[1] /\ accounts[b] # None} = {}
           new == [key |-> k, default |-> d \/ first, status |-> "active", until |-> None]
<1>1. /\ accounts[a] = None
      /\ accounts' = [[b \in Names |-> row(b)] EXCEPT ![a] = new]
  BY DEF Store!Add, Store!Held, Store!Demoted, Store!OfProvider, Store!Name, Names
<1>2. \A b \in Names : accounts[b] \in AccountRow \cup {None}
  BY DEF CliTyped
<1>3. new \in AccountRow /\ new.key = k /\ (new.default <=> d \/ first)
  BY DEF AccountRow
<1>4. \A b \in Names : /\ row(b) \in AccountRow \cup {None}
                       /\ accounts[b] = None => row(b) = None
                       /\ accounts[b] # None =>
                            /\ row(b) \in AccountRow /\ row(b).key = accounts[b].key
                            /\ row(b).default <=> accounts[b].default /\ ~(d /\ b[1] = a[1])
  BY <1>2 DEF AccountRow
<1>5. None \notin AccountRow
  BY NoneAssumption DEF AccountRow
<1> HIDE DEF row, new
<1>6. accounts'[a] = new /\ \A b \in Names : b # a => accounts'[b] = row(b)
  BY <1>1
<1>7. accounts' \in [Names -> AccountRow \cup {None}]
  BY <1>1, <1>3, <1>4
<1>8. first <=> \A b \in Names : b[1] = a[1] => ~Held(b)
  BY DEF Held
<1> QED
  BY <1>1, <1>3, <1>4, <1>5, <1>6, <1>7, <1>8 DEF Held

LEMMA RemoveFacts ==
  ASSUME CliTyped, NEW a \in Names, Store!Remove(a)
  PROVE  /\ accounts' \in [Names -> AccountRow \cup {None}]
         /\ Held(a) /\ ~Held(a)'
         /\ \A b \in Names : b # a => accounts'[b] = accounts[b]
BY DEF CliTyped, Store!Remove, Store!Held, Held

LEMMA SetDefaultFacts ==
  ASSUME CliTyped, NEW a \in Names, Store!SetDefault(a)
  PROVE  /\ accounts' \in [Names -> AccountRow \cup {None}]
         /\ Held(a) /\ accounts'[a].default
         /\ \A b \in Names :
              /\ Held(b)' <=> Held(b)
              /\ Held(b) => accounts'[b].key = accounts[b].key
              /\ Held(b) /\ b # a => (accounts'[b].default <=>
                                        accounts[b].default /\ b[1] # a[1])
<1> DEFINE row(b) == IF TRUE /\ accounts[b] # None /\ b[1] = a[1]
                     THEN [accounts[b] EXCEPT !.default = FALSE]
                     ELSE accounts[b]
           all == [b \in Names |-> row(b)]
<1>1. /\ accounts[a] # None
      /\ accounts' = [all EXCEPT ![a].default = TRUE]
  BY DEF Store!SetDefault, Store!Held, Store!Demoted, Store!Name, Names
<1>2. \A b \in Names : accounts[b] \in AccountRow \cup {None}
  BY DEF CliTyped
<1>3. None \notin AccountRow
  BY NoneAssumption DEF AccountRow
<1>4. \A b \in Names : /\ row(b) \in AccountRow \cup {None}
                       /\ accounts[b] = None => row(b) = None
                       /\ accounts[b] # None =>
                            /\ row(b) \in AccountRow /\ row(b).key = accounts[b].key
                            /\ row(b).default <=> accounts[b].default /\ b[1] # a[1]
  BY <1>2 DEF AccountRow
<1> HIDE DEF row
<1>5. /\ accounts' = [all EXCEPT ![a] = [row(a) EXCEPT !.default = TRUE]]
      /\ row(a) \in AccountRow /\ row(a).key = accounts[a].key
  BY <1>1, <1>4
<1>6. PICK new : new = [row(a) EXCEPT !.default = TRUE]
  OBVIOUS
<1>7. new \in AccountRow /\ new.default /\ new.key = accounts[a].key
  BY <1>5, <1>6 DEF AccountRow
<1>8. /\ accounts'[a] = new /\ \A b \in Names : b # a => accounts'[b] = row(b)
      /\ accounts' \in [Names -> AccountRow \cup {None}]
  BY <1>4, <1>5, <1>6, <1>7
<1> QED
  BY <1>1, <1>3, <1>4, <1>7, <1>8 DEF Held

-----------------------------------------------------------------------------
(* What a step does, of five kinds *)

Kept == UNCHANGED <<accounts, endpoint, unled>>

\* A command of one step.
Ran == term' = term /\ commands' = commands + 1

Began(t) ==
  \E r \in ScreenTerm \cup AddTerm :
    /\ r.n = commands + 1 /\ r.stage \notin {"add", "readback"}
    /\ term[t] = None /\ term' = [term EXCEPT ![t] = r]
    /\ commands' = commands + 1

Ended(t) ==
  /\ term' = [term EXCEPT ![t] = None]
  /\ UNCHANGED commands

\* login add goes on with other arguments, to the store only with both names.
Went(t, phase, args) ==
  /\ term[t] # None /\ term[t] \in AddTerm /\ args \in AddArguments
  /\ phase \in {"add", "readback"} => args.provider \in Ids /\ args.label \in Labels
  /\ term' = [term EXCEPT ![t] = [op |-> "add", n |-> term[t].n, stage |-> phase,
                                  args |-> args]]
  /\ UNCHANGED commands

Answered(t) ==
  /\ term[t].stage \in {"wizard", "prompts"}
  /\ \E phase \in {"prompts", "add"}, args \in AddArguments : Went(t, phase, args)

\* The account that login add adds.
Adding(t) == <<term[t].args.provider, term[t].args.label>>

Added(t) ==
  /\ At(t, "add") /\ Adding(t) \in Names
  /\ Went(t, "readback", term[t].args)
  /\ Acceptable(term[t].args)
  /\ Store!Add(Adding(t), term[t].n, term[t].args.default)
  /\ endpoint' = [endpoint EXCEPT ![Adding(t)] = EndpointOf(term[t].args)]
  /\ unled' = IF accounts'[Adding(t)].default THEN unled \ {term[t].args.provider}
                                             ELSE unled

Removed(a) ==
  /\ Store!Remove(a)
  /\ endpoint' = [endpoint EXCEPT ![a] = NoEndpoint]
  /\ unled' = IF accounts[a].default THEN unled \cup {a[1]} ELSE unled

Used(a) == Store!SetDefault(a) /\ unled' = unled \ {a[1]} /\ UNCHANGED endpoint

StepOf(t) ==
  \/ Version(t) \/ StateFails(t)
  \/ New(t) \/ Sessions(t) \/ Resume(t) \/ Chat(t) \/ LeaveTui(t) \/ ListModels(t)
  \/ LoginList(t) \/ LoginRemove(t) \/ LoginUse(t)
  \/ AddBegin(t) \/ WizardEnds(t) \/ Prompt(t) \/ AddStore(t) \/ AddReadBack(t)

\* A command that goes on is login add where it is in one of its stages.
LEMMA StageProps ==
  ASSUME CliTyped, NEW t \in Terminals, NEW phase \in {"wizard", "prompts", "add", "readback"},
         At(t, phase)
  PROVE  /\ term[t] # None /\ term[t] \in AddTerm
         /\ term[t].args \in AddArguments /\ term[t].n \in Nat
         /\ term[t].op = "add"
         /\ [term EXCEPT ![t].stage = phase] = term
BY DEF CliTyped, At, AddTerm, ScreenTerm

LEMMA GoesOnIsWent ==
  ASSUME CliTyped, NEW t \in Terminals, NEW phase, NEW args \in AddArguments,
         term[t] # None, term[t] \in AddTerm, GoesOn(t, phase, args),
         phase \in {"add", "readback"} => args.provider \in Ids /\ args.label \in Labels
  PROVE  Went(t, phase, args)
<1>1. PICK r : r = [op |-> "add", n |-> term[t].n, stage |-> phase, args |-> args]
  OBVIOUS
<1>2. [[term[t] EXCEPT !.stage = phase] EXCEPT !.args = args] = r
  <2>1. PICK x : x = term[t]
    OBVIOUS
  <2>2. x = [op |-> "add", n |-> x.n, stage |-> x.stage, args |-> x.args]
    BY <2>1 DEF AddTerm
  <2>3. PICK y : y = [x EXCEPT !.stage = phase]
    OBVIOUS
  <2>4. y = [op |-> "add", n |-> x.n, stage |-> phase, args |-> x.args]
    BY <2>2, <2>3
  <2>5. [y EXCEPT !.args = args] = [op |-> "add", n |-> x.n, stage |-> phase, args |-> args]
    BY <2>4
  <2> QED
    BY <1>1, <2>1, <2>3, <2>5
<1>3. term' = [term EXCEPT ![t] = r]
  BY <1>2 DEF GoesOn, CliTyped
<1> QED
  BY <1>1, <1>3 DEF Went, GoesOn

LEMMA AnswersProps ==
  ASSUME NEW args \in AddArguments
  PROVE  /\ Answers(args) \subseteq AddArguments
         /\ Asked(args) = "nothing" => args.provider \in Ids /\ args.label \in Labels
<1>1. /\ \A p \in Ids : [args EXCEPT !.provider = p] \in AddArguments
      /\ \A l \in Labels : [args EXCEPT !.label = l] \in AddArguments
      /\ \A s \in Secrets : [args EXCEPT !.secret = s] \in AddArguments
  BY DEF AddArguments
<1>2. Answers(args) \subseteq AddArguments
  BY <1>1 DEF Answers, Secrets
<1>3. args.provider \in Ids \cup {None} /\ args.label \in Labels \cup {None}
  BY DEF AddArguments
<1> QED
  BY <1>2, <1>3 DEF Asked

LEMMA StepKinds ==
  ASSUME CliTyped, Named, NEW t \in Terminals, StepOf(t)
  PROVE  \/ Ran /\ (Kept \/ \E a \in Names : Removed(a) \/ Used(a))
         \/ (Began(t) \/ Ended(t) \/ Answered(t)) /\ Kept
         \/ Added(t)
<1>1. ASSUME NEW op, NEW arg, NEW code, NEW out, Runs(t, op, arg, code, out) PROVE Ran
  BY <1>1 DEF Runs, Ran
<1>2. ASSUME NEW code, NEW out, Exits(t, code, out) PROVE Ended(t)
  BY <1>2 DEF Exits, Ended
<1>3. Nothing => Kept
  BY DEF Nothing, Kept
<1>4. ASSUME LaunchTui(t) PROVE Began(t)
  <2>1. PICK configured \in {Configured, {}} :
          Begins(t, "chat", "tui", LoadModelsItems(None, FALSE, configured))
    BY <1>4 DEF LaunchTui
  <2>2. LoadModelsItems(None, FALSE, configured) \subseteq WithModels
    BY DEF LoadModelsItems
  <2>3. PICK r : r = [op |-> "chat", n |-> commands + 1, stage |-> "tui",
                      args |-> LoadModelsItems(None, FALSE, configured)]
    OBVIOUS
  <2>4. commands + 1 \in Nat
    BY DEF CliTyped
  <2>5. r \in ScreenTerm /\ r.n = commands + 1 /\ r.stage \notin {"add", "readback"}
    BY <2>2, <2>3, <2>4 DEF ScreenTerm
  <2> QED
    BY <2>1, <2>3, <2>5 DEF Begins, Began
<1>5. CASE Version(t) \/ StateFails(t) \/ Sessions(t) \/ ListModels(t) \/ LoginList(t)
  BY <1>1, <1>3, <1>5 DEF Version, StateFails, Sessions, ListModels, LoginList
<1>6. CASE New(t)
  BY <1>1, <1>6 DEF New, Kept
<1>7. CASE Resume(t) \/ Chat(t) \/ LeaveTui(t)
  BY <1>1, <1>2, <1>3, <1>4, <1>7 DEF Resume, Chat, LeaveTui
<1>8. CASE LoginRemove(t)
  BY <1>1, <1>3, <1>8 DEF LoginRemove, Removed
<1>9. CASE LoginUse(t)
  BY <1>1, <1>3, <1>9 DEF LoginUse, Used
<1>10. CASE AddBegin(t)
  <2>1. PICK args \in AddArgs, phase \in {"wizard", "prompts"} : Begins(t, "add", phase, args)
    BY <1>10 DEF AddBegin
  <2>2. PICK r : r = [op |-> "add", n |-> commands + 1, stage |-> phase, args |-> args]
    OBVIOUS
  <2>3. r \in AddTerm /\ r.n = commands + 1 /\ r.stage \notin {"add", "readback"}
    <3>1. AddArgs \subseteq AddArguments
      BY ArgsAssumption DEF AddArguments, Secrets
    <3>2. args \in AddArguments /\ commands + 1 \in Nat
      BY <3>1 DEF CliTyped
    <3> QED
      BY <2>2, <3>2 DEF AddTerm
  <2>4. term' = [term EXCEPT ![t] = r] /\ term[t] = None /\ commands' = commands + 1
    BY <2>1, <2>2 DEF Begins
  <2>5. Nothing
    BY <1>10 DEF AddBegin
  <2> QED
    BY <1>3, <2>3, <2>4, <2>5 DEF Began
<1>11. CASE WizardEnds(t)
  <2>1. CASE \E code \in {130, 2} : Exits(t, code, None)
    BY <1>2, <1>3, <1>11, <2>1 DEF WizardEnds
  <2>2. CASE \E p \in Offered, l \in Labels :
               GoesOn(t, "add", [term[t].args EXCEPT !.provider = p, !.label = l,
                                                     !.secret = "key"])
    <3>1. /\ At(t, "wizard") /\ term[t].stage = "wizard"
          /\ term[t] # None /\ term[t] \in AddTerm
          /\ term[t].args \in AddArguments /\ Kept
      BY <1>3, <1>11, StageProps DEF WizardEnds, At
    <3>2. PICK p \in Offered, l \in Labels :
            GoesOn(t, "add", [term[t].args EXCEPT !.provider = p, !.label = l, !.secret = "key"])
      BY <2>2
    <3>3. PICK args : args = [term[t].args EXCEPT !.provider = p, !.label = l, !.secret = "key"]
      OBVIOUS
    <3>4. args \in AddArguments /\ args.provider \in Ids /\ args.label \in Labels
      BY <3>1, <3>3 DEF AddArguments, Offered, Secrets
    <3> QED
      BY <3>1, <3>2, <3>3, <3>4, GoesOnIsWent DEF Answered
  <2> QED
    BY <1>11, <2>1, <2>2 DEF WizardEnds
<1>12. CASE Prompt(t)
  <2>1. /\ At(t, "prompts") /\ term[t].stage = "prompts"
        /\ term[t] # None /\ term[t] \in AddTerm
        /\ term[t].args \in AddArguments /\ Kept
    BY <1>3, <1>12, StageProps DEF Prompt, At
  <2>2. CASE Asked(term[t].args) = "nothing" /\ GoesOn(t, "add", term[t].args)
    BY <2>1, <2>2, AnswersProps, GoesOnIsWent DEF Answered
  <2>3. CASE \E args \in Answers(term[t].args) : GoesOn(t, "prompts", args)
    BY <2>1, <2>3, AnswersProps, GoesOnIsWent DEF Answered
  <2>4. CASE Exits(t, 2, None)
    BY <1>2, <2>1, <2>4
  <2> QED
    BY <1>12, <2>2, <2>3, <2>4 DEF Prompt
<1>13. CASE AddStore(t)
  <2>1. CASE Exits(t, 2, None) /\ Nothing
    BY <1>2, <1>3, <2>1
  <2>2. CASE ~(Exits(t, 2, None) /\ Nothing)
    <3>1. /\ At(t, "add") /\ term[t] # None /\ term[t] \in AddTerm
          /\ term[t].args \in AddArguments
      BY <1>13, StageProps DEF AddStore
    <3>2. term[t].args.provider \in Ids /\ term[t].args.label \in Labels
      BY <3>1 DEF Named
    <3>3. Went(t, "readback", term[t].args)
      BY <1>13, <2>2, <3>1, <3>2, GoesOnIsWent DEF AddStore
    <3> QED
      BY <1>13, <2>2, <3>1, <3>2, <3>3 DEF AddStore, Added, Adding, Names
  <2> QED
    BY <2>1, <2>2
<1>14. CASE AddReadBack(t)
  BY <1>2, <1>3, <1>14 DEF AddReadBack
<1> QED
  BY <1>5, <1>6, <1>7, <1>8, <1>9, <1>10, <1>11, <1>12, <1>13, <1>14 DEF StepOf

-----------------------------------------------------------------------------
(* The invariant of the commands *)

\* A step leaves the sessions a map of all the ids.
LEMMA SessionsStep ==
  ASSUME CliTyped, NEW t \in Terminals, StepOf(t)
  PROVE  sessions' = [i \in SessionIds |-> sessions'[i]]
<1>1. CASE New(t)
  <2>1. PICK i \in SessionIds : sessions' = [sessions EXCEPT ![i] = Cwd[t]]
    BY <1>1 DEF New
  <2> QED
    BY <2>1 DEF CliTyped
<1>2. CASE ~New(t)
  <2>1. UNCHANGED sessions
    BY <1>2 DEF StepOf, Nothing, Version, StateFails, Sessions, Resume, Chat, LeaveTui, ListModels,
       LoginList, LoginRemove, LoginUse, AddBegin, WizardEnds, Prompt, AddStore, AddReadBack
  <2> QED
    BY <2>1 DEF CliTyped
<1> QED
  BY <1>1, <1>2

\* The endpoint an account is added with has passed validation, or is the
\* catalog's.
LEMMA EndpointProps ==
  ASSUME NEW args, Acceptable(args)
  PROVE  /\ EndpointOf(args) \in SafeEndpoints
         /\ EndpointOf(args) \in {args.endpoint, DefaultEndpoint(args.provider)}
<1>1. DefaultEndpoint(args.provider) \in SafeEndpoints \cup {NoEndpoint}
  BY DEF DefaultEndpoint, SafeEndpoints
<1> QED
  BY <1>1 DEF Acceptable, EndpointOf

LEMMA TypedStep ==
  ASSUME CliTyped, Named, NEW t \in Terminals, StepOf(t)
  PROVE  CliTyped'
<1>1. sessions' = [i \in SessionIds |-> sessions'[i]]
  BY SessionsStep
<1>2. /\ accounts' \in [Names -> AccountRow \cup {None}]
      /\ endpoint' \in [Names -> SafeEndpoints \cup {NoEndpoint}]
  <2>1. CASE Kept
    BY <2>1 DEF Kept, CliTyped
  <2>2. ASSUME NEW a \in Names, Removed(a) \/ Used(a)
        PROVE  /\ accounts' \in [Names -> AccountRow \cup {None}]
               /\ endpoint' \in [Names -> SafeEndpoints \cup {NoEndpoint}]
    <3>1. accounts' \in [Names -> AccountRow \cup {None}]
      BY <2>2, RemoveFacts, SetDefaultFacts DEF Removed, Used
    <3>2. endpoint' = endpoint \/ endpoint' = [endpoint EXCEPT ![a] = NoEndpoint]
      BY <2>2 DEF Removed, Used
    <3> QED
      BY <3>1, <3>2 DEF CliTyped
  <2>3. CASE Added(t)
    <3>1. /\ term[t].args \in AddArguments /\ term[t].n \in Nat
          /\ term[t].args.default \in BOOLEAN /\ Adding(t) \in Names
      BY <2>3, StageProps DEF Added, AddArguments
    <3>2. accounts' \in [Names -> AccountRow \cup {None}]
      BY <2>3, <3>1, AddFacts DEF Added
    <3>3. EndpointOf(term[t].args) \in SafeEndpoints
      BY <2>3, EndpointProps DEF Added
    <3> QED
      BY <2>3, <3>2, <3>3 DEF Added, CliTyped
  <2> QED
    BY <2>1, <2>2, <2>3, StepKinds
<1>3. term' \in [Terminals -> ScreenTerm \cup AddTerm \cup {None}] /\ commands' \in Nat
  <2>1. CASE Ran
    BY <2>1 DEF Ran, CliTyped
  <2>2. CASE Began(t) \/ Ended(t)
    BY <2>2 DEF Began, Ended, CliTyped
  <2>3. ASSUME NEW phase \in {"prompts", "add", "readback"}, NEW args, Went(t, phase, args)
        PROVE  term' \in [Terminals -> ScreenTerm \cup AddTerm \cup {None}] /\ commands' \in Nat
    <3>1. PICK r : r = [op |-> "add", n |-> term[t].n, stage |-> phase, args |-> args]
      OBVIOUS
    <3>2. r \in AddTerm
      BY <2>3, <3>1 DEF Went, AddTerm
    <3> QED
      BY <2>3, <3>1, <3>2 DEF Went, CliTyped
  <2> QED
    BY <2>1, <2>2, <2>3, StepKinds DEF Answered, Added
<1> QED
  BY <1>1, <1>2, <1>3 DEF CliTyped

\* What a step makes of the command that runs in each terminal.
LEMMA TermStep ==
  ASSUME CliTyped, NEW t \in Terminals
  PROVE  /\ Began(t) => /\ term[t] = None /\ commands' = commands + 1
                        /\ \A u \in Terminals : u # t => term'[u] = term[u]
                        /\ term'[t].n = commands + 1
                        /\ term'[t].stage \notin {"add", "readback"}
         /\ Ended(t) => /\ term'[t] = None /\ commands' = commands
                        /\ \A u \in Terminals : u # t => term'[u] = term[u]
         /\ \A phase, args : Went(t, phase, args) =>
              /\ term[t] # None /\ commands' = commands
              /\ \A u \in Terminals : u # t => term'[u] = term[u]
              /\ term'[t].n = term[t].n /\ term'[t].stage = phase
              /\ term'[t].args = args
BY DEF CliTyped, Began, Ended, Went

LEMMA NamedStep ==
  ASSUME CliTyped, Named, NEW t \in Terminals, StepOf(t)
  PROVE  Named'
<1>1. CASE Ran
  BY <1>1 DEF Named, Ran, At
<1>2. CASE Began(t) \/ Ended(t)
  BY <1>2, TermStep DEF Named, At
<1>3. ASSUME NEW phase, NEW args, Went(t, phase, args) PROVE Named'
  <2>1. phase \in {"add", "readback"} => args.provider \in Ids /\ args.label \in Labels
    BY <1>3 DEF Went
  <2> QED
    BY <1>3, <2>1, TermStep DEF Named, At
<1> QED
  BY <1>1, <1>2, <1>3, StepKinds DEF Answered, Added

\* The rows after a step are the rows before it, but for one with a new key.
LEMMA RowsStep ==
  ASSUME CliTyped, Named, NEW t \in Terminals, StepOf(t), NEW a \in Names, Held(a)'
  PROVE  \/ Held(a) /\ accounts'[a].key = accounts[a].key /\ endpoint'[a] = endpoint[a]
         \/ /\ Added(t) /\ a = Adding(t) /\ accounts'[a].key = term[t].n
            /\ endpoint'[a] \in {term[t].args.endpoint, DefaultEndpoint(term[t].args.provider)}
<1>1. CASE Kept
  BY <1>1 DEF Kept, Held
<1>2. ASSUME NEW b \in Names, Removed(b)
      PROVE  Held(a) /\ accounts'[a].key = accounts[a].key /\ endpoint'[a] = endpoint[a]
  <2>1. a # b /\ accounts'[a] = accounts[a]
    BY <1>2, RemoveFacts DEF Removed
  <2> QED
    BY <1>2, <2>1 DEF Removed, Held, CliTyped
<1>3. ASSUME NEW b \in Names, Used(b)
      PROVE  Held(a) /\ accounts'[a].key = accounts[a].key /\ endpoint'[a] = endpoint[a]
  BY <1>3, SetDefaultFacts DEF Used
<1>4. CASE Added(t)
  <2> DEFINE args == term[t].args
  <2>1. term[t].n \in Nat /\ args.default \in BOOLEAN /\ Adding(t) \in Names
    BY <1>4, StageProps DEF Added, AddArguments
  <2>2. /\ accounts'[Adding(t)].key = term[t].n
        /\ a # Adding(t) => Held(a) /\ accounts'[a].key = accounts[a].key
    BY <1>4, <2>1, AddFacts DEF Added
  <2>3. EndpointOf(args) \in {args.endpoint, DefaultEndpoint(args.provider)}
    BY <1>4, EndpointProps DEF Added
  <2>4. /\ endpoint'[Adding(t)] = EndpointOf(args)
        /\ a # Adding(t) => endpoint'[a] = endpoint[a]
    BY <1>4, <2>1 DEF Added, CliTyped
  <2> QED
    BY <1>4, <2>2, <2>3, <2>4
<1> QED
  BY <1>1, <1>2, <1>3, <1>4, StepKinds

LEMMA NumberedStep ==
  ASSUME CliTyped, Named, TermsNumbered, NEW t \in Terminals, StepOf(t)
  PROVE  TermsNumbered'
<1>0. commands \in Nat
  BY DEF CliTyped
<1>1. /\ commands' \in {commands, commands + 1}
      /\ \A u \in Terminals : term'[u] # None => term'[u].n \in 1..commands'
      /\ \A u, v \in Terminals :
           u # v /\ term'[u] # None /\ term'[v] # None => term'[u].n # term'[v].n
  <2>1. CASE Ran
    BY <1>0, <2>1 DEF Ran, TermsNumbered
  <2>2. CASE Began(t)
    BY <1>0, <2>2, TermStep DEF TermsNumbered
  <2>3. CASE Ended(t)
    BY <1>0, <2>3, TermStep DEF TermsNumbered
  <2>4. ASSUME NEW phase, NEW args, Went(t, phase, args)
        PROVE  /\ commands' = commands
               /\ \A u \in Terminals : /\ term'[u] # None => term[u] # None
                                       /\ term'[u].n = term[u].n
    BY <2>4, TermStep
  <2>5. CASE Answered(t) \/ Added(t)
    BY <2>4, <2>5 DEF Answered, Added, TermsNumbered
  <2> QED
    BY <2>1, <2>2, <2>3, <2>5, StepKinds
<1>2. ASSUME NEW a \in Names, Held(a)' PROVE accounts'[a].key \in 1..commands'
  <2>1. accounts'[a].key \in 1..commands
    <3>1. CASE Added(t) /\ accounts'[a].key = term[t].n
      BY <3>1 DEF TermsNumbered, Added, At
    <3>2. CASE Held(a) /\ accounts'[a].key = accounts[a].key
      BY <3>2 DEF TermsNumbered
    <3> QED
      BY <1>2, <3>1, <3>2, RowsStep
  <2> QED
    BY <1>0, <1>1, <2>1
<1> QED
  BY <1>1, <1>2 DEF TermsNumbered

LEMMA OwnedStep ==
  ASSUME CliTyped, Named, TermsNumbered, Owned, NEW t \in Terminals, StepOf(t)
  PROVE  Owned'
<1> SUFFICES ASSUME NEW u \in Terminals, NEW a \in Names,
                    term'[u] # None, Held(a)', accounts'[a].key = term'[u].n
             PROVE  /\ At(u, "readback")'
                    /\ a = <<term'[u].args.provider, term'[u].args.label>>
                    /\ endpoint'[a] \in {term'[u].args.endpoint,
                                         DefaultEndpoint(term'[u].args.provider)}
  BY DEF Owned
<1>0. commands \in Nat
  BY DEF CliTyped
\* A row that was there keeps its owner, who is not one that goes on.
<1>1. CASE Held(a) /\ accounts'[a].key = accounts[a].key /\ endpoint'[a] = endpoint[a]
  <2>1. accounts[a].key \in 1..commands
    BY <1>1 DEF TermsNumbered
  <2>2. term'[u] = term[u]
    <3>1. CASE Ran
      BY <3>1 DEF Ran
    <3>2. CASE Began(t)
      <4>1. /\ term'[t].n = commands + 1
            /\ \A v \in Terminals : v # t => term'[v] = term[v]
        BY <3>2, TermStep
      <4>2. accounts[a].key = term'[u].n
        BY <1>1
      <4>3. u # t
        BY <1>0, <2>1, <4>1, <4>2
      <4> QED
        BY <4>1, <4>3
    <3>3. CASE Ended(t)
      BY <3>3, TermStep
    <3>4. ASSUME NEW phase, NEW args, Went(t, phase, args),
                 term[t].stage \in {"wizard", "prompts", "add"}
          PROVE  term'[u] = term[u]
      <4>1. ~At(t, "readback")
        BY <3>4 DEF At
      <4> QED
        BY <1>1, <3>4, <4>1, TermStep DEF Owned
    <3>5. CASE Answered(t) \/ Added(t)
      BY <3>4, <3>5 DEF Answered, Added, At
    <3> QED
      BY <3>1, <3>2, <3>3, <3>5, StepKinds
  <2> QED
    BY <1>1, <2>2 DEF Owned, At
\* The new row belongs to the command that added it.
<1>2. CASE /\ Added(t) /\ a = Adding(t) /\ accounts'[a].key = term[t].n
           /\ endpoint'[a] \in {term[t].args.endpoint, DefaultEndpoint(term[t].args.provider)}
  <2>1. Went(t, "readback", term[t].args)
    BY <1>2 DEF Added
  <2>2. /\ \A v \in Terminals : v # t => term'[v] = term[v]
        /\ term[t] # None /\ term'[t].n = term[t].n
        /\ term'[t].stage = "readback" /\ term'[t].args = term[t].args
    BY <2>1, TermStep
  <2>3. u = t
    BY <1>2, <2>2 DEF TermsNumbered
  <2> QED
    BY <1>2, <2>2, <2>3 DEF Adding, At
<1> QED
  BY <1>1, <1>2, RowsStep

-----------------------------------------------------------------------------
(* Accounts stay sound *)

Valid(a) == {a[1], a[2]} \cap Malformed = {} /\ endpoint[a] \in SafeEndpoints

Led(p) == p \in unled \/ \E b \in Names : b[1] = p /\ Held(b) /\ accounts[b].default

OneLeads ==
  \A a, b \in Names :
    a[1] = b[1] /\ Held(a) /\ accounts[a].default /\ Held(b) /\ accounts[b].default => a = b

Sound == (\A a \in Names : Held(a) => Valid(a) /\ Led(a[1])) /\ OneLeads

LEMMA SoundParts == AccountsSound <=> Sound
<1>1. Store!OneDefault <=> OneLeads
  BY DEF Store!OneDefault, Store!Name, Store!Held, Names, Held, OneLeads
<1> QED
  BY <1>1 DEF AccountsSound, Sound, Valid, Led

LEMMA AddKeepsSound ==
  ASSUME CliTyped, Sound, NEW t \in Terminals, Added(t)
  PROVE  Sound'
<1> PICK args, n, d : args = term[t].args /\ n = Adding(t) /\ d = args.default
  OBVIOUS
<1>0. /\ args \in AddArguments /\ term[t].n \in Nat /\ d \in BOOLEAN /\ n \in Names
      /\ n[1] = args.provider /\ n[2] = args.label
      /\ Store!Add(n, term[t].n, d)
  BY StageProps DEF Added, AddArguments, Adding
<1>1. /\ ~Held(n) /\ Held(n)'
      /\ accounts'[n].default <=> d \/ \A b \in Names : b[1] = n[1] => ~Held(b)
      /\ \A b \in Names : b # n =>
           /\ Held(b)' <=> Held(b)
           /\ Held(b) => (accounts'[b].default <=> accounts[b].default /\ ~(d /\ b[1] = n[1]))
  BY <1>0, AddFacts
<1>2. /\ endpoint' = [endpoint EXCEPT ![n] = EndpointOf(args)]
      /\ unled' = IF accounts'[n].default THEN unled \ {n[1]} ELSE unled
      /\ EndpointOf(args) \in SafeEndpoints
      /\ {args.provider, args.label} \cap Malformed = {}
  BY <1>0, EndpointProps DEF Added, Acceptable
<1>3. /\ \A a \in Names : Held(a) => Valid(a) /\ Led(a[1])
      /\ OneLeads
  BY DEF Sound
<1>4. ASSUME NEW a \in Names, Held(a)' PROVE Valid(a)'
  <2>1. CASE a = n
    BY <1>0, <1>2, <2>1 DEF Valid, CliTyped
  <2>2. CASE a # n
    BY <1>0, <1>1, <1>2, <1>3, <1>4, <2>2 DEF Valid, CliTyped
  <2> QED
    BY <2>1, <2>2
<1>5. ASSUME NEW a \in Names, Held(a)' PROVE Led(a[1])'
  <2>1. CASE a[1] = n[1] /\ accounts'[n].default
    BY <1>0, <1>1, <2>1 DEF Led
  <2>2. CASE a[1] = n[1] /\ ~accounts'[n].default
    <3>1. PICK b \in Names : b[1] = n[1] /\ Held(b) /\ ~d
      BY <1>1, <2>2
    <3> QED
      BY <1>1, <1>2, <1>3, <2>2, <3>1 DEF Led
  <2>3. CASE a[1] # n[1]
    <3>1. Held(a) /\ Led(a[1])
      BY <1>1, <1>3, <1>5, <2>3
    <3> QED
      BY <1>1, <1>2, <2>3, <3>1 DEF Led
  <2> QED
    BY <2>1, <2>2, <2>3
<1>6. OneLeads'
  <2> SUFFICES ASSUME NEW a \in Names, NEW b \in Names, a[1] = b[1], a # b,
                      Held(a)', accounts'[a].default, Held(b)', accounts'[b].default
               PROVE  FALSE
    BY DEF OneLeads
  <2>1. ASSUME NEW c \in Names, c # n, c[1] = n[1], Held(c)', accounts'[c].default,
               accounts'[n].default
        PROVE  FALSE
    BY <1>1, <2>1
  <2>2. a # n /\ b # n
    BY <2>1
  <2> QED
    BY <1>1, <1>3, <2>2 DEF OneLeads
<1> QED
  BY <1>4, <1>5, <1>6 DEF Sound

LEMMA RemoveKeepsSound ==
  ASSUME CliTyped, Sound, NEW a \in Names, Removed(a)
  PROVE  Sound'
<1>1. /\ Held(a) /\ ~Held(a)'
      /\ \A b \in Names : b # a => accounts'[b] = accounts[b] /\ (Held(b)' <=> Held(b))
  BY RemoveFacts DEF Removed, Held
<1>2. /\ \A b \in Names : b # a => endpoint'[b] = endpoint[b]
      /\ unled' = IF accounts[a].default THEN unled \cup {a[1]} ELSE unled
  BY DEF Removed, CliTyped
<1>3. (\A b \in Names : Held(b) => Valid(b) /\ Led(b[1])) /\ OneLeads
  BY DEF Sound
<1>4. ASSUME NEW b \in Names, Held(b)' PROVE Valid(b)' /\ Led(b[1])'
  <2>1. b # a /\ Held(b) /\ Valid(b) /\ Led(b[1])
    BY <1>1, <1>3, <1>4
  <2>2. Valid(b)'
    BY <1>2, <2>1 DEF Valid
  <2>3. CASE b[1] \in unled
    BY <1>2, <2>2, <2>3 DEF Led
  <2>4. CASE b[1] \notin unled
    <3>1. PICK c \in Names : c[1] = b[1] /\ Held(c) /\ accounts[c].default
      BY <2>1, <2>4 DEF Led
    <3>2. CASE c = a
      BY <1>2, <2>2, <3>1, <3>2 DEF Led
    <3>3. CASE c # a
      BY <1>1, <2>2, <3>1, <3>3 DEF Led
    <3> QED
      BY <3>2, <3>3
  <2> QED
    BY <2>2, <2>3, <2>4
<1>5. OneLeads'
  BY <1>1, <1>3 DEF OneLeads
<1> QED
  BY <1>4, <1>5 DEF Sound

LEMMA UseKeepsSound ==
  ASSUME CliTyped, Sound, NEW a \in Names, Used(a)
  PROVE  Sound'
<1>1. /\ Held(a) /\ accounts'[a].default
      /\ \A b \in Names :
           /\ Held(b)' <=> Held(b)
           /\ Held(b) /\ b # a => (accounts'[b].default <=>
                                     accounts[b].default /\ b[1] # a[1])
  BY SetDefaultFacts DEF Used
<1>2. endpoint' = endpoint /\ unled' = unled \ {a[1]}
  BY DEF Used
<1>3. (\A b \in Names : Held(b) => Valid(b) /\ Led(b[1])) /\ OneLeads
  BY DEF Sound
<1>4. ASSUME NEW b \in Names, Held(b)' PROVE Valid(b)' /\ Led(b[1])'
  <2>1. Held(b) /\ Valid(b) /\ Led(b[1])
    BY <1>1, <1>3, <1>4
  <2>2. Valid(b)'
    BY <1>2, <2>1 DEF Valid
  <2>3. CASE b[1] = a[1]
    BY <1>1, <2>2, <2>3 DEF Led
  <2>4. CASE b[1] # a[1]
    BY <1>1, <1>2, <2>1, <2>2, <2>4 DEF Led
  <2> QED
    BY <2>2, <2>3, <2>4
<1>5. OneLeads'
  <2> SUFFICES ASSUME NEW b \in Names, NEW c \in Names, b[1] = c[1], b # c,
                      Held(b)', accounts'[b].default, Held(c)', accounts'[c].default
               PROVE  FALSE
    BY DEF OneLeads
  <2>1. CASE b = a \/ c = a
    BY <1>1, <2>1
  <2>2. CASE b # a /\ c # a
    BY <1>1, <1>3, <2>2 DEF OneLeads
  <2> QED
    BY <2>1, <2>2
<1> QED
  BY <1>4, <1>5 DEF Sound

CommandsInv == CliTyped /\ Named /\ TermsNumbered /\ Owned /\ Sound

LEMMA CliStart == Init => CommandsInv
<1> SUFFICES ASSUME Init PROVE CommandsInv
  OBVIOUS
<1>1. \A a \in Names : accounts[a] = None
  BY DEF Init, Store!Init, Store!Name, Names
<1>2. accounts \in [Names -> AccountRow \cup {None}]
  BY DEF Init, Store!Init, Store!Name, Names
<1>3. CliTyped
  BY <1>2 DEF Init, CliTyped
<1>4. \A t \in Terminals : term[t] = None
  BY DEF Init
<1> QED
  BY <1>1, <1>3, <1>4
  DEF CommandsInv, Named, TermsNumbered, Owned, Sound, OneLeads, Held, At

LEMMA CliStep == CommandsInv /\ [Next]_vars => CommandsInv'
<1> SUFFICES ASSUME CommandsInv, [Next]_vars PROVE CommandsInv'
  OBVIOUS
<1> USE DEF CommandsInv
<1>1. ASSUME NEW t \in Terminals, StepOf(t) PROVE CommandsInv'
  <2>1. CliTyped' /\ Named' /\ TermsNumbered' /\ Owned'
    BY <1>1, TypedStep, NamedStep, NumberedStep, OwnedStep
  <2>2. CASE Kept
    BY <2>1, <2>2 DEF Kept, Sound, OneLeads, Valid, Led, Held
  <2> QED
    BY <1>1, <2>1, <2>2, StepKinds, AddKeepsSound, RemoveKeepsSound, UseKeepsSound
<1>2. CASE UNCHANGED vars
  BY <1>2 DEF vars, CliTyped, Named, TermsNumbered, Owned, Sound, OneLeads, Valid, Led, Held, At
<1> QED
  BY <1>1, <1>2 DEF Next, StepOf

LEMMA CliAlways == Spec => []CommandsInv
BY CliStart, CliStep, PTL DEF Spec

\* Whatever the terminals do, in any order and with any failure, an account
\* has a valid name and an endpoint that validation accepts, and its provider
\* has exactly one default, or none since the default was removed:
\* run_login_add, add, remove and set_default.
THEOREM AccountsStaySound == Spec => []AccountsSound
<1>1. CommandsInv => AccountsSound
  BY SoundParts DEF CommandsInv
<1> QED
  BY <1>1, CliAlways, PTL

-----------------------------------------------------------------------------
(* What commands report *)

Told(r) ==
  /\ (r.code # 0 /\ r.out # "io") =>
       UNCHANGED <<accounts, sessions>> /\ Made(r.n) = {}
  /\ (r.op = "add" /\ r.code = 0) =>
       /\ Held(r.out.name)
       /\ r.arg.provider = r.out.name[1] /\ r.arg.label = r.out.name[2]
       /\ Made(r.n) # {} =>
            /\ Made(r.n) = {r.out.name}
            /\ r.out.endpoint \in {r.arg.endpoint, DefaultEndpoint(r.arg.provider)}
  /\ (r.op = "resume" /\ r.code = 0) =>
       /\ sessions[r.out] # None
       /\ r.arg # r.out =>
            /\ Plain(r.arg) => BeginsAs(r.arg, r.out)
            /\ \A i \in SessionIds \ {r.out} : sessions[i] # None => ~BeginsAs(r.arg, i)
  /\ (r.op = "models" /\ r.arg.open) =>
       \A p \in Ids : p \in r.out <=>
         /\ p \in WithModels
         /\ r.arg.all \/ \E l \in Labels : Held(<<p, l>>)
         /\ r.arg.only \in {None, p}

\* No key has the number of a command that only begins.
LEMMA NewNumber == CliTyped /\ TermsNumbered => Made(commands + 1) = {}
<1> SUFFICES ASSUME CliTyped, TermsNumbered, NEW a \in Names, Held(a)
             PROVE  accounts[a].key # commands + 1
  BY DEF Made
<1> QED
  BY DEF CliTyped, TermsNumbered

\* Every command of one step but resume and models says nothing of its own.
LEMMA RunsTells ==
  ASSUME CliTyped, TermsNumbered, NEW op, NEW arg, NEW code, NEW out, NEW t \in Terminals,
         Runs(t, op, arg, code, out), op \notin {"add", "models"}, op = "resume" => code # 0,
         code # 0 /\ out # "io" => UNCHANGED <<accounts, sessions>>
  PROVE  Told(report')
<1>1. /\ report'.n = commands + 1 /\ report'.op = op /\ report'.arg = arg
      /\ report'.code = code /\ report'.out = out
  BY DEF Runs, Report
<1> QED
  BY <1>1, NewNumber DEF Told

\* LIKE finds every id that begins as the text does.
LEMMA BeginningsMatch ==
  ASSUME NEW text, text \in Seq(ToSet(text)), NEW id, id \in Seq(ToSet(id)), BeginsAs(text, id)
  PROVE  Like(Append(text, AnyText), id)
<1> DEFINE n == Len(text)
           p == Append(text, AnyText)
           cut == [k \in 0 .. n + 1 |-> IF k <= n THEN k ELSE Len(id)]
<1>1. n \in Nat /\ Len(id) \in Nat /\ n <= Len(id)
  BY DEF BeginsAs
<1>2. Len(p) = n + 1 /\ p[n + 1] = AnyText /\ \A k \in 1 .. n : p[k] = text[k]
  OBVIOUS
<1>3. cut \in [0 .. Len(p) -> 0 .. Len(id)] /\ cut[0] = 0 /\ cut[Len(p)] = Len(id)
  BY <1>1, <1>2
<1>4. ASSUME NEW k \in 1 .. Len(p)
      PROVE  /\ p[k] = AnyText => cut[k - 1] <= cut[k]
             /\ p[k] # AnyText => cut[k] = cut[k - 1] + 1
             /\ p[k] \notin Wildcards => Fold(p[k]) = Fold(id[cut[k]])
  <2>1. CASE k <= n
    <3>1. cut[k] = k /\ cut[k - 1] = k - 1
      BY <1>1, <2>1
    <3>2. Fold(p[k]) = Fold(id[cut[k]])
      BY <1>1, <1>2, <2>1, <3>1 DEF BeginsAs
    <3> HIDE DEF cut, p
    <3> QED
      BY <1>1, <2>1, <3>1, <3>2
  <2>2. CASE k = n + 1
    <3>1. cut[k] = Len(id) /\ cut[k - 1] = n
      BY <1>1, <2>2
    <3> HIDE DEF cut, p
    <3> QED
      BY <1>1, <1>2, <2>2, <3>1 DEF Wildcards
  <2> QED
    BY <1>1, <1>2, <2>1, <2>2
<1> HIDE DEF cut, p
<1> QED
  BY <1>3, <1>4 DEF Like, p

\* Of a text without wildcards LIKE finds no others: no piece but the last has
\* another length than one.
LEMMA MatchesBegin ==
  ASSUME NEW text, text \in Seq(ToSet(text)), NEW id, id \in Seq(ToSet(id)), Plain(text),
         Like(Append(text, AnyText), id)
  PROVE  BeginsAs(text, id)
<1> DEFINE n == Len(text)
           p == Append(text, AnyText)
<1>1. n \in Nat /\ Len(id) \in Nat
  OBVIOUS
<1>2. Len(p) = n + 1 /\ \A k \in 1 .. n : p[k] = text[k]
  OBVIOUS
<1>3. PICK cut \in [0 .. Len(p) -> 0 .. Len(id)] :
        /\ cut[0] = 0
        /\ \A k \in 1 .. Len(p) :
             /\ p[k] # AnyText => cut[k] = cut[k - 1] + 1
             /\ p[k] \notin Wildcards => Fold(p[k]) = Fold(id[cut[k]])
  BY DEF Like
<1>4. \A k \in 1 .. n : text[k] # AnyText /\ text[k] \notin Wildcards
  <2>1. \A k \in 1 .. n : text[k] \in ToSet(text)
    BY <1>1 DEF ToSet
  <2> QED
    BY <2>1 DEF Plain, Wildcards
<1> HIDE DEF p
<1>5. \A k \in 1 .. n : cut[k] = cut[k - 1] + 1 /\ Fold(text[k]) = Fold(id[cut[k]])
  BY <1>1, <1>2, <1>3, <1>4
<1> DEFINE T == {k \in 0 .. n : cut[k] = k}
<1>6. 0 \in T
  BY <1>1, <1>3
<1>7. \A k \in 0 .. n : k < n /\ k \in T => k + 1 \in T
  <2> SUFFICES ASSUME NEW k \in 0 .. n, k < n, k \in T PROVE k + 1 \in T
    OBVIOUS
  <2>1. k + 1 \in 1 .. n /\ (k + 1) - 1 = k
    BY <1>1
  <2>2. cut[k + 1] = cut[k] + 1
    BY <1>5, <2>1
  <2> QED
    BY <1>1, <2>1, <2>2
<1>8. 0 .. n \subseteq T
  <2> HIDE DEF T
  <2> QED
    BY <1>1, <1>6, <1>7, Climb
<1>9. \A k \in 0 .. n : cut[k] = k
  BY <1>8
<1>10. n <= Len(id)
  BY <1>1, <1>2, <1>3, <1>9
<1> QED
  BY <1>1, <1>5, <1>9, <1>10 DEF BeginsAs

\* A text that resolves does so to a session that begins as it does, if it has
\* no wildcards, and no other session begins so, unless it is the whole id.
LEMMA ResolvedProps ==
  ASSUME NEW text \in Typed, GetByIdPrefix(text) # None
  PROVE  LET i == GetByIdPrefix(text) IN
         /\ i \in SessionIds /\ sessions[i] # None
         /\ text # i =>
              /\ Plain(text) => BeginsAs(text, i)
              /\ \A j \in SessionIds \ {i} : sessions[j] # None => ~BeginsAs(text, j)
<1>1. CASE text # <<>> /\ text \in Exists
  BY <1>1 DEF GetByIdPrefix, Exists
<1>2. CASE text # <<>> /\ text \notin Exists /\ Cardinality(Matches(text)) = 1
  <2>1. IsFiniteSet(Matches(text))
    BY SessionAssumption, FS_Subset DEF Matches, Exists
  <2>2. PICK i : Matches(text) = {i}
    BY <1>2, <2>1, FS_Singleton
  <2>3. GetByIdPrefix(text) = i
    BY <1>2, <2>2 DEF GetByIdPrefix
  <2>4. i \in SessionIds /\ sessions[i] # None /\ Like(Append(text, AnyText), i)
    BY <2>2 DEF Matches, LikeIds, Exists
  <2>5. Plain(text) => BeginsAs(text, i)
    BY <2>4, SessionAssumption, MatchesBegin
  <2>6. ASSUME NEW j \in SessionIds \ {i}, sessions[j] # None, BeginsAs(text, j) PROVE FALSE
    <3>1. Like(Append(text, AnyText), j)
      BY <2>6, SessionAssumption, BeginningsMatch
    <3> QED
      BY <2>2, <2>6, <3>1 DEF Matches, LikeIds, Exists
  <2> QED
    BY <2>3, <2>4, <2>5, <2>6
<1>3. CASE ~(text # <<>> /\ (text \in Exists \/ Cardinality(Matches(text)) = 1))
  BY <1>3 DEF GetByIdPrefix
<1> QED
  BY <1>1, <1>2, <1>3

LEMMA ResumeTells ==
  ASSUME CliTyped, TermsNumbered, NEW t \in Terminals, Resume(t), report' # None
  PROVE  Told(report')
<1>1. PICK text \in Typed :
        \/ Runs(t, "resume", text, 2, None)
        \/ GetByIdPrefix(text) # None /\ Runs(t, "resume", text, 0, GetByIdPrefix(text))
        \/ LaunchTui(t)
  BY DEF Resume
<1>2. CASE LaunchTui(t)
  BY <1>2 DEF LaunchTui, Begins
<1>3. CASE Runs(t, "resume", text, 2, None)
  BY <1>3, RunsTells DEF Resume, Nothing
<1>4. CASE GetByIdPrefix(text) # None /\ Runs(t, "resume", text, 0, GetByIdPrefix(text))
  <2>1. PICK i : i = GetByIdPrefix(text)
    OBVIOUS
  <2>2. /\ report'.op = "resume" /\ report'.code = 0
        /\ report'.arg = text /\ report'.out = i
    BY <1>4, <2>1 DEF Runs, Report
  <2>3. /\ sessions[i] # None
        /\ text # i =>
             /\ Plain(text) => BeginsAs(text, i)
             /\ \A j \in SessionIds \ {i} : sessions[j] # None => ~BeginsAs(text, j)
    BY <1>4, <2>1, ResolvedProps
  <2> QED
    BY <2>2, <2>3 DEF Told
<1> QED
  BY <1>1, <1>2, <1>3, <1>4

LEMMA ModelsTells ==
  ASSUME NEW t \in Terminals, ListModels(t)
  PROVE  Told(report')
<1>1. PICK all \in BOOLEAN, only \in Ids \cup {None}, configured \in {Configured, {}} :
        Runs(t, "models", [all |-> all, only |-> only, open |-> configured = Configured], 0,
             LoadModelsItems(only, all, configured))
  BY DEF ListModels
<1>2. PICK shown : shown = LoadModelsItems(only, all, configured)
  OBVIOUS
<1>3. /\ report'.op = "models" /\ report'.code = 0 /\ report'.out = shown
      /\ report'.arg.all = all /\ report'.arg.only = only
      /\ report'.arg.open <=> configured = Configured
  BY <1>1, <1>2 DEF Runs, Report
<1>4. ASSUME configured = Configured, NEW p \in Ids
      PROVE  p \in shown <=> /\ p \in WithModels
                             /\ all \/ \E l \in Labels : Held(<<p, l>>)
                             /\ only \in {None, p}
  <2>1. \A q : q \in Configured => \E l \in Labels : Held(<<q, l>>)
    BY DEF Configured, Names, Held
  <2>2. \A q \in Ids : (\E l \in Labels : Held(<<q, l>>)) => q \in Configured
    <3> SUFFICES ASSUME NEW q \in Ids, NEW l \in Labels, Held(<<q, l>>)
                 PROVE  q \in Configured
      OBVIOUS
    <3>1. <<q, l>> \in Names /\ <<q, l>>[1] = q
      BY DEF Names
    <3> QED
      BY <3>1 DEF Configured, Held
  <2>3. CASE only = None
    BY <1>2, <1>4, <2>1, <2>2, <2>3 DEF LoadModelsItems
  <2>4. CASE only # None
    BY <1>2, <1>4, <2>1, <2>2, <2>4 DEF LoadModelsItems
  <2> QED
    BY <2>3, <2>4
<1> QED
  BY <1>3, <1>4 DEF Told

\* A command that fails before its row is read again has made no key.
LEMMA FailureTells ==
  ASSUME CliTyped, Owned, NEW t \in Terminals, NEW phase, NEW code, NEW out,
         At(t, phase), phase # "readback", Nothing, Exits(t, code, out),
         phase \in {"wizard", "prompts", "add"} => code # 0
  PROVE  Told(report')
<1>1. /\ report'.n = term[t].n /\ report'.op = term[t].op /\ report'.code = code
      /\ term[t] # None /\ term[t].stage = phase
  BY DEF Exits, Report, At
<1>2. Made(report'.n) = {}
  BY <1>1 DEF Made, Owned, At
<1>3. UNCHANGED <<accounts, sessions>>
  BY DEF Nothing
<1>4. report'.op \in {"add", "chat"} /\ (report'.op = "add" => code # 0)
  BY <1>1 DEF CliTyped, AddTerm, ScreenTerm
<1> QED
  BY <1>1, <1>2, <1>3, <1>4 DEF Told

LEMMA ReadBackTells ==
  ASSUME CliTyped, Named, Owned, NEW t \in Terminals, AddReadBack(t)
  PROVE  Told(report')
<1> PICK x, a, m : x = term[t].args /\ a = <<x.provider, x.label>> /\ m = term[t].n
  OBVIOUS
<1>1. /\ At(t, "readback") /\ term[t] # None /\ term[t].op = "add"
      /\ a \in Names /\ a[1] = x.provider /\ a[2] = x.label
  BY StageProps DEF AddReadBack, Named, Names, At
<1>2. UNCHANGED <<accounts, sessions>>
  BY DEF AddReadBack, Nothing
<1>3. \A b \in Made(m) : b = a /\ endpoint[b] \in {x.endpoint, DefaultEndpoint(x.provider)}
  BY <1>1 DEF Made, Owned
<1>4. CASE Held(a) /\ Exits(t, 0, [name |-> a, endpoint |-> endpoint[a], row |-> accounts[a]])
  <2>1. PICK o : o = [name |-> a, endpoint |-> endpoint[a], row |-> accounts[a]]
    OBVIOUS
  <2>2. /\ report'.n = m /\ report'.op = "add" /\ report'.code = 0
        /\ report'.arg = x /\ report'.out = o
    BY <1>1, <1>4, <2>1 DEF Exits, Report
  <2>3. o.name = a /\ o.endpoint = endpoint[a]
    BY <2>1
  <2>4. Made(m) # {} => Made(m) = {a} /\ o.endpoint \in {x.endpoint, DefaultEndpoint(x.provider)}
    BY <1>3, <2>3
  <2> QED
    BY <1>1, <1>4, <2>2, <2>3, <2>4 DEF Told
<1>5. CASE ~Held(a) /\ Exits(t, 2, None)
  <2>1. /\ report'.n = m /\ report'.op = "add" /\ report'.code = 2
    BY <1>1, <1>5 DEF Exits, Report
  <2>2. Made(m) = {}
    BY <1>3, <1>5 DEF Made
  <2> QED
    BY <1>2, <2>1, <2>2 DEF Told
<1>6. CASE Exits(t, 2, "io")
  <2>1. report'.op = "add" /\ report'.code = 2 /\ report'.out = "io"
    BY <1>1, <1>6 DEF Exits, Report
  <2> QED
    BY <2>1 DEF Told
<1> QED
  BY <1>4, <1>5, <1>6 DEF AddReadBack

LEMMA StepTells ==
  ASSUME CommandsInv, NEW t \in Terminals, StepOf(t), report' # None
  PROVE  Told(report')
<1> USE DEF CommandsInv
<1>1. CASE Version(t)
  BY <1>1, RunsTells DEF Version
<1>2. CASE StateFails(t)
  <2>1. PICK op \in {"new", "sessions", "resume", "chat", "list", "remove", "use"} :
          Runs(t, op, None, 2, None)
    BY <1>2 DEF StateFails
  <2>2. UNCHANGED <<accounts, sessions>>
    BY <1>2 DEF StateFails, Nothing
  <2> QED
    BY <2>1, <2>2, RunsTells
<1>3. CASE Sessions(t)
  BY <1>3, RunsTells DEF Sessions
<1>4. CASE LoginList(t)
  BY <1>4, RunsTells DEF LoginList
<1>5. CASE Chat(t)
  <2>1. PICK text : LaunchTui(t) \/ Runs(t, "chat", text, 2, None)
    BY <1>5 DEF Chat
  <2>2. ~LaunchTui(t)
    BY DEF LaunchTui, Begins
  <2>3. UNCHANGED <<accounts, sessions>>
    BY <1>5 DEF Chat, Nothing
  <2> QED
    BY <2>1, <2>2, <2>3, RunsTells
<1>6. CASE New(t)
  <2>1. PICK i \in SessionIds :
          Runs(t, "new", Cwd[t], 0, i) \/ Runs(t, "new", Cwd[t], 2, "io")
    BY <1>6 DEF New
  <2> QED
    BY <2>1, RunsTells
<1>7. CASE Resume(t) \/ ListModels(t)
  BY <1>7, ResumeTells, ModelsTells
<1>8. CASE LeaveTui(t)
  BY <1>8, FailureTells DEF LeaveTui, At
<1>9. CASE LoginRemove(t)
  BY <1>9, RunsTells DEF LoginRemove, Nothing
<1>10. CASE LoginUse(t)
  BY <1>10, RunsTells DEF LoginUse, Nothing
<1>11. CASE AddBegin(t)
  BY <1>11 DEF AddBegin, Begins
<1>12. CASE WizardEnds(t)
  <2>1. At(t, "wizard") /\ Nothing
    BY <1>12 DEF WizardEnds
  <2>2. PICK code \in {130, 2} : Exits(t, code, None)
    BY <1>12 DEF WizardEnds, GoesOn
  <2> QED
    BY <2>1, <2>2, FailureTells
<1>13. CASE Prompt(t)
  BY <1>13, FailureTells DEF Prompt, GoesOn
<1>14. CASE AddStore(t)
  BY <1>14, FailureTells DEF AddStore, GoesOn
<1>15. CASE AddReadBack(t)
  BY <1>15, ReadBackTells
<1> QED
  BY <1>1, <1>2, <1>3, <1>4, <1>5, <1>6, <1>7, <1>8, <1>9, <1>10, <1>11,
     <1>12, <1>13, <1>14, <1>15 DEF StepOf

\* What a command reports when it ends is so: a failure changed nothing, login
\* add printed its own account or the one that took its place, a session was
\* resumed by a text that no other session's id begins with, and models are shown of exactly the
\* providers with an account: the run_* functions.
THEOREM ReportsAreTrue == Spec => ReportIsTrue
<1>1. CommandsInv /\ [Next]_vars =>
        [report' # None /\ report' # report => Told(report')]_vars
  BY StepTells DEF Next, StepOf
<1> QED
  BY <1>1, CliAlways, PTL DEF Spec, ReportIsTrue, Told

=============================================================================
