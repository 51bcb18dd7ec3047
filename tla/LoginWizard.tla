----------------------------- MODULE LoginWizard -----------------------------
(***************************************************************************)
(* The login wizard of `mscode login add`: pick a provider (or the custom  *)
(* row and a free-form name), name the account, type the secret.  Esc      *)
(* retreats one step, Ctrl-C cancels anywhere.                             *)
(***************************************************************************)
EXTENDS Picker

CONSTANTS
  Providers,    \* catalog rows: a sequence of [id, target, custom |-> FALSE]
  CustomItem,   \* the sentinel row, [id, target, custom |-> TRUE]
  Chars,        \* characters that can be typed
  Width,        \* Width[c]: bytes of c in UTF-8
  CustomPrefix, \* the "custom:" a name may start with, as one character
  NoResult,
  MaxQuery,     \* bound: characters of the query
  MaxText       \* MaxText[s], bound: characters of the field step s edits

ASSUME WidthAssumption == \A c \in Chars : Width[c] \in Nat \ {0}

VARIABLES
  step,        \* WizardStep
  picker,      \* ProviderPicker
  field,       \* the three TextInputs: value and byte cursor
  choseCustom,
  confirmed    \* history: the row the user last pressed Enter on

wizardVars == <<step, picker, field, choseCustom, confirmed>>

Steps ==
  {"Provider", "CustomProvider", "Label", "Secret", "Done", "Cancelled"}

(* The steps that edit a field, and the field they edit. *)
EditSteps == {"CustomProvider", "Label", "Secret"}

Items == Append(Providers, CustomItem)

(* NoResult stands for None. *)
ASSUME ItemsAssumption ==
  LET ids == {item.id : item \in ToSet(Items)}
      names == Seq(Chars \cup {CustomPrefix})
  IN  /\ Providers \in Seq(ToSet(Providers))
      /\ NoResult \notin ids
      /\ NoResult \notin names
      /\ NoResult \notin [provider : ids, label : names, secret : names]
      /\ NoResult \notin [provider : names, label : names, secret : names]

-----------------------------------------------------------------------------
(* TextInput: a value and a byte cursor into it. *)

NewInput == [value |-> <<>>, cursor |-> 0]

(* Offsets(s)[k]: the bytes of the first k characters. *)
Offsets(s) ==
  LET at[k \in 0..Len(s)] == IF k = 0 THEN 0 ELSE at[k - 1] + Width[s[k]] IN at

Bytes(s) == Offsets(s)[Len(s)]

(* The characters before the cursor; the code slices value[..cursor], which
   panics when the cursor is not on a boundary. *)
Before(t) ==
  LET k == CHOOSE k \in 0..Len(t.value) : Offsets(t.value)[k] = t.cursor
  IN  SubSeq(t.value, 1, k)

After(t) == SubSeq(t.value, Len(Before(t)) + 1, Len(t.value))

Insert(t, c) ==
  [value |-> Before(t) \o <<c>> \o After(t), cursor |-> t.cursor + Width[c]]

(* A mistake: the cursor goes back one byte, whatever the character. *)
BackspaceOneByte(t) ==
  IF t.cursor = 0 THEN t
  ELSE [value |-> Front(Before(t)) \o After(t), cursor |-> t.cursor - 1]

Backspace(t) ==
  IF t.cursor = 0 THEN t
  ELSE [value  |-> Front(Before(t)) \o After(t),
        cursor |-> t.cursor - Width[Last(Before(t))]]

MoveLeft(t) ==
  IF t.cursor = 0 THEN t
  ELSE [t EXCEPT !.cursor = @ - Width[Last(Before(t))]]

MoveRight(t) ==
  IF Len(After(t)) > 1 THEN [t EXCEPT !.cursor = @ + Width[Head(After(t))]]
  ELSE [t EXCEPT !.cursor = Bytes(t.value)]

-----------------------------------------------------------------------------
(* LoginWizard *)

WizardInit ==
  /\ step = "Provider"
  /\ picker = NewPicker(Items)
  /\ field = [s \in EditSteps |-> NewInput]
  /\ choseCustom = FALSE
  /\ confirmed = NoCursor

CtrlC ==
  /\ step' = "Cancelled"
  /\ UNCHANGED <<picker, field, choseCustom, confirmed>>

(* handle_provider_key *)
ProviderEsc ==
  /\ step = "Provider"
  /\ step' = "Cancelled"
  /\ UNCHANGED <<picker, field, choseCustom, confirmed>>

(* A mistake: the route through the custom row is never forgotten. *)
EverCustom(item) == item.custom \/ choseCustom

RoutedCustom(item) == item.custom

ProviderEnter ==
  /\ step = "Provider"
  /\ HasSelection(picker)
  /\ choseCustom' = RoutedCustom(Items[Selected(picker)])
  /\ step' = IF Items[Selected(picker)].custom THEN "CustomProvider"
                                              ELSE "Label"
  /\ confirmed' = Selected(picker)
  /\ UNCHANGED <<picker, field>>

ProviderBrowse ==
  /\ step = "Provider"
  /\ \/ picker' = MoveUp(picker)
     \/ picker' = MoveDown(picker)
     \/ picker' = PopQuery(picker, Items)
     \/ picker' = WithQuery(Items, <<>>)
     \/ \E c \in Chars :
          /\ Len(picker.query) < MaxQuery
          /\ picker' = PushQuery(picker, Items, c)
  /\ UNCHANGED <<step, field, choseCustom, confirmed>>

(* handle_custom_provider_key, handle_label_key, handle_secret_key: where Esc
   goes, when Enter goes on, and the editing keys they share. *)
Previous ==
  CASE step = "CustomProvider" -> "Provider"
    [] step = "Label" -> IF choseCustom THEN "CustomProvider" ELSE "Provider"
    [] step = "Secret" -> "Label"

FieldEsc ==
  /\ step \in EditSteps
  /\ step' = Previous
  /\ UNCHANGED <<picker, field, choseCustom, confirmed>>

Following ==
  [CustomProvider |-> "Label", Label |-> "Secret", Secret |-> "Done"]

FieldEnter ==
  /\ step \in EditSteps
  /\ LET typed == field[step].value
     IN  IF step = "Secret" THEN typed # <<>> ELSE ~IsBlankText(typed)
  /\ step' = Following[step]
  /\ UNCHANGED <<picker, field, choseCustom, confirmed>>

FieldEdit ==
  /\ step \in EditSteps
  /\ \/ field' = [field EXCEPT ![step] = Backspace(@)]
     \/ field' = [field EXCEPT ![step] = MoveLeft(@)]
     \/ field' = [field EXCEPT ![step] = MoveRight(@)]
     \/ field' = [field EXCEPT ![step] = NewInput]
     \/ \E c \in Chars :
          /\ Len(field[step].value) < MaxText[step]
          /\ field' = [field EXCEPT ![step] = Insert(@, c)]
  /\ UNCHANGED <<step, picker, choseCustom, confirmed>>
WizardNext ==
  \/ CtrlC
  \/ ProviderEsc \/ ProviderEnter \/ ProviderBrowse
  \/ FieldEsc \/ FieldEnter \/ FieldEdit

-----------------------------------------------------------------------------

(* provider_id, from the state alone *)
ProviderId ==
  LET raw == Trim(field["CustomProvider"].value) IN
  CASE step \notin {"Label", "Secret", "Done"} -> NoResult
    [] choseCustom -> IF raw = <<>> THEN NoResult
                      ELSE IF Head(raw) = CustomPrefix THEN raw
                      ELSE <<CustomPrefix>> \o raw
    [] OTHER -> IF HasSelection(picker) THEN Items[Selected(picker)].id
                                        ELSE NoResult

Result ==
  IF step # "Done" \/ ProviderId = NoResult THEN NoResult
  ELSE [provider |-> ProviderId,
        label    |-> Trim(field["Label"].value),
        secret   |-> field["Secret"].value]

-----------------------------------------------------------------------------

(* What the wizard returns when it finishes is what the user last confirmed:
   however often Esc led back and another row or name was chosen, the provider
   is the confirmed catalog row, or the custom name with its prefix if the
   confirmed row was the sentinel; label and secret are not empty.
   (LoginWizard::result, provider_id) *)
ResultIsConfirmed ==
  step = "Done" =>
    /\ Result # NoResult
    /\ IF Items[confirmed].custom
       THEN /\ Head(Result.provider) = CustomPrefix
            /\ ~IsBlankText(field["CustomProvider"].value)
       ELSE Result.provider = Items[confirmed].id
    /\ Result.label # <<>>
    /\ Result.secret # <<>>

(* The byte cursor of each field lies on a character boundary, where the code
   may slice the value: String::insert and value[..cursor] panic elsewhere.
   (TextInput) *)
CursorOnBoundary ==
  \A s \in EditSteps :
    \E k \in 0..Len(field[s].value) : Offsets(field[s].value)[k] = field[s].cursor
=============================================================================
