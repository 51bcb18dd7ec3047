----------------------------- MODULE AccountStore -----------------------------
(***************************************************************************)
(* What a credential store promises its callers: an account and its secret *)
(* appear and disappear together, each operation is one step, and a        *)
(* provider has at most one default account.  Translated from              *)
(* InMemoryCredentialStore, whose row map is guarded by one mutex.         *)
(* CredentialStore shows that SQLite plus a keyring implements it.         *)
(***************************************************************************)
EXTENDS Naturals

CONSTANTS
  Providers,
  Labels,
  Keys,      \* key ids; the secret itself is not told apart from its key id
  Times,     \* instants a cooldown may last until
  NoTime,    \* cooldown_until = None
  NoAccount  \* the map has no entry

VARIABLE accounts  \* the map (provider, label) -> account

Name == Providers \X Labels
Held(a) == accounts[a] # NoAccount

OfProvider(p) == {a \in Name : a[1] = p /\ Held(a)}

-----------------------------------------------------------------------------
Init == accounts = [a \in Name |-> NoAccount]

\* The default flags of a provider's other accounts go when a new default comes.
Demoted(a, d) ==
  [b \in Name |-> IF d /\ Held(b) /\ b[1] = a[1]
                  THEN [accounts[b] EXCEPT !.default = FALSE]
                  ELSE accounts[b]]

\* The first account of a provider is its default, asked for or not.
Add(a, k, d) ==
  /\ ~Held(a)
  /\ \A b \in Name : Held(b) => accounts[b].key # k
  /\ accounts' =
       [Demoted(a, d) EXCEPT
          ![a] = [key |-> k, default |-> d \/ OfProvider(a[1]) = {},
                  status |-> "active", until |-> NoTime]]

\* Removing the default leaves the provider without one.
Remove(a) ==
  /\ Held(a)
  /\ accounts' = [accounts EXCEPT ![a] = NoAccount]

SetDefault(a) ==
  /\ Held(a)
  /\ accounts' = [Demoted(a, TRUE) EXCEPT ![a].default = TRUE]

SetStatus(a, s, t) ==
  /\ Held(a)
  /\ accounts' = [accounts EXCEPT ![a].status = s, ![a].until = t]

MarkCooldown(a, t) == SetStatus(a, "cooldown", t)
MarkDead(a) == SetStatus(a, "dead", NoTime)
ClearStatus(a) == SetStatus(a, "active", NoTime)

Next ==
  \E a \in Name :
    \/ \E k \in Keys, d \in BOOLEAN : Add(a, k, d)
    \/ Remove(a)
    \/ SetDefault(a)
    \/ \E t \in Times : MarkCooldown(a, t)
    \/ MarkDead(a)
    \/ ClearStatus(a)

Spec == Init /\ [][Next]_accounts

-----------------------------------------------------------------------------
(* Property *)

\* A provider never has two default accounts.
\* (store.rs add and set_default: "Enforce single-default invariant".)
OneDefault ==
  \A a, b \in Name :
    /\ a[1] = b[1]
    /\ Held(a) /\ accounts[a].default
    /\ Held(b) /\ accounts[b].default
    => a = b
=============================================================================
