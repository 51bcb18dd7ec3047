---------------------------- MODULE CredentialStore ----------------------------
(***************************************************************************)
(* SqliteCredentialStore: account rows in SQLite, secrets in a keyring,    *)
(* no transaction over both.  add stores the secret, then inserts the row; *)
(* remove deletes the row, then the secret.  CLI processes come and go,    *)
(* run one operation after the other, and may be killed between two steps. *)
(*                                                                         *)
(* Two keyrings.  "os": the platform's service, one call is one step.      *)
(* "file": FileKeyringBackend, a JSON map read once when the process opens *)
(* the store, and written whole to a temporary file that is then renamed.  *)
(*                                                                         *)
(* An SQLite transaction is one step: SQLite serialises them.  Only steps  *)
(* that change something are modelled; a refused operation is none.        *)
(***************************************************************************)
EXTENDS Naturals, FiniteSets

CONSTANTS
  Procs,
  Backends,   \* keyrings in use: a subset of {"os", "file"}
  Shared,     \* keyrings that several processes use at the same time
  Providers,
  Labels,     \* numbers, in the order of ORDER BY label
  NoRow, NoTime, NoFile,
  MaxAdds,    \* bound: calls of add; also the number of key ids
  MaxTime     \* bound: the clock

ASSUME BackendsAssumption == Backends \subseteq {"os", "file"} /\ Shared \subseteq Backends
ASSUME LabelsAssumption == Labels \subseteq Nat
ASSUME BoundsAssumption == MaxAdds \in Nat /\ MaxTime \in Nat

VARIABLES
  backend,    \* the keyring of this installation
  row,        \* provider_accounts, by (provider, label)
  stored,     \* key ids whose secret is in the keyring (service or file)
  tmp,        \* contents of <path>.tmp, as key ids
  cache,      \* FileKeyringBackend.inner of each process
  at,         \* where each process stands in its operation, and its locals
  now,        \* Utc::now()
  adds,       \* calls of add so far: the last key id
  abandoned   \* history: key ids a kill or an error left without care

vars == <<backend, row, stored, tmp, cache, at, now, adds, abandoned>>

Name == Providers \X Labels
Keys == 1 .. MaxAdds
Times == 0 .. MaxTime
NoKey == 0

Row == [key : Keys, default : BOOLEAN,
        status : {"active", "cooldown", "dead"}, until : Times \cup {NoTime}]

ASSUME NoRowAssumption == NoRow \notin Row

\* pc: the next step; after: what follows the write of the keyring file;
\* name, key: the account and the key id in hand; default: set_default.
Local == [pc : {"closed", "idle", "insert", "unstore", "flush", "rename", "load"},
          after : {"insert", "idle"},
          name : Name \cup {<<>>}, key : Keys \cup {NoKey}, default : BOOLEAN]

\* A process between two operations has no locals.
Between(where) == [pc |-> where, after |-> "idle", name |-> <<>>, key |-> NoKey,
                   default |-> FALSE]

Exists(a) == row[a] # NoRow

-----------------------------------------------------------------------------
Init ==
  /\ backend \in Backends
  /\ row = [a \in Name |-> NoRow]
  /\ stored = {}
  /\ tmp = NoFile
  /\ cache = [p \in Procs |-> {}]
  /\ at = [p \in Procs |-> Between("closed")]
  /\ now = 0
  /\ adds = 0
  /\ abandoned = {}

Goto(p, where) == at' = [at EXCEPT ![p].pc = where]

\* An operation returns, and its locals are gone.
Return(p) == at' = [at EXCEPT ![p] = Between("idle")]

\* A process constructs its store: the file keyring is read here, once.
Open(p) ==
  /\ at[p].pc = "closed"
  /\ backend \in Shared \/ \A q \in Procs : at[q].pc = "closed"
  /\ Goto(p, "idle")
  /\ cache' = [cache EXCEPT ![p] = IF backend = "file" THEN stored ELSE {}]
  /\ UNCHANGED <<backend, row, stored, tmp, now, adds, abandoned>>

\* The process exits, or is killed between two steps of an operation.
Leave(p) ==
  /\ at[p].pc # "closed"
  /\ at' = [at EXCEPT ![p] = Between("closed")]
  /\ abandoned' = IF at[p].pc \in {"idle", "load"} THEN abandoned
                  ELSE abandoned \cup {at[p].key}
  /\ cache' = [cache EXCEPT ![p] = {}]
  /\ UNCHANGED <<backend, row, stored, tmp, now, adds>>

-----------------------------------------------------------------------------
(* The keyring.  A call replaces its contents: in the service at once, in    *)
(* the file by way of the map in memory and a flush.                         *)

Keyring(p) == IF backend = "os" THEN stored ELSE cache[p]

\* next: the process's at[p] when the call has returned.
KeyringCall(p, contents, next) ==
  IF backend = "os"
  THEN /\ stored' = contents
       /\ at' = [at EXCEPT ![p] = next]
       /\ UNCHANGED cache
  ELSE /\ cache' = [cache EXCEPT ![p] = contents]
       /\ at' = [at EXCEPT ![p] = [next EXCEPT !.pc = "flush", !.after = next.pc]]
       /\ UNCHANGED stored

\* FileKeyringBackend::flush: the whole map to the temporary file ...
FlushWrite(p) ==
  /\ at[p].pc = "flush"
  /\ tmp' = cache[p]
  /\ Goto(p, "rename")
  /\ UNCHANGED <<backend, row, stored, cache, now, adds, abandoned>>

\* ... which takes the place of the keyring file.
FlushRename(p) ==
  /\ at[p].pc = "rename"
  /\ tmp # NoFile
  /\ stored' = tmp
  /\ tmp' = NoFile
  /\ IF at[p].after = "idle" THEN Return(p) ELSE Goto(p, at[p].after)
  /\ UNCHANGED <<backend, row, cache, now, adds, abandoned>>

\* The write fails, or the rename does (another process may have renamed the
\* temporary file away).  A failed store is returned, a failed delete ignored;
\* the map in memory keeps its change either way.
FlushFails(p) ==
  /\ at[p].pc \in {"flush", "rename"}
  /\ Return(p)
  /\ abandoned' = abandoned \cup {at[p].key}
  /\ UNCHANGED <<backend, row, stored, tmp, cache, now, adds>>

-----------------------------------------------------------------------------
(* add *)

AddBegin(p, a, d) ==
  /\ at[p].pc = "idle"
  /\ adds < MaxAdds
  /\ adds' = adds + 1
  /\ KeyringCall(p, Keyring(p) \cup {adds + 1},
       [Between("insert") EXCEPT !.name = a, !.key = adds + 1, !.default = d])
  /\ UNCHANGED <<backend, row, tmp, now, abandoned>>

\* UPDATE ... SET is_default = 0 WHERE provider = p, when d.
Cleared(p, d) ==
  [b \in Name |-> IF d /\ b[1] = p /\ Exists(b)
                  THEN [row[b] EXCEPT !.default = FALSE] ELSE row[b]]

\* INSERT, and is_default = 1 when the provider's COUNT is then 1.
InsertInto(rows, a, k, d) ==
  [rows EXCEPT
     ![a] = [key |-> k,
             default |-> d \/ \A b \in Name : b[1] = a[1] => ~Exists(b),
             status |-> "active", until |-> NoTime]]

\* Mutant: the flags of the other accounts are not cleared.
InsertedBesideDefault(a, k, d) == InsertInto(row, a, k, d)

\* Mutant: the row names the key id of the next account.
InsertedNextKey(a, k, d) == InsertInto(Cleared(a[1], d), a, k + 1, d)

Inserted(a, k, d) == InsertInto(Cleared(a[1], d), a, k, d)

AddInsert(p) ==
  /\ at[p].pc = "insert"
  /\ ~Exists(at[p].name)
  /\ row' = Inserted(at[p].name, at[p].key, at[p].default)
  /\ Return(p)
  /\ UNCHANGED <<backend, stored, tmp, cache, now, adds, abandoned>>

\* Mutant: a refused insert leaves the secret where it is.
AddRefusedKeepsSecret(p) ==
  /\ at[p].pc = "insert"
  /\ Return(p)
  /\ UNCHANGED <<backend, row, stored, tmp, cache, now, adds, abandoned>>

\* The INSERT is refused (the name is taken, or SQLite fails): the secret is to
\* be deleted.  The transaction is rolled back with what it had cleared.
AddRefused(p) ==
  /\ at[p].pc = "insert"
  /\ Goto(p, "unstore")
  /\ UNCHANGED <<backend, row, stored, tmp, cache, now, adds, abandoned>>

\* Any other step fails (connection, UPDATE, COUNT, COMMIT): the error is
\* returned at once and the secret stays.
AddFails(p) ==
  /\ at[p].pc = "insert"
  /\ Return(p)
  /\ abandoned' = abandoned \cup {at[p].key}
  /\ UNCHANGED <<backend, row, stored, tmp, cache, now, adds>>

-----------------------------------------------------------------------------
(* remove *)

\* Mutant: the secret goes first, as it is stored first, and the row stays when
\* the process is killed in between.
RemoveRowLast(p, a) ==
  /\ at[p].pc = "idle"
  /\ Exists(a)
  /\ KeyringCall(p, Keyring(p) \ {row[a].key},
                 [Between("idle") EXCEPT !.key = row[a].key])
  /\ UNCHANGED <<backend, row, tmp, now, adds, abandoned>>

RemoveRow(p, a) ==
  /\ at[p].pc = "idle"
  /\ Exists(a)
  /\ row' = [row EXCEPT ![a] = NoRow]
  /\ at' = [at EXCEPT ![p] = [Between("unstore") EXCEPT !.key = row[a].key]]
  /\ UNCHANGED <<backend, stored, tmp, cache, now, adds, abandoned>>

\* The secret of a removed or refused account: best effort.
Unstore(p) ==
  /\ at[p].pc = "unstore"
  /\ KeyringCall(p, Keyring(p) \ {at[p].key},
                 [Between("idle") EXCEPT
                    !.key = IF backend = "file" THEN at[p].key ELSE NoKey])
  /\ UNCHANGED <<backend, row, tmp, now, adds, abandoned>>

UnstoreFails(p) ==
  /\ at[p].pc = "unstore"
  /\ backend = "os"
  /\ Return(p)
  /\ abandoned' = abandoned \cup {at[p].key}
  /\ UNCHANGED <<backend, row, stored, tmp, cache, now, adds>>

-----------------------------------------------------------------------------
(* Operations on one row: a transaction or a single statement each *)

Update(p, a, r) ==
  /\ at[p].pc = "idle"
  /\ Exists(a)
  /\ row' = r
  /\ UNCHANGED <<backend, stored, tmp, cache, at, now, adds, abandoned>>

SetDefault(p, a) ==
  Update(p, a, [Cleared(a[1], TRUE) EXCEPT ![a].default = TRUE])

MarkCooldown(p, a, t) ==
  Update(p, a, [row EXCEPT ![a].status = "cooldown", ![a].until = t])

MarkDead(p, a) ==
  Update(p, a, [row EXCEPT ![a].status = "dead", ![a].until = NoTime])

\* Mutant: cooldown_until is left as it was.
ClearStatusOnly(p, a) == Update(p, a, [row EXCEPT ![a].status = "active"])

ClearStatus(p, a) ==
  Update(p, a, [row EXCEPT ![a].status = "active", ![a].until = NoTime])

-----------------------------------------------------------------------------
(* resolve and load_key: the row first, then the secret *)

Eligible(a) ==
  \/ row[a].status = "active"
  \/ row[a].status = "cooldown" /\ (row[a].until = NoTime \/ now >= row[a].until)

\* Nothing writes last_used_at, so min_by_key takes the first eligible label.
Chosen(a) ==
  /\ Exists(a) /\ Eligible(a)
  /\ \A b \in Name : b[1] = a[1] /\ b[2] < a[2] => ~(Exists(b) /\ Eligible(b))

ReadRow(p, a) ==
  /\ at[p].pc = "idle"
  /\ at' = [at EXCEPT ![p] = [Between("load") EXCEPT !.name = a,
                                                     !.key = row[a].key]]
  /\ UNCHANGED <<backend, row, stored, tmp, cache, now, adds, abandoned>>

Resolve(p, a) == Chosen(a) /\ ReadRow(p, a)
LoadKey(p, a) == Exists(a) /\ ReadRow(p, a)

\* The secret, or OrphanedKey.
LoadSecret(p) ==
  /\ at[p].pc = "load"
  /\ Return(p)
  /\ UNCHANGED <<backend, row, stored, tmp, cache, now, adds, abandoned>>

Tick ==
  /\ now < MaxTime
  /\ now' = now + 1
  /\ UNCHANGED <<backend, row, stored, tmp, cache, at, adds, abandoned>>

Next ==
  \/ \E p \in Procs :
       \/ Open(p) \/ Leave(p)
       \/ FlushWrite(p) \/ FlushRename(p) \/ FlushFails(p)
       \/ \E a \in Name, d \in BOOLEAN : AddBegin(p, a, d)
       \/ AddInsert(p) \/ AddRefused(p) \/ AddFails(p)
       \/ \E a \in Name : RemoveRow(p, a)
       \/ Unstore(p) \/ UnstoreFails(p)
       \/ \E a \in Name : SetDefault(p, a)
       \/ \E a \in Name, t \in Times : MarkCooldown(p, a, t)
       \/ \E a \in Name : MarkDead(p, a)
       \/ \E a \in Name : ClearStatus(p, a)
       \/ \E a \in Name : Resolve(p, a)
       \/ \E a \in Name : LoadKey(p, a)
       \/ LoadSecret(p)
  \/ Tick

Spec == Init /\ [][Next]_vars

-----------------------------------------------------------------------------
(* Properties *)

TypeOK ==
  /\ backend \in Backends
  /\ row \in [Name -> Row \cup {NoRow}]
  /\ stored \subseteq Keys
  /\ tmp \in (SUBSET Keys) \cup {NoFile}
  /\ cache \in [Procs -> SUBSET Keys]
  /\ at \in [Procs -> Local]
  /\ now \in Times
  /\ adds \in 0 .. MaxAdds
  /\ abandoned \subseteq Keys

\* What callers can use: a row together with its secret.
Usable == [a \in Name |-> IF Exists(a) /\ row[a].key \in stored THEN row[a]
                          ELSE NoRow]

Promise == INSTANCE AccountStore WITH accounts <- Usable, NoAccount <- NoRow

\* Whatever is killed and whatever fails, account and secret come and go as one
\* and every operation is one step of the in-memory store.
\* (sqlite.rs, Atomicity: keyring first in add, row first in remove.)
ImplementsAccountStore == Promise!Spec

\* A provider never has two default accounts.
\* (sqlite.rs add and set_default: clear, then set, in one transaction.)
OneDefault == Promise!OneDefault

\* No row is left without its secret.  (sqlite.rs add, remove.)
EveryRowHasItsSecret == \A a \in Name : Exists(a) => row[a].key \in stored

\* A secret in the keyring belongs to a row, to an operation in progress, or to
\* one that was killed or failed: the normal paths leave no secret behind.
\* (sqlite.rs add's roll back, remove.)
SecretsAccounted ==
  stored \subseteq {row[a].key : a \in {b \in Name : Exists(b)}}
                 \cup {at[p].key : p \in {q \in Procs :
                           at[q].pc \notin {"closed", "idle", "load"}}}
                 \cup abandoned

\* An account that was chosen and is still there can be used: OrphanedKey means
\* that it was removed in the meantime.  (sqlite.rs resolve, load_key.)
ChosenKeyLoads ==
  \A p \in Procs :
    /\ at[p].pc = "load"
    /\ Exists(at[p].name) /\ row[at[p].name].key = at[p].key
    => at[p].key \in Keyring(p)

=============================================================================
