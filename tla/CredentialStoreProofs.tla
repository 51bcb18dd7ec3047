------------------------- MODULE CredentialStoreProofs -------------------------
(***************************************************************************)
(* Proofs about CredentialStore for every set of processes, providers and  *)
(* labels, every choice of keyrings and every bound.                       *)
(***************************************************************************)
EXTENDS CredentialStore, TLAPS

\* Steps that hold a key id in hand.
Working == {"insert", "unstore", "flush", "rename"}

\* The key id in hand, and the account of an add or a load, are there.
Ready(l) ==
  /\ l.pc \in Working => l.key \in Keys
  /\ l.pc \in {"insert", "load"} \/ l.after = "insert" => l.name \in Name

LocalsReady == \A p \in Procs : Ready(at[p])

Typed == TypeOK /\ LocalsReady

-----------------------------------------------------------------------------
(* Type correctness *)

\* A step of one process to locals that are typed and ready.
LEMMA LocalsSet ==
  ASSUME Typed, NEW p \in Procs, NEW l \in Local, Ready(l),
         at' = [at EXCEPT ![p] = l]
  PROVE  at' \in [Procs -> Local] /\ LocalsReady'
BY DEF Typed, TypeOK, LocalsReady, Ready

\* Between operations, everything is in order.
LEMMA BetweenReady ==
  ASSUME NEW where \in {"closed", "idle"}
  PROVE  Between(where) \in Local /\ Ready(Between(where))
BY DEF Between, Local, Ready, Working

\* A keyring call keeps the types of what it changes.
\* (keyring_backend.rs: store, delete.)
LEMMA KeyringCallTyped ==
  ASSUME Typed, NEW p \in Procs, NEW contents \in SUBSET Keys, NEW next \in Local,
         next.pc \in {"insert", "idle"},
         next.key \in Keys \/ (next.pc = "idle" /\ backend = "os"),
         next.pc = "insert" => next.name \in Name,
         next.after = "idle", KeyringCall(p, contents, next)
  PROVE  /\ stored' \subseteq Keys
         /\ cache' \in [Procs -> SUBSET Keys]
         /\ at' \in [Procs -> Local]
         /\ LocalsReady'
<1> DEFINE flush == [next EXCEPT !.pc = "flush", !.after = next.pc]
<1>1. flush \in Local
  BY DEF Local
<1>2. CASE backend = "os"
  <2>1. Ready(next)
    BY DEF Ready, Working
  <2> QED
    BY <1>2, <2>1, LocalsSet DEF KeyringCall, Typed, TypeOK
<1>3. CASE backend # "os"
  <2>1. Ready(flush)
    BY <1>3 DEF Ready, Working, Local
  <2> HIDE DEF flush
  <2>2. at' = [at EXCEPT ![p] = flush]
    BY <1>3 DEF KeyringCall, flush
  <2> QED
    BY <1>1, <1>3, <2>1, <2>2, LocalsSet DEF KeyringCall, Typed, TypeOK
<1> QED
  BY <1>2, <1>3

\* What an insert makes of the table is a table.  (sqlite.rs: add.)
LEMMA InsertedTyped ==
  ASSUME TypeOK, NEW a \in Name, NEW k \in Keys, NEW d \in BOOLEAN
  PROVE  Inserted(a, k, d) \in [Name -> Row \cup {NoRow}]
<1> DEFINE first == d \/ \A b \in Name : b[1] = a[1] => ~Exists(b)
<1>1. Cleared(a[1], d) \in [Name -> Row \cup {NoRow}]
  BY DEF TypeOK, Cleared, Exists, Row
<1>2. [key |-> k, default |-> first, status |-> "active", until |-> NoTime] \in Row
  <2>1. first \in BOOLEAN
    OBVIOUS
  <2> HIDE DEF first
  <2> QED
    BY <2>1 DEF Row
<1> QED
  BY <1>1, <1>2 DEF Inserted, InsertInto

\* One transaction or statement on the row of an existing account.
RowOperation(p, a) ==
  \/ SetDefault(p, a)
  \/ \E t \in Times : MarkCooldown(p, a, t)
  \/ MarkDead(p, a)
  \/ ClearStatus(p, a)

\* The operations on one row keep the type of the table.  (sqlite.rs.)
LEMMA RowOperationTyped ==
  ASSUME TypeOK, NEW p \in Procs, NEW a \in Name, RowOperation(p, a)
  PROVE  row' \in [Name -> Row \cup {NoRow}]
<1>1. row[a] \in Row
  BY DEF RowOperation, SetDefault, MarkCooldown, MarkDead, ClearStatus, Update,
     Exists, TypeOK
<1>2. CASE SetDefault(p, a)
  BY <1>1, <1>2 DEF SetDefault, Update, Cleared, Exists, TypeOK, Row
<1>3. CASE ~SetDefault(p, a)
  BY <1>1, <1>3 DEF RowOperation, MarkCooldown, MarkDead, ClearStatus, Update,
     TypeOK, Row
<1> QED
  BY <1>2, <1>3

\* The store starts with empty, typed tables.  (migrations.rs; new.)
LEMMA InitTyped == Init => Typed
<1> SUFFICES ASSUME Init PROVE Typed
  OBVIOUS
<1>1. 0 \in Times /\ 0 \in 0 .. MaxAdds /\ Between("closed") \in Local
  BY BoundsAssumption DEF Times, Between, Local
<1> QED
  BY <1>1, BetweenReady DEF Init, Typed, TypeOK, LocalsReady

\* Every step keeps the types.  (sqlite.rs, keyring_backend.rs.)
LEMMA TypedStep == Typed /\ [Next]_vars => Typed'
<1> SUFFICES ASSUME Typed, [Next]_vars PROVE Typed'
  OBVIOUS
<1>1. ASSUME NEW p \in Procs, Open(p) PROVE Typed'
  BY <1>1 DEF Open, Goto, Typed, TypeOK, LocalsReady, Ready, Local, Working
<1>2. ASSUME NEW p \in Procs, Leave(p) PROVE Typed'
  <2>1. abandoned' \subseteq Keys
    BY <1>2 DEF Leave, Typed, TypeOK, LocalsReady, Ready, Local, Working
  <2> QED
    BY <1>2, <2>1, LocalsSet, BetweenReady DEF Leave, Typed, TypeOK
<1>3. ASSUME NEW p \in Procs, FlushWrite(p) PROVE Typed'
  BY <1>3 DEF FlushWrite, Goto, Typed, TypeOK, LocalsReady, Ready, Local, Working
<1>4. ASSUME NEW p \in Procs, FlushRename(p) PROVE Typed'
  <2>1. at' \in [Procs -> Local] /\ LocalsReady'
    <3>1. CASE at[p].after = "idle"
      BY <1>4, <3>1, LocalsSet, BetweenReady DEF FlushRename, Return
    <3>2. CASE at[p].after # "idle"
      BY <1>4, <3>2 DEF FlushRename, Goto, Typed, TypeOK, LocalsReady, Ready, Local,
         Working
    <3> QED
      BY <3>1, <3>2
  <2> QED
    BY <1>4, <2>1 DEF FlushRename, Typed, TypeOK
<1>5. ASSUME NEW p \in Procs, FlushFails(p) \/ AddFails(p) \/ UnstoreFails(p)
      PROVE  Typed'
  <2>1. abandoned' \subseteq Keys
    BY <1>5 DEF FlushFails, AddFails, UnstoreFails, Typed, TypeOK, LocalsReady,
       Ready, Working
  <2> QED
    BY <1>5, <2>1, LocalsSet, BetweenReady
    DEF FlushFails, AddFails, UnstoreFails, Return, Typed, TypeOK
<1>6. ASSUME NEW p \in Procs, NEW a \in Name, NEW d \in BOOLEAN, AddBegin(p, a, d)
      PROVE  Typed'
  <2> DEFINE next == [Between("insert") EXCEPT !.name = a, !.key = adds + 1,
                                               !.default = d]
         contents == Keyring(p) \cup {adds + 1}
  <2>1. adds + 1 \in Keys /\ adds' \in 0 .. MaxAdds
    BY <1>6, BoundsAssumption DEF AddBegin, Keys, Typed, TypeOK
  <2>2. /\ next \in Local /\ next.pc = "insert" /\ next.after = "idle"
        /\ next.name = a /\ next.key = adds + 1
    BY <2>1 DEF Between, Local
  <2>3. contents \in SUBSET Keys
    BY <2>1 DEF Keyring, Typed, TypeOK
  <2>4. KeyringCall(p, contents, next)
    BY <1>6 DEF AddBegin
  <2> HIDE DEF next, contents
  <2>5. /\ stored' \subseteq Keys /\ cache' \in [Procs -> SUBSET Keys]
        /\ at' \in [Procs -> Local] /\ LocalsReady'
    BY <2>1, <2>2, <2>3, <2>4, KeyringCallTyped
  <2> QED
    BY <1>6, <2>1, <2>5 DEF AddBegin, Typed, TypeOK
<1>7. ASSUME NEW p \in Procs, AddInsert(p) PROVE Typed'
  <2>1. row' \in [Name -> Row \cup {NoRow}]
    BY <1>7, InsertedTyped
    DEF AddInsert, Typed, TypeOK, LocalsReady, Ready, Working, Local
  <2> QED
    BY <1>7, <2>1, LocalsSet, BetweenReady DEF AddInsert, Return, Typed, TypeOK
<1>8. ASSUME NEW p \in Procs, AddRefused(p) PROVE Typed'
  BY <1>8 DEF AddRefused, Goto, Typed, TypeOK, LocalsReady, Ready, Local, Working
<1>9. ASSUME NEW p \in Procs, NEW a \in Name, RemoveRow(p, a) PROVE Typed'
  <2> DEFINE next == [Between("unstore") EXCEPT !.key = row[a].key]
  <2>1. row[a].key \in Keys
    BY <1>9 DEF RemoveRow, Exists, Row, Typed, TypeOK
  <2>2. next \in Local /\ Ready(next)
    BY <2>1 DEF Between, Local, Ready, Working
  <2>3. at' = [at EXCEPT ![p] = next]
    BY <1>9 DEF RemoveRow
  <2> HIDE DEF next
  <2> QED
    BY <1>9, <2>2, <2>3, LocalsSet DEF RemoveRow, Typed, TypeOK
<1>10. ASSUME NEW p \in Procs, Unstore(p) PROVE Typed'
  <2> DEFINE next == [Between("idle") EXCEPT
                        !.key = IF backend = "file" THEN at[p].key ELSE NoKey]
         contents == Keyring(p) \ {at[p].key}
  <2>1. at[p].key \in Keys /\ backend \in {"os", "file"}
    BY <1>10, BackendsAssumption
    DEF Unstore, Typed, TypeOK, LocalsReady, Ready, Working
  <2>2. /\ next \in Local /\ next.pc = "idle" /\ next.after = "idle"
        /\ next.key \in Keys \/ backend = "os"
    BY <2>1 DEF Between, Local
  <2>3. contents \in SUBSET Keys
    BY DEF Keyring, Typed, TypeOK
  <2>4. KeyringCall(p, contents, next)
    BY <1>10 DEF Unstore
  <2> HIDE DEF next, contents
  <2>5. /\ stored' \subseteq Keys /\ cache' \in [Procs -> SUBSET Keys]
        /\ at' \in [Procs -> Local] /\ LocalsReady'
    BY <2>2, <2>3, <2>4, KeyringCallTyped
  <2> QED
    BY <1>10, <2>5 DEF Unstore, Typed, TypeOK
<1>11. ASSUME NEW p \in Procs, LoadSecret(p) PROVE Typed'
  BY <1>11, LocalsSet, BetweenReady DEF LoadSecret, Return, Typed, TypeOK
<1>12. ASSUME NEW p \in Procs, NEW a \in Name, RowOperation(p, a) PROVE Typed'
  BY <1>12, RowOperationTyped DEF RowOperation, SetDefault, MarkCooldown, MarkDead,
     ClearStatus, Update, Typed, TypeOK, LocalsReady
<1>13. ASSUME NEW p \in Procs, NEW a \in Name, Resolve(p, a) \/ LoadKey(p, a)
       PROVE  Typed'
  <2> DEFINE next == [Between("load") EXCEPT !.name = a, !.key = row[a].key]
  <2>1. row[a].key \in Keys
    BY <1>13 DEF Resolve, LoadKey, Chosen, Exists, Row, Typed, TypeOK
  <2>2. next \in Local /\ Ready(next)
    BY <2>1 DEF Between, Local, Ready, Working
  <2>3. at' = [at EXCEPT ![p] = next]
    BY <1>13 DEF Resolve, LoadKey, ReadRow
  <2> HIDE DEF next
  <2> QED
    BY <1>13, <2>2, <2>3, LocalsSet DEF Resolve, LoadKey, ReadRow, Typed, TypeOK
<1>14. CASE Tick
  BY <1>14, BoundsAssumption DEF Tick, Times, Typed, TypeOK, LocalsReady
<1>15. CASE UNCHANGED vars
  BY <1>15 DEF vars, Typed, TypeOK, LocalsReady
<1> QED
  BY <1>1, <1>2, <1>3, <1>4, <1>5, <1>6, <1>7, <1>8, <1>9, <1>10, <1>11, <1>12,
     <1>13, <1>14, <1>15 DEF Next, RowOperation

\* The types with what makes them inductive.
LEMMA AlwaysTyped == Spec => []Typed
  BY InitTyped, TypedStep, PTL DEF Spec

\* Every variable keeps its type.
THEOREM TypeCorrect == Spec => []TypeOK
<1>1. Typed => TypeOK
  BY DEF Typed
<1> QED
  BY <1>1, AlwaysTyped, PTL

-----------------------------------------------------------------------------
(* One default account *)

\* Over all rows, with or without their secret.
RowsOneDefault ==
  \A a, b \in Name :
    /\ a[1] = b[1]
    /\ Exists(a) /\ row[a].default
    /\ Exists(b) /\ row[b].default
    => a = b

\* An insert leaves one default account at most: the flags of the others go, or
\* the new account is not the default, or there is no other account.
\* (sqlite.rs: add.)
LEMMA InsertedOneDefault ==
  ASSUME TypeOK, RowsOneDefault, NEW a \in Name, NEW k \in Keys, NEW d \in BOOLEAN,
         ~Exists(a), row' = Inserted(a, k, d)
  PROVE  RowsOneDefault'
<1> DEFINE first == d \/ \A b \in Name : b[1] = a[1] => ~Exists(b)
<1>1. row'[a].default = first
  BY DEF Inserted, InsertInto, Cleared
<1>2. ASSUME NEW b \in Name, b # a, (Exists(b))', row'[b].default
      PROVE  Exists(b) /\ row[b].default /\ (b[1] = a[1] => ~first)
  BY <1>2 DEF Inserted, InsertInto, Cleared, Exists, TypeOK, Row
<1> HIDE DEF first
<1> QED
  BY <1>1, <1>2 DEF RowsOneDefault

\* Operations on one row keep one default account at most.
\* (sqlite.rs: set_default, mark_cooldown, mark_dead, clear_status.)
LEMMA RowOperationOneDefault ==
  ASSUME TypeOK, RowsOneDefault, NEW p \in Procs, NEW a \in Name, RowOperation(p, a)
  PROVE  RowsOneDefault'
<1>1. CASE SetDefault(p, a)
  <2>1. ASSUME NEW b \in Name, b # a, b[1] = a[1], (Exists(b))'
        PROVE  ~row'[b].default
    BY <1>1, <2>1 DEF SetDefault, Update, Cleared, Exists, TypeOK, Row
  <2>2. ASSUME NEW b \in Name, b[1] # a[1]
        PROVE  row'[b] = row[b]
    BY <1>1, <2>2 DEF SetDefault, Update, Cleared, Exists, TypeOK
  <2> QED
    BY <2>1, <2>2 DEF RowsOneDefault, Exists
<1>2. CASE ~SetDefault(p, a)
  <2>1. Exists(a) /\ row[a] \in Row
    BY <1>2 DEF RowOperation, MarkCooldown, MarkDead, ClearStatus, Update, Exists,
       TypeOK
  <2>2. row'[a].default = row[a].default
    BY <1>2, <2>1 DEF RowOperation, MarkCooldown, MarkDead, ClearStatus, Update,
       TypeOK, Row
  <2>3. \A b \in Name : b # a => row'[b] = row[b]
    BY <1>2 DEF RowOperation, MarkCooldown, MarkDead, ClearStatus, Update, TypeOK
  <2> QED
    BY <2>1, <2>2, <2>3 DEF RowsOneDefault, Exists
<1> QED
  BY <1>1, <1>2

\* No provider ever has two default accounts, whichever keyring is in use and
\* whatever is killed or fails.  (sqlite.rs: add, set_default.)
THEOREM OneDefaultHolds == Spec => []OneDefault
<1>1. Init => RowsOneDefault
  BY DEF Init, RowsOneDefault, Exists
<1>2. Typed /\ RowsOneDefault /\ [Next]_vars => RowsOneDefault'
  <2> SUFFICES ASSUME Typed, RowsOneDefault, [Next]_vars PROVE RowsOneDefault'
    OBVIOUS
  <2>1. ASSUME NEW p \in Procs, AddInsert(p) PROVE RowsOneDefault'
    BY <2>1, InsertedOneDefault
    DEF AddInsert, Typed, TypeOK, LocalsReady, Ready, Working, Local
  <2>2. ASSUME NEW p \in Procs, NEW a \in Name, RemoveRow(p, a)
        PROVE  RowsOneDefault'
    BY <2>2 DEF RemoveRow, RowsOneDefault, Exists, Typed, TypeOK
  <2>3. ASSUME NEW p \in Procs, NEW a \in Name, RowOperation(p, a)
        PROVE  RowsOneDefault'
    BY <2>3, RowOperationOneDefault DEF Typed
  <2>4. CASE UNCHANGED row
    BY <2>4 DEF RowsOneDefault, Exists
  <2> QED
    BY <2>1, <2>2, <2>3, <2>4 DEF Next, RowOperation, Open, Leave, FlushWrite,
       FlushRename, FlushFails, AddBegin, AddRefused, AddFails, Unstore,
       UnstoreFails, Resolve, LoadKey, ReadRow, LoadSecret, Tick, vars
<1>3. Typed /\ RowsOneDefault => OneDefault
  BY DEF RowsOneDefault, OneDefault, Promise!OneDefault, Promise!Name,
     Promise!Held, Name, Usable, Exists
<1> QED
  BY <1>1, <1>2, <1>3, AlwaysTyped, PTL DEF Spec

-----------------------------------------------------------------------------
(* Key ids *)

Works(p) == at[p].pc \in Working

\* A key id belongs to one row, or to one operation in progress, or to nothing.
KeysApart ==
  /\ \A a \in Name : Exists(a) => row[a].key <= adds
  /\ \A a, b \in Name :
       Exists(a) /\ Exists(b) /\ row[a].key = row[b].key => a = b
  /\ \A p \in Procs : Works(p) =>
       /\ at[p].key <= adds
       /\ \A a \in Name : Exists(a) => row[a].key # at[p].key
  /\ \A p, q \in Procs :
       Works(p) /\ Works(q) /\ at[p].key = at[q].key => p = q

\* The rows an insert leaves.  (sqlite.rs: add.)
LEMMA InsertedRows ==
  ASSUME TypeOK, NEW a \in Name, NEW k \in Keys, NEW d \in BOOLEAN,
         row' = Inserted(a, k, d), NEW b \in Name
  PROVE  /\ (Exists(b))' <=> b = a \/ Exists(b)
         /\ b = a => row'[b].key = k
         /\ b # a /\ Exists(b) => row'[b].key = row[b].key
<1> DEFINE first == d \/ \A c \in Name : c[1] = a[1] => ~Exists(c)
           new == [key |-> k, default |-> first, status |-> "active", until |-> NoTime]
<1>1. new \in Row /\ new.key = k
  <2>1. first \in BOOLEAN
    OBVIOUS
  <2> HIDE DEF first
  <2> QED
    BY <2>1 DEF Row
<1>2. row' = [Cleared(a[1], d) EXCEPT ![a] = new]
  BY DEF Inserted, InsertInto
<1> HIDE DEF new
<1>3. CASE b = a
  BY <1>1, <1>2, <1>3, NoRowAssumption DEF Cleared, Exists
<1>4. CASE b # a
  <2>1. row'[b] = Cleared(a[1], d)[b]
    BY <1>2, <1>4 DEF Cleared
  <2>2. CASE Exists(b)
    <3>1. row[b] \in Row
      BY <2>2 DEF Exists, TypeOK
    <3>2. Cleared(a[1], d)[b] \in Row /\ Cleared(a[1], d)[b].key = row[b].key
      BY <3>1 DEF Cleared, Row
    <3> QED
      BY <1>4, <2>1, <2>2, <3>2, NoRowAssumption DEF Exists
  <2>3. CASE ~Exists(b)
    BY <1>4, <2>1, <2>3 DEF Cleared, Exists
  <2> QED
    BY <2>2, <2>3
<1> QED
  BY <1>3, <1>4

\* The rows an operation on one row leaves.  (sqlite.rs.)
LEMMA RowOperationRows ==
  ASSUME TypeOK, NEW p \in Procs, NEW a \in Name, RowOperation(p, a),
         NEW b \in Name
  PROVE  /\ (Exists(b))' <=> Exists(b)
         /\ Exists(b) => row'[b].key = row[b].key
<1>1. Exists(a) /\ row[a] \in Row
  BY DEF RowOperation, SetDefault, MarkCooldown, MarkDead, ClearStatus, Update,
     Exists, TypeOK
<1>2. CASE SetDefault(p, a)
  BY <1>1, <1>2, NoRowAssumption
  DEF SetDefault, Update, Cleared, Exists, TypeOK, Row
<1>3. CASE ~SetDefault(p, a)
  BY <1>1, <1>3, NoRowAssumption
  DEF RowOperation, MarkCooldown, MarkDead, ClearStatus, Update, Exists, TypeOK, Row
<1> QED
  BY <1>2, <1>3

\* What a keyring call does to the locals.  (keyring_backend.rs: store, delete.)
LEMMA KeyringCallLocals ==
  ASSUME Typed, NEW p \in Procs, NEW contents, NEW next \in Local,
         KeyringCall(p, contents, next)
  PROVE  /\ at'[p].key = next.key
         /\ IF backend = "os" THEN at'[p] = next
            ELSE at'[p].pc = "flush" /\ at'[p].after = next.pc
         /\ \A q \in Procs : q # p => at'[q] = at[q]
<1> DEFINE flush == [next EXCEPT !.pc = "flush", !.after = next.pc]
<1>1. flush.pc = "flush" /\ flush.after = next.pc /\ flush.key = next.key
  BY DEF Local
<1>2. at' = [at EXCEPT ![p] = IF backend = "os" THEN next ELSE flush]
  BY DEF KeyringCall
<1> HIDE DEF flush
<1> QED
  BY <1>1, <1>2 DEF Typed, TypeOK

\* A step that leaves rows and key ids alone and starts no operation.
LEMMA KeysApartFrame ==
  ASSUME KeysApart, UNCHANGED <<row, adds>>,
         \A q \in Procs : (Works(q))' => Works(q) /\ at'[q].key = at[q].key
  PROVE  KeysApart'
BY DEF KeysApart, Exists

\* Key ids stay apart in every step.  (sqlite.rs: add's fresh key_id, remove.)
LEMMA KeysApartStep == Typed /\ KeysApart /\ [Next]_vars => KeysApart'
<1> SUFFICES ASSUME Typed, KeysApart, [Next]_vars PROVE KeysApart'
  OBVIOUS
<1>1. ASSUME NEW p \in Procs,
             \/ Open(p) \/ Leave(p) \/ FlushWrite(p) \/ FlushRename(p)
             \/ FlushFails(p) \/ AddRefused(p) \/ AddFails(p) \/ UnstoreFails(p)
             \/ LoadSecret(p) \/ \E a \in Name : Resolve(p, a) \/ LoadKey(p, a)
      PROVE  KeysApart'
  <2>1. UNCHANGED <<row, adds>>
    BY <1>1 DEF Open, Leave, FlushWrite, FlushRename, FlushFails, AddRefused,
       AddFails, UnstoreFails, LoadSecret, Resolve, LoadKey, ReadRow
  <2>2. ASSUME NEW q \in Procs, (Works(q))'
        PROVE  Works(q) /\ at'[q].key = at[q].key
    <3>1. CASE q # p
      BY <1>1, <2>2, <3>1 DEF Open, Leave, FlushWrite, FlushRename, FlushFails,
         AddRefused, AddFails, UnstoreFails, LoadSecret, Resolve, LoadKey, ReadRow,
         Goto, Return, Works, Typed, TypeOK
    <3>2. CASE q = p
      <4>1. CASE Open(p)
        BY <2>2, <3>2, <4>1 DEF Open, Goto, Works, Working, Typed, TypeOK, Local
      <4>2. CASE FlushWrite(p) \/ AddRefused(p)
        BY <3>2, <4>2 DEF FlushWrite, AddRefused, Goto, Works, Working, Typed, TypeOK,
           Local
      <4>3. CASE FlushRename(p)
        BY <2>2, <3>2, <4>3 DEF FlushRename, Goto, Return, Between, Works, Working,
           Typed, TypeOK, Local
      <4>4. CASE \/ Leave(p) \/ FlushFails(p) \/ AddFails(p) \/ UnstoreFails(p)
                 \/ LoadSecret(p)
        BY <2>2, <3>2, <4>4 DEF Leave, FlushFails, AddFails, UnstoreFails, LoadSecret,
           Return, Between, Works, Working, Typed, TypeOK
      <4>5. ASSUME NEW a \in Name, Resolve(p, a) \/ LoadKey(p, a) PROVE FALSE
        <5> DEFINE next == [Between("load") EXCEPT !.name = a, !.key = row[a].key]
        <5>1. next.pc = "load"
          BY DEF Between
        <5>2. at'[p] = next
          BY <4>5 DEF Resolve, LoadKey, ReadRow, Typed, TypeOK
        <5> QED
          BY <2>2, <3>2, <5>1, <5>2 DEF Works, Working
      <4> QED
        BY <1>1, <4>1, <4>2, <4>3, <4>4, <4>5
    <3> QED
      BY <3>1, <3>2
  <2> QED
    BY <2>1, <2>2, KeysApartFrame
<1>2. ASSUME NEW p \in Procs, NEW a \in Name, NEW d \in BOOLEAN, AddBegin(p, a, d)
      PROVE  KeysApart'
  <2> DEFINE next == [Between("insert") EXCEPT !.name = a, !.key = adds + 1,
                                               !.default = d]
  <2>1. adds' = adds + 1 /\ adds \in Nat /\ adds + 1 \in Keys /\ UNCHANGED row
    BY <1>2, BoundsAssumption DEF AddBegin, Typed, TypeOK, Keys
  <2>2. next \in Local /\ next.key = adds + 1
    BY <2>1 DEF Between, Local
  <2>3. KeyringCall(p, Keyring(p) \cup {adds + 1}, next)
    BY <1>2 DEF AddBegin
  <2> HIDE DEF next
  <2>4. at'[p].key = adds + 1 /\ \A q \in Procs : q # p => at'[q] = at[q]
    BY <2>2, <2>3, KeyringCallLocals
  <2>5. /\ \A b \in Name : Exists(b) => row[b].key \in Nat
        /\ \A q \in Procs : Works(q) => at[q].key \in Nat
    BY DEF Typed, TypeOK, Exists, Row, LocalsReady, Ready, Works, Keys
  <2> QED
    BY <2>1, <2>4, <2>5 DEF KeysApart, Exists, Works
<1>3. ASSUME NEW p \in Procs, AddInsert(p) PROVE KeysApart'
  <2>1. /\ Works(p) /\ at[p].name \in Name /\ at[p].key \in Keys
        /\ at[p].default \in BOOLEAN
    BY <1>3 DEF AddInsert, Works, Working, Typed, TypeOK, LocalsReady, Ready, Local
  <2>2. \A b \in Name :
          /\ (Exists(b))' <=> b = at[p].name \/ Exists(b)
          /\ b = at[p].name => row'[b].key = at[p].key
          /\ b # at[p].name /\ Exists(b) => row'[b].key = row[b].key
    BY <1>3, <2>1, InsertedRows DEF AddInsert, Typed
  <2>3. /\ ~(Works(p))'
        /\ \A q \in Procs : q # p => at'[q] = at[q]
        /\ adds' = adds
    BY <1>3 DEF AddInsert, Return, Between, Works, Working, Typed, TypeOK
  <2> QED
    BY <2>1, <2>2, <2>3 DEF KeysApart, Works
<1>4. ASSUME NEW p \in Procs, NEW a \in Name, RemoveRow(p, a) PROVE KeysApart'
  <2>1. /\ Exists(a) /\ at'[p].key = row[a].key
        /\ ~Works(p)
        /\ \A q \in Procs : q # p => at'[q] = at[q]
        /\ adds' = adds
    BY <1>4 DEF RemoveRow, Between, Works, Working, Typed, TypeOK, Local
  <2>2. \A b \in Name :
          /\ (Exists(b))' <=> b # a /\ Exists(b)
          /\ b # a => row'[b] = row[b]
    BY <1>4 DEF RemoveRow, Exists, Typed, TypeOK
  <2> QED
    BY <2>1, <2>2 DEF KeysApart, Works
<1>5. ASSUME NEW p \in Procs, Unstore(p) PROVE KeysApart'
  <2>1. UNCHANGED <<row, adds>> /\ Works(p)
    BY <1>5 DEF Unstore, Works, Working
  <2>2. ASSUME NEW q \in Procs, (Works(q))'
        PROVE  Works(q) /\ at'[q].key = at[q].key
    <3> DEFINE next == [Between("idle") EXCEPT
                          !.key = IF backend = "file" THEN at[p].key ELSE NoKey]
    <3>1. next \in Local /\ next.pc = "idle" /\ (backend = "file" => next.key = at[p].key)
      BY <2>1 DEF Between, Local, Typed, TypeOK, LocalsReady, Ready, Works
    <3>2. KeyringCall(p, Keyring(p) \ {at[p].key}, next)
      BY <1>5 DEF Unstore
    <3>3. backend \in {"os", "file"}
      BY BackendsAssumption DEF Typed, TypeOK
    <3> HIDE DEF next
    <3>4. IF backend = "os" THEN at'[p].pc = "idle" ELSE at'[p].key = at[p].key
      BY <3>1, <3>2, <3>3, KeyringCallLocals
    <3>5. \A r \in Procs : r # p => at'[r] = at[r]
      BY <3>1, <3>2, KeyringCallLocals
    <3> QED
      BY <2>1, <2>2, <3>3, <3>4, <3>5 DEF Works, Working
  <2> QED
    BY <2>1, <2>2, KeysApartFrame
<1>6. ASSUME NEW p \in Procs, NEW a \in Name, RowOperation(p, a) PROVE KeysApart'
  <2>1. UNCHANGED <<at, adds>>
    BY <1>6 DEF RowOperation, SetDefault, MarkCooldown, MarkDead, ClearStatus, Update
  <2> QED
    BY <1>6, <2>1, RowOperationRows DEF KeysApart, Works, Typed
<1>7. CASE Tick \/ UNCHANGED vars
  BY <1>7, KeysApartFrame DEF Tick, vars, Works
<1> QED
  BY <1>1, <1>2, <1>3, <1>4, <1>5, <1>6, <1>7 DEF Next, RowOperation

-----------------------------------------------------------------------------
(* No row without its secret, when the file keyring is not shared *)

\* With the platform's keyring: what rows and inserts rely on is in the service.
OsSecrets ==
  backend = "os" =>
    /\ EveryRowHasItsSecret
    /\ \A p \in Procs :
         /\ at[p].pc \notin {"flush", "rename"}
         /\ at[p].pc = "insert" => at[p].key \in stored

\* An installation keeps its keyring.  (mscode.rs: the store is built once.)
LEMMA BackendFixed == [Next]_vars => backend' = backend
<1>1. ASSUME NEW p \in Procs,
             \/ Open(p) \/ Leave(p) \/ FlushWrite(p) \/ FlushRename(p)
             \/ FlushFails(p) \/ AddInsert(p) \/ AddRefused(p) \/ AddFails(p)
             \/ Unstore(p) \/ UnstoreFails(p) \/ LoadSecret(p)
      PROVE  backend' = backend
  BY <1>1 DEF Open, Leave, FlushWrite, FlushRename, FlushFails, AddInsert,
     AddRefused, AddFails, Unstore, UnstoreFails, LoadSecret
<1>2. ASSUME NEW p \in Procs, NEW a \in Name,
             \/ \E d \in BOOLEAN : AddBegin(p, a, d)
             \/ RemoveRow(p, a) \/ RowOperation(p, a)
             \/ Resolve(p, a) \/ LoadKey(p, a)
      PROVE  backend' = backend
  BY <1>2 DEF AddBegin, RemoveRow, RowOperation, SetDefault, MarkCooldown, MarkDead,
     ClearStatus, Update, Resolve, LoadKey, ReadRow
<1>3. CASE Tick \/ UNCHANGED vars
  BY <1>3 DEF Tick, vars
<1> QED
  BY <1>1, <1>2, <1>3 DEF Next, RowOperation

\* Secrets stay while the service is not called and no row is added.
LEMMA OsFrame ==
  ASSUME OsSecrets, UNCHANGED <<backend, stored>>,
         \A a \in Name : (Exists(a))' => Exists(a) /\ row'[a].key = row[a].key,
         NEW p \in Procs,
         \A q \in Procs : q # p => at'[q] = at[q],
         backend = "os" => at'[p].pc \notin {"flush", "rename", "insert"}
  PROVE  OsSecrets'
BY DEF OsSecrets, EveryRowHasItsSecret

\* A delete takes away a key id that no row and no insert relies on.
\* (sqlite.rs: add stores first, remove deletes last.)
LEMMA OsSecretsStep == Typed /\ KeysApart /\ OsSecrets /\ [Next]_vars => OsSecrets'
<1> SUFFICES ASSUME Typed, KeysApart, OsSecrets, [Next]_vars, backend = "os"
             PROVE  OsSecrets'
  BY BackendFixed DEF OsSecrets
<1>1. ASSUME NEW p \in Procs,
             \/ Open(p) \/ Leave(p) \/ FlushFails(p) \/ AddRefused(p) \/ AddFails(p)
             \/ UnstoreFails(p) \/ LoadSecret(p)
      PROVE  OsSecrets'
  <2>1. /\ UNCHANGED <<backend, stored, row>>
        /\ \A q \in Procs : q # p => at'[q] = at[q]
    BY <1>1 DEF Open, Leave, FlushFails, AddRefused, AddFails, UnstoreFails,
       LoadSecret, Goto, Return, Typed, TypeOK
  <2>2. at'[p].pc \in {"idle", "closed", "unstore"}
    BY <1>1 DEF Open, Leave, FlushFails, AddRefused, AddFails, UnstoreFails,
       LoadSecret, Goto, Return, Between, Typed, TypeOK, Local
  <2> QED
    BY <2>1, <2>2, OsFrame DEF Exists
<1>2. ASSUME NEW p \in Procs, FlushWrite(p) \/ FlushRename(p) PROVE FALSE
  BY <1>2 DEF FlushWrite, FlushRename, OsSecrets
<1>3. ASSUME NEW p \in Procs, NEW a \in Name, NEW d \in BOOLEAN, AddBegin(p, a, d)
      PROVE  OsSecrets'
  <2> DEFINE next == [Between("insert") EXCEPT !.name = a, !.key = adds + 1,
                                               !.default = d]
  <2>1. /\ UNCHANGED <<backend, row>> /\ stored' = stored \cup {adds + 1}
        /\ at' = [at EXCEPT ![p] = next]
    BY <1>3 DEF AddBegin, KeyringCall, Keyring
  <2>2. next.pc = "insert" /\ next.key = adds + 1
    BY DEF Between
  <2> HIDE DEF next
  <2> QED
    BY <2>1, <2>2 DEF OsSecrets, EveryRowHasItsSecret, Exists, Typed, TypeOK
<1>4. ASSUME NEW p \in Procs, AddInsert(p) PROVE OsSecrets'
  <2>1. /\ at[p].name \in Name /\ at[p].key \in Keys /\ at[p].default \in BOOLEAN
        /\ at[p].key \in stored
    BY <1>4 DEF AddInsert, Working, Typed, TypeOK, LocalsReady, Ready, Local,
       OsSecrets
  <2>2. \A b \in Name :
          /\ (Exists(b))' <=> b = at[p].name \/ Exists(b)
          /\ b = at[p].name => row'[b].key = at[p].key
          /\ b # at[p].name /\ Exists(b) => row'[b].key = row[b].key
    BY <1>4, <2>1, InsertedRows DEF AddInsert, Typed
  <2>3. /\ UNCHANGED <<backend, stored>> /\ at'[p].pc = "idle"
        /\ \A q \in Procs : q # p => at'[q] = at[q]
    BY <1>4 DEF AddInsert, Return, Between, Typed, TypeOK
  <2> QED
    BY <2>1, <2>2, <2>3 DEF OsSecrets, EveryRowHasItsSecret
<1>5. ASSUME NEW p \in Procs, NEW a \in Name, RemoveRow(p, a) PROVE OsSecrets'
  <2>1. /\ UNCHANGED <<backend, stored>> /\ at'[p].pc = "unstore"
        /\ \A q \in Procs : q # p => at'[q] = at[q]
    BY <1>5 DEF RemoveRow, Between, Typed, TypeOK
  <2>2. \A b \in Name : (Exists(b))' => Exists(b) /\ row'[b].key = row[b].key
    BY <1>5 DEF RemoveRow, Exists, Typed, TypeOK
  <2> QED
    BY <2>1, <2>2, OsFrame
<1>6. ASSUME NEW p \in Procs, Unstore(p) PROVE OsSecrets'
  <2>1. /\ UNCHANGED <<backend, row>> /\ stored' = stored \ {at[p].key}
        /\ \A q \in Procs : q # p => at'[q] = at[q]
    BY <1>6 DEF Unstore, KeyringCall, Keyring, Typed, TypeOK
  <2>2. Works(p) /\ at'[p].pc = "idle"
    BY <1>6 DEF Unstore, KeyringCall, Between, Works, Working, Typed, TypeOK
  <2>3. \A b \in Name : Exists(b) => row[b].key # at[p].key
    BY <2>2 DEF KeysApart
  <2>4. \A q \in Procs : q # p /\ at[q].pc = "insert" => at[q].key # at[p].key
    BY <2>2 DEF KeysApart, Works, Working
  <2> QED
    BY <2>1, <2>2, <2>3, <2>4 DEF OsSecrets, EveryRowHasItsSecret, Exists
<1>7. ASSUME NEW p \in Procs, NEW a \in Name, RowOperation(p, a) PROVE OsSecrets'
  <2>1. UNCHANGED <<backend, stored, at>>
    BY <1>7 DEF RowOperation, SetDefault, MarkCooldown, MarkDead, ClearStatus, Update
  <2>2. \A b \in Name : (Exists(b))' => Exists(b) /\ row'[b].key = row[b].key
    BY <1>7, RowOperationRows DEF Typed
  <2> QED
    BY <2>1, <2>2 DEF OsSecrets, EveryRowHasItsSecret
<1>8. ASSUME NEW p \in Procs, NEW a \in Name, Resolve(p, a) \/ LoadKey(p, a)
      PROVE  OsSecrets'
  <2> DEFINE next == [Between("load") EXCEPT !.name = a, !.key = row[a].key]
  <2>1. /\ UNCHANGED <<backend, stored, row>> /\ at' = [at EXCEPT ![p] = next]
    BY <1>8 DEF Resolve, LoadKey, ReadRow
  <2>2. next.pc = "load"
    BY DEF Between
  <2> HIDE DEF next
  <2> QED
    BY <2>1, <2>2, OsFrame DEF Exists, Typed, TypeOK
<1>9. CASE Tick \/ UNCHANGED vars
  BY <1>9 DEF Tick, vars, OsSecrets, EveryRowHasItsSecret, Exists
<1> QED
  BY <1>1, <1>2, <1>3, <1>4, <1>5, <1>6, <1>7, <1>8, <1>9 DEF Next, RowOperation

\* With the file keyring of one process at a time: the map in memory and the
\* file hold what rows and the process's own add rely on.
FileHeld(p) ==
  /\ \A a \in Name : Exists(a) => row[a].key \in cache[p]
  /\ at[p].pc = "insert" \/ (at[p].pc \in {"flush", "rename"} /\ at[p].after = "insert")
     => at[p].key \in cache[p]
  /\ at[p].pc = "insert" => at[p].key \in stored
  /\ at[p].pc = "rename" => tmp = cache[p]

FileSecrets ==
  backend = "file" =>
    /\ EveryRowHasItsSecret
    /\ \A p, q \in Procs : at[p].pc # "closed" /\ at[q].pc # "closed" => p = q
    /\ \A p \in Procs : at[p].pc # "closed" => FileHeld(p)

\* A step of the process that has the file.
LEMMA FileStep ==
  ASSUME backend' = "file", EveryRowHasItsSecret', NEW p \in Procs,
         \A q \in Procs : q # p => at[q].pc = "closed" /\ at'[q] = at[q],
         at'[p].pc = "closed" \/ FileHeld(p)'
  PROVE  FileSecrets'
BY DEF FileSecrets

\* A flush replaces the file by the process's map, which nobody else changed.
\* (keyring_backend.rs: new, flush, store, delete.)
LEMMA FileSecretsStep ==
  ASSUME Shared \subseteq {"os"}
  PROVE  Typed /\ KeysApart /\ FileSecrets /\ [Next]_vars => FileSecrets'
<1> SUFFICES ASSUME Typed, KeysApart, FileSecrets, [Next]_vars, backend = "file"
             PROVE  FileSecrets'
  BY BackendFixed DEF FileSecrets
<1>0. /\ backend' = "file"
      /\ \A p \in Procs : at[p].pc # "closed" =>
           FileHeld(p) /\ \A q \in Procs : q # p => at[q].pc = "closed"
  BY BackendFixed DEF FileSecrets
<1>1. ASSUME NEW p \in Procs, Open(p) PROVE FileSecrets'
  <2>1. \A q \in Procs : at[q].pc = "closed" /\ (q # p => at'[q] = at[q])
    BY <1>1 DEF Open, Goto, Typed, TypeOK
  <2>2. UNCHANGED <<row, stored>> /\ cache'[p] = stored /\ at'[p].pc = "idle"
    BY <1>1 DEF Open, Goto, Typed, TypeOK, Local
  <2> QED
    BY <1>0, <2>1, <2>2, FileStep DEF FileHeld, FileSecrets, EveryRowHasItsSecret,
       Exists
<1>2. ASSUME NEW p \in Procs,
             \/ Leave(p) \/ FlushFails(p) \/ AddRefused(p) \/ AddFails(p)
             \/ UnstoreFails(p) \/ LoadSecret(p)
      PROVE  FileSecrets'
  <2>1. /\ UNCHANGED <<stored, row>> /\ at[p].pc # "closed"
        /\ \A q \in Procs : q # p => at'[q] = at[q]
    BY <1>2 DEF Leave, FlushFails, AddRefused, AddFails, UnstoreFails, LoadSecret,
       Goto, Return, Typed, TypeOK
  <2>2. \/ at'[p].pc = "closed"
        \/ at'[p].pc \in {"idle", "unstore"} /\ cache' = cache
    BY <1>2 DEF Leave, FlushFails, AddRefused, AddFails, UnstoreFails, LoadSecret,
       Goto, Return, Between, Typed, TypeOK, Local
  <2> QED
    BY <1>0, <2>1, <2>2, FileStep DEF FileHeld, FileSecrets, EveryRowHasItsSecret,
       Exists
<1>3. ASSUME NEW p \in Procs, FlushWrite(p) PROVE FileSecrets'
  <2>1. /\ UNCHANGED <<stored, row, cache>> /\ at[p].pc = "flush" /\ tmp' = cache[p]
        /\ \A q \in Procs : q # p => at'[q] = at[q]
        /\ at'[p].pc = "rename" /\ at'[p].after = at[p].after
        /\ at'[p].key = at[p].key
    BY <1>3 DEF FlushWrite, Goto, Typed, TypeOK, Local
  <2> QED
    BY <1>0, <2>1, FileStep DEF FileHeld, FileSecrets, EveryRowHasItsSecret, Exists
<1>4. ASSUME NEW p \in Procs, FlushRename(p) PROVE FileSecrets'
  <2>1. /\ UNCHANGED <<row, cache>> /\ at[p].pc = "rename" /\ stored' = cache[p]
        /\ FileHeld(p)
        /\ \A q \in Procs : q # p => at'[q] = at[q]
    BY <1>0, <1>4 DEF FlushRename, Goto, Return, FileHeld, Typed, TypeOK
  <2>2. \/ at'[p].pc = "idle"
        \/ /\ at'[p].pc = "insert" /\ at[p].after = "insert"
           /\ at'[p].key = at[p].key
    BY <1>4 DEF FlushRename, Goto, Return, Between, Typed, TypeOK, Local
  <2> QED
    BY <1>0, <2>1, <2>2, FileStep DEF FileHeld, FileSecrets, EveryRowHasItsSecret,
       Exists
<1>5. ASSUME NEW p \in Procs, NEW a \in Name, NEW d \in BOOLEAN, AddBegin(p, a, d)
      PROVE  FileSecrets'
  <2> DEFINE next == [Between("insert") EXCEPT !.name = a, !.key = adds + 1,
                                               !.default = d]
  <2>1. /\ UNCHANGED <<stored, row>> /\ at[p].pc # "closed"
        /\ cache'[p] = cache[p] \cup {adds + 1}
        /\ at' = [at EXCEPT ![p] = [next EXCEPT !.pc = "flush", !.after = next.pc]]
    BY <1>5 DEF AddBegin, KeyringCall, Keyring, Typed, TypeOK
  <2>2. [next EXCEPT !.pc = "flush", !.after = next.pc].pc = "flush"
        /\ [next EXCEPT !.pc = "flush", !.after = next.pc].key = adds + 1
    BY DEF Between
  <2> HIDE DEF next
  <2>3. at'[p].pc = "flush" /\ at'[p].key = adds + 1
        /\ \A q \in Procs : q # p => at'[q] = at[q]
    BY <2>1, <2>2 DEF Typed, TypeOK
  <2> QED
    BY <1>0, <2>1, <2>3, FileStep DEF FileHeld, FileSecrets, EveryRowHasItsSecret,
       Exists
<1>6. ASSUME NEW p \in Procs, AddInsert(p) PROVE FileSecrets'
  <2>1. /\ at[p].name \in Name /\ at[p].key \in Keys /\ at[p].default \in BOOLEAN
        /\ at[p].pc = "insert"
    BY <1>6 DEF AddInsert, Working, Typed, TypeOK, LocalsReady, Ready, Local
  <2>2. \A b \in Name :
          /\ (Exists(b))' <=> b = at[p].name \/ Exists(b)
          /\ b = at[p].name => row'[b].key = at[p].key
          /\ b # at[p].name /\ Exists(b) => row'[b].key = row[b].key
    BY <1>6, <2>1, InsertedRows DEF AddInsert, Typed
  <2>3. /\ UNCHANGED <<stored, cache>> /\ at'[p].pc = "idle"
        /\ \A q \in Procs : q # p => at'[q] = at[q]
    BY <1>6 DEF AddInsert, Return, Between, Typed, TypeOK
  <2>4. EveryRowHasItsSecret'
    BY <1>0, <2>1, <2>2, <2>3 DEF FileHeld, FileSecrets, EveryRowHasItsSecret
  <2>5. FileHeld(p)'
    BY <1>0, <2>1, <2>2, <2>3 DEF FileHeld
  <2> QED
    BY <1>0, <2>1, <2>3, <2>4, <2>5, FileStep
<1>7. ASSUME NEW p \in Procs, NEW a \in Name, RemoveRow(p, a) PROVE FileSecrets'
  <2>1. /\ UNCHANGED <<stored, cache>> /\ at[p].pc = "idle" /\ at'[p].pc = "unstore"
        /\ \A q \in Procs : q # p => at'[q] = at[q]
    BY <1>7 DEF RemoveRow, Between, Typed, TypeOK
  <2>2. \A b \in Name : (Exists(b))' => Exists(b) /\ row'[b] = row[b]
    BY <1>7 DEF RemoveRow, Exists, Typed, TypeOK
  <2> QED
    BY <1>0, <2>1, <2>2, FileStep DEF FileHeld, FileSecrets, EveryRowHasItsSecret
<1>8. ASSUME NEW p \in Procs, Unstore(p) PROVE FileSecrets'
  <2> DEFINE next == [Between("idle") EXCEPT
                        !.key = IF backend = "file" THEN at[p].key ELSE NoKey]
  <2>1. /\ UNCHANGED <<stored, row>> /\ at[p].pc = "unstore"
        /\ cache'[p] = cache[p] \ {at[p].key}
        /\ at' = [at EXCEPT ![p] = [next EXCEPT !.pc = "flush", !.after = next.pc]]
    BY <1>8 DEF Unstore, KeyringCall, Keyring, Typed, TypeOK
  <2>2. [next EXCEPT !.pc = "flush", !.after = next.pc].pc = "flush"
        /\ [next EXCEPT !.pc = "flush", !.after = next.pc].after = "idle"
    BY DEF Between
  <2> HIDE DEF next
  <2>3. at'[p].pc = "flush" /\ at'[p].after = "idle"
        /\ \A q \in Procs : q # p => at'[q] = at[q]
    BY <2>1, <2>2 DEF Typed, TypeOK
  <2>4. \A b \in Name : Exists(b) => row[b].key # at[p].key
    BY <2>1 DEF KeysApart, Works, Working
  <2> QED
    BY <1>0, <2>1, <2>3, <2>4, FileStep DEF FileHeld, FileSecrets,
       EveryRowHasItsSecret, Exists
<1>9. ASSUME NEW p \in Procs, NEW a \in Name, RowOperation(p, a)
      PROVE  FileSecrets'
  <2>1. UNCHANGED <<stored, at, cache>> /\ at[p].pc = "idle"
    BY <1>9 DEF RowOperation, SetDefault, MarkCooldown, MarkDead, ClearStatus, Update
  <2>2. \A b \in Name : (Exists(b))' => Exists(b) /\ row'[b].key = row[b].key
    BY <1>9, RowOperationRows DEF Typed
  <2> QED
    BY <1>0, <2>1, <2>2, FileStep DEF FileHeld, FileSecrets, EveryRowHasItsSecret
<1>10. ASSUME NEW p \in Procs, NEW a \in Name, Resolve(p, a) \/ LoadKey(p, a)
       PROVE  FileSecrets'
  <2> DEFINE next == [Between("load") EXCEPT !.name = a, !.key = row[a].key]
  <2>1. /\ UNCHANGED <<stored, row, cache>> /\ at[p].pc = "idle"
        /\ at' = [at EXCEPT ![p] = next]
    BY <1>10 DEF Resolve, LoadKey, ReadRow
  <2>2. next.pc = "load"
    BY DEF Between
  <2> HIDE DEF next
  <2>3. at'[p].pc = "load" /\ \A q \in Procs : q # p => at'[q] = at[q]
    BY <2>1, <2>2 DEF Typed, TypeOK
  <2> QED
    BY <1>0, <2>1, <2>3, FileStep DEF FileHeld, FileSecrets, EveryRowHasItsSecret,
       Exists
<1>11. CASE Tick \/ UNCHANGED vars
  BY <1>11 DEF Tick, vars, FileSecrets, FileHeld, EveryRowHasItsSecret, Exists
<1> QED
  BY <1>1, <1>2, <1>3, <1>4, <1>5, <1>6, <1>7, <1>8, <1>9, <1>10, <1>11
  DEF Next, RowOperation

\* The inductive invariant.
Inv == Typed /\ KeysApart /\ OsSecrets /\ FileSecrets

\* The invariant holds throughout, unless several processes use one keyring file.
LEMMA InvHolds ==
  ASSUME Shared \subseteq {"os"}
  PROVE  Spec => []Inv
<1>1. Init => Inv
  <2> SUFFICES ASSUME Init PROVE Inv
    OBVIOUS
  <2>1. Typed
    BY InitTyped
  <2>2. \A p \in Procs : at[p].pc = "closed"
    BY DEF Init, Between
  <2> QED
    BY <2>1, <2>2 DEF Init, Inv, KeysApart, OsSecrets, FileSecrets,
       EveryRowHasItsSecret, Exists, Works, Working
<1>2. Inv /\ [Next]_vars => Inv'
  BY TypedStep, KeysApartStep, OsSecretsStep, FileSecretsStep DEF Inv
<1> QED
  BY <1>1, <1>2, PTL DEF Spec

LEMMA InvSecrets == Inv => EveryRowHasItsSecret
BY BackendsAssumption DEF Inv, Typed, TypeOK, OsSecrets, FileSecrets

\* No row is without its secret, whatever is killed or fails, unless several
\* processes use one keyring file.  (sqlite.rs: add, remove.)
THEOREM SecretsKept ==
  ASSUME Shared \subseteq {"os"}
  PROVE  Spec => []EveryRowHasItsSecret
BY InvHolds, InvSecrets, PTL

\* An account that was chosen and is still there can be used, under the same
\* condition.  (sqlite.rs: resolve, load_key.)
THEOREM ChosenLoads ==
  ASSUME Shared \subseteq {"os"}
  PROVE  Spec => []ChosenKeyLoads
<1>1. Inv => ChosenKeyLoads
  <2> SUFFICES ASSUME Inv, NEW p \in Procs, at[p].pc = "load", Exists(at[p].name),
                      row[at[p].name].key = at[p].key
               PROVE  at[p].key \in Keyring(p)
    BY DEF ChosenKeyLoads
  <2>1. at[p].name \in Name /\ backend \in {"os", "file"}
    BY BackendsAssumption DEF Inv, Typed, TypeOK, LocalsReady, Ready
  <2>2. CASE backend = "os"
    BY <2>1, <2>2, InvSecrets DEF Keyring, EveryRowHasItsSecret
  <2>3. CASE backend = "file"
    BY <2>1, <2>3 DEF Inv, FileSecrets, FileHeld, Keyring
  <2> QED
    BY <2>1, <2>2, <2>3
<1> QED
  BY <1>1, InvHolds, PTL

-----------------------------------------------------------------------------
(* No secret without an owner *)

\* A row has the key id, or an operation has it in hand, or it was abandoned.
Owned(k) ==
  \/ \E a \in Name : Exists(a) /\ row[a].key = k
  \/ \E p \in Procs : Works(p) /\ at[p].key = k
  \/ k \in abandoned

\* Also what is in the map of the process that has the file is owned, because
\* its next flush will write it; and a delete has already taken its key out.
SecretsOwned ==
  /\ \A k \in stored : Owned(k)
  /\ backend = "file" => \A p \in Procs : at[p].pc # "closed" =>
       /\ \A k \in cache[p] : Owned(k)
       /\ at[p].pc \in {"flush", "rename"} /\ at[p].after = "idle"
          => at[p].key \notin cache[p]

\* The step deletes the secret with key id k from the keyring for good.
Deletes(k) ==
  \E p \in Procs :
    /\ at[p].key = k
    /\ \/ Unstore(p) /\ backend = "os"
       \/ FlushRename(p) /\ at[p].after = "idle"

\* What is owned stays owned in a step that changes no row and lets nothing go.
LEMMA OwnedFrame ==
  ASSUME UNCHANGED row, abandoned \subseteq abandoned', NEW k, Owned(k),
         \A q \in Procs : Works(q) => (Works(q))' /\ at'[q].key = at[q].key
  PROVE  Owned(k)'
BY DEF Owned, Exists

\* A key id loses its owner only when its secret is deleted: every other way
\* out of an operation hands it to a row or abandons it.
\* (sqlite.rs: add, remove; keyring_backend.rs: flush.)
LEMMA OwnedStep ==
  ASSUME Typed, [Next]_vars, NEW k, Owned(k), ~Deletes(k) PROVE Owned(k)'
<1>1. ASSUME NEW p \in Procs,
             \/ Open(p) \/ FlushWrite(p) \/ AddRefused(p) \/ LoadSecret(p)
             \/ \E a \in Name : Resolve(p, a) \/ LoadKey(p, a)
             \/ FlushRename(p) /\ at[p].after # "idle"
      PROVE  Owned(k)'
  <2>1. UNCHANGED <<row, abandoned>>
    BY <1>1 DEF Open, FlushWrite, AddRefused, LoadSecret, Resolve, LoadKey, ReadRow,
       FlushRename
  <2>2. \A q \in Procs : q # p => at'[q] = at[q]
    BY <1>1 DEF Open, FlushWrite, AddRefused, LoadSecret, Resolve, LoadKey, ReadRow,
       FlushRename, Goto, Return, Typed, TypeOK
  <2>3. ASSUME Works(p) PROVE (Works(p))' /\ at'[p].key = at[p].key
    BY <1>1, <2>3 DEF Open, FlushWrite, AddRefused, LoadSecret, Resolve, LoadKey,
       ReadRow, FlushRename, Goto, Works, Working, Typed, TypeOK, Local
  <2> QED
    BY <2>1, <2>2, <2>3, OwnedFrame DEF Works
<1>2. ASSUME NEW p \in Procs,
             \/ Leave(p) \/ FlushFails(p) \/ AddFails(p) \/ UnstoreFails(p)
      PROVE  Owned(k)'
  <2>1. /\ UNCHANGED row /\ abandoned \subseteq abandoned'
        /\ \A q \in Procs : q # p => at'[q] = at[q]
    BY <1>2 DEF Leave, FlushFails, AddFails, UnstoreFails, Return, Typed, TypeOK
  <2>2. Works(p) => at[p].key \in abandoned'
    BY <1>2 DEF Leave, FlushFails, AddFails, UnstoreFails, Works, Working
  <2> QED
    BY <2>1, <2>2 DEF Owned, Exists, Works
<1>3. ASSUME NEW p \in Procs, FlushRename(p), at[p].after = "idle" PROVE Owned(k)'
  <2>1. at[p].key # k
    BY <1>3 DEF Deletes
  <2>2. UNCHANGED <<row, abandoned>> /\ \A q \in Procs : q # p => at'[q] = at[q]
    BY <1>3 DEF FlushRename, Return, Typed, TypeOK
  <2> QED
    BY <2>1, <2>2 DEF Owned, Exists, Works
<1>4. ASSUME NEW p \in Procs, NEW a \in Name, NEW d \in BOOLEAN, AddBegin(p, a, d)
      PROVE  Owned(k)'
  <2>1. UNCHANGED <<row, abandoned>> /\ ~Works(p)
    BY <1>4 DEF AddBegin, Works, Working
  <2>2. \A q \in Procs : q # p => at'[q] = at[q]
    BY <1>4 DEF AddBegin, KeyringCall, Typed, TypeOK
  <2> QED
    BY <2>1, <2>2, OwnedFrame DEF Works
<1>5. ASSUME NEW p \in Procs, AddInsert(p) PROVE Owned(k)'
  <2>1. at[p].name \in Name /\ at[p].key \in Keys /\ at[p].default \in BOOLEAN
    BY <1>5 DEF AddInsert, Working, Typed, TypeOK, LocalsReady, Ready, Local
  <2>2. \A b \in Name :
          /\ (Exists(b))' <=> b = at[p].name \/ Exists(b)
          /\ b = at[p].name => row'[b].key = at[p].key
          /\ b # at[p].name /\ Exists(b) => row'[b].key = row[b].key
    BY <1>5, <2>1, InsertedRows DEF AddInsert, Typed
  <2>3. ~Exists(at[p].name) /\ abandoned' = abandoned
        /\ \A q \in Procs : q # p => at'[q] = at[q]
    BY <1>5 DEF AddInsert, Return, Typed, TypeOK
  <2> QED
    BY <2>1, <2>2, <2>3 DEF Owned, Works
<1>6. ASSUME NEW p \in Procs, NEW a \in Name, RemoveRow(p, a) PROVE Owned(k)'
  <2>1. /\ Exists(a) /\ at'[p].key = row[a].key /\ (Works(p))' /\ ~Works(p)
        /\ abandoned' = abandoned
        /\ \A q \in Procs : q # p => at'[q] = at[q]
    BY <1>6 DEF RemoveRow, Between, Works, Working, Typed, TypeOK, Local
  <2>2. \A b \in Name : b # a => row'[b] = row[b]
    BY <1>6 DEF RemoveRow, Typed, TypeOK
  <2> QED
    BY <2>1, <2>2 DEF Owned, Exists, Works
<1>7. ASSUME NEW p \in Procs, Unstore(p) PROVE Owned(k)'
  <2>0. backend \in {"os", "file"} /\ UNCHANGED <<row, abandoned>>
    BY <1>7, BackendsAssumption DEF Unstore, Typed, TypeOK
  <2> DEFINE next == [Between("idle") EXCEPT
                        !.key = IF backend = "file" THEN at[p].key ELSE NoKey]
  <2>1. next \in Local /\ (backend = "file" => next.key = at[p].key)
    BY <1>7 DEF Between, Unstore, Working, Local, Typed, TypeOK, LocalsReady, Ready
  <2>2. KeyringCall(p, Keyring(p) \ {at[p].key}, next)
    BY <1>7 DEF Unstore
  <2> HIDE DEF next
  <2>3. \A q \in Procs : q # p => at'[q] = at[q]
    BY <2>1, <2>2, KeyringCallLocals
  <2>4. CASE backend = "os"
    <3>1. at[p].key # k
      BY <1>7, <2>4 DEF Deletes
    <3> QED
      BY <2>0, <2>3, <3>1 DEF Owned, Exists, Works
  <2>5. CASE backend = "file"
    <3>1. at'[p].pc = "flush" /\ at'[p].key = at[p].key
      BY <2>1, <2>2, <2>5, KeyringCallLocals
    <3> QED
      BY <2>0, <2>3, <3>1, OwnedFrame DEF Works, Working
  <2> QED
    BY <2>0, <2>4, <2>5
<1>8. ASSUME NEW p \in Procs, NEW a \in Name, RowOperation(p, a) PROVE Owned(k)'
  <2>1. UNCHANGED <<at, abandoned>>
    BY <1>8 DEF RowOperation, SetDefault, MarkCooldown, MarkDead, ClearStatus, Update
  <2>2. \A b \in Name : /\ (Exists(b))' <=> Exists(b)
                        /\ Exists(b) => row'[b].key = row[b].key
    BY <1>8, RowOperationRows DEF Typed
  <2> QED
    BY <2>1, <2>2 DEF Owned, Works
<1>9. CASE Tick \/ UNCHANGED vars
  BY <1>9 DEF Tick, vars, Owned, Exists, Works
<1> QED
  BY <1>1, <1>2, <1>3, <1>4, <1>5, <1>6, <1>7, <1>8, <1>9 DEF Next, RowOperation

\* Nothing puts an ownerless secret into the keyring.  (keyring_backend.rs: the
\* file is replaced by a map that only its process changed.)
LEMMA SecretsOwnedStep == Inv /\ SecretsOwned /\ [Next]_vars => SecretsOwned'
<1> SUFFICES ASSUME Inv, SecretsOwned, [Next]_vars PROVE SecretsOwned'
  OBVIOUS
<1>0. /\ Typed /\ backend' = backend /\ backend \in {"os", "file"}
      /\ \A k : Owned(k) /\ ~Deletes(k) => Owned(k)'
  BY BackendFixed, OwnedStep, BackendsAssumption DEF Inv, Typed, TypeOK
<1>a. backend = "file" => \A p \in Procs : at[p].pc # "closed" =>
        FileHeld(p) /\ \A q \in Procs : q # p => at[q].pc = "closed"
  BY DEF Inv, FileSecrets
<1>b. backend = "os" => \A p \in Procs : at[p].pc \notin {"flush", "rename"}
  BY DEF Inv, OsSecrets
<1>1. ASSUME NEW p \in Procs, FlushRename(p) PROVE SecretsOwned'
  <2>1. /\ backend = "file" /\ FileHeld(p) /\ at[p].pc = "rename"
        /\ \A q \in Procs : q # p => at[q].pc = "closed"
    BY <1>0, <1>a, <1>b, <1>1 DEF FlushRename
  <2>2. stored' = cache[p] /\ cache' = cache
    BY <1>1, <2>1 DEF FlushRename, FileHeld
  <2>3. /\ \A q \in Procs : q # p => at'[q] = at[q]
        /\ at'[p].pc \in {"idle", "insert"}
    BY <1>0, <1>1 DEF FlushRename, Return, Goto, Between, Typed, TypeOK, Local
  <2>4. \A k \in cache[p] : Owned(k)'
    <3>1. \A k \in cache[p] : Owned(k)
      BY <2>1 DEF SecretsOwned
    <3>2. \A q \in Procs : FlushRename(q) \/ Unstore(q) => q = p
      BY <2>1 DEF FlushRename, Unstore
    <3>3. at[p].after = "idle" => at[p].key \notin cache[p]
      BY <2>1 DEF SecretsOwned
    <3>4. \A k \in cache[p] : ~Deletes(k)
      BY <2>1, <3>2, <3>3 DEF Deletes
    <3> QED
      BY <1>0, <3>1, <3>4
  <2> QED
    BY <1>0, <2>1, <2>2, <2>3, <2>4 DEF SecretsOwned
<1>2. ASSUME NEW p \in Procs, Unstore(p) PROVE SecretsOwned'
  <2> DEFINE next == [Between("idle") EXCEPT
                        !.key = IF backend = "file" THEN at[p].key ELSE NoKey]
  <2>1. next \in Local /\ next.pc = "idle" /\ (backend = "file" => next.key = at[p].key)
    BY <1>0, <1>2 DEF Between, Unstore, Working, Local, Typed, TypeOK, LocalsReady, Ready
  <2>2. KeyringCall(p, Keyring(p) \ {at[p].key}, next) /\ at[p].pc = "unstore"
    BY <1>2 DEF Unstore
  <2> HIDE DEF next
  <2>3. /\ \A q \in Procs : q # p => at'[q] = at[q]
        /\ IF backend = "os" THEN at'[p].pc = "idle"
           ELSE at'[p].pc = "flush" /\ at'[p].after = "idle"
        /\ backend = "file" => at'[p].key = at[p].key
    BY <1>0, <2>1, <2>2, KeyringCallLocals
  <2>4. CASE backend = "os"
    <3>1. stored' = stored \ {at[p].key}
      BY <2>2, <2>4 DEF KeyringCall, Keyring
    <3>2. ASSUME NEW q \in Procs, q # p, Unstore(q) PROVE FALSE
      <4>1. at'[p] = at[p]
        BY <1>0, <3>2 DEF Unstore, KeyringCall, Typed, TypeOK
      <4> QED
        BY <2>2, <2>3, <2>4, <4>1
    <3>3. \A k : k # at[p].key => ~Deletes(k)
      BY <1>b, <2>4, <3>2 DEF Deletes, FlushRename
    <3> QED
      BY <1>0, <2>4, <3>1, <3>3 DEF SecretsOwned
  <2>5. CASE backend = "file"
    <3>1. /\ stored' = stored /\ cache'[p] = cache[p] \ {at[p].key}
          /\ \A q \in Procs : q # p => cache'[q] = cache[q]
      BY <1>0, <2>2, <2>5 DEF KeyringCall, Keyring, Typed, TypeOK
    <3>2. \A k : ~Deletes(k)
      BY <1>a, <2>2, <2>5 DEF Deletes, FlushRename
    <3> QED
      BY <1>0, <2>2, <2>3, <2>5, <3>1, <3>2 DEF SecretsOwned
  <2> QED
    BY <1>0, <2>4, <2>5
<1>3. ASSUME \A p \in Procs : ~FlushRename(p) /\ ~Unstore(p) PROVE SecretsOwned'
  <2>0. \A k : Owned(k) => Owned(k)'
    BY <1>0, <1>3 DEF Deletes
  <2>1. ASSUME NEW p \in Procs, Open(p) PROVE SecretsOwned'
    <3>1. /\ stored' = stored /\ (backend = "file" => cache'[p] = stored)
          /\ at'[p].pc = "idle"
          /\ \A q \in Procs : q # p => at'[q] = at[q] /\ cache'[q] = cache[q]
      BY <1>0, <2>1 DEF Open, Goto, Typed, TypeOK, Local
    <3> QED
      BY <1>0, <2>0, <3>1 DEF SecretsOwned
  <2>2. ASSUME NEW p \in Procs, NEW a \in Name, NEW d \in BOOLEAN, AddBegin(p, a, d)
        PROVE  SecretsOwned'
    <3>0. PICK k0 : k0 = adds + 1
      OBVIOUS
    <3> DEFINE next == [Between("insert") EXCEPT !.name = a, !.key = k0, !.default = d]
    <3>1. k0 \in Keys
      BY <1>0, <2>2, <3>0, BoundsAssumption DEF AddBegin, Typed, TypeOK, Keys
    <3>2. KeyringCall(p, Keyring(p) \cup {k0}, next) /\ at[p].pc = "idle"
      BY <2>2, <3>0 DEF AddBegin
    <3>3. next \in Local /\ next.key = k0 /\ next.pc = "insert"
      BY <3>1 DEF Between, Local
    <3> HIDE DEF next
    <3>4. /\ at'[p].key = k0 /\ \A q \in Procs : q # p => at'[q] = at[q]
          /\ IF backend = "os" THEN at'[p].pc = "insert"
             ELSE at'[p].pc = "flush" /\ at'[p].after = "insert"
      BY <1>0, <3>2, <3>3, KeyringCallLocals
    <3>5. Owned(k0)'
      BY <3>4 DEF Owned, Works, Working
    <3>6. CASE backend = "os"
      BY <1>0, <2>0, <3>2, <3>5, <3>6 DEF KeyringCall, Keyring, SecretsOwned
    <3>7. CASE backend = "file"
      <4>1. /\ stored' = stored /\ cache'[p] = cache[p] \cup {k0}
            /\ \A q \in Procs : q # p => cache'[q] = cache[q]
        BY <1>0, <3>2, <3>7 DEF KeyringCall, Keyring, Typed, TypeOK
      <4> QED
        BY <1>0, <2>0, <3>2, <3>4, <3>5, <3>7, <4>1 DEF SecretsOwned
    <3> QED
      BY <1>0, <3>6, <3>7
  <2>3. ASSUME NEW p \in Procs, stored' = stored,
               \A q \in Procs : q # p => at'[q] = at[q] /\ cache'[q] = cache[q],
               at'[p].pc # "closed" =>
                 /\ cache'[p] = cache[p] /\ at[p].pc # "closed"
                 /\ at'[p].pc \in {"flush", "rename"} =>
                      /\ at[p].pc \in {"flush", "rename"}
                      /\ at'[p].after = at[p].after /\ at'[p].key = at[p].key
        PROVE  SecretsOwned'
    BY <1>0, <2>0, <2>3 DEF SecretsOwned
  <2>4. ASSUME NEW p \in Procs,
               \/ Leave(p) \/ FlushWrite(p) \/ FlushFails(p) \/ AddInsert(p)
               \/ AddRefused(p) \/ AddFails(p) \/ UnstoreFails(p) \/ LoadSecret(p)
        PROVE  SecretsOwned'
    <3>1. /\ stored' = stored
          /\ \A q \in Procs : q # p => at'[q] = at[q] /\ cache'[q] = cache[q]
      BY <1>0, <2>4 DEF Leave, FlushWrite, FlushFails, AddInsert, AddRefused, AddFails,
         UnstoreFails, LoadSecret, Goto, Return, Typed, TypeOK
    <3>2. \/ at'[p].pc = "closed"
          \/ /\ cache' = cache /\ at[p].pc # "closed"
             /\ \/ at'[p].pc \in {"idle", "unstore"}
                \/ /\ at[p].pc = "flush"
                   /\ at'[p].after = at[p].after /\ at'[p].key = at[p].key
      BY <1>0, <2>4 DEF Leave, FlushWrite, FlushFails, AddInsert, AddRefused, AddFails,
         UnstoreFails, LoadSecret, Goto, Return, Between, Typed, TypeOK, Local
    <3> QED
      BY <2>3, <3>1, <3>2
  <2>5. ASSUME NEW p \in Procs, NEW a \in Name, Resolve(p, a) \/ LoadKey(p, a)
        PROVE  SecretsOwned'
    <3> DEFINE next == [Between("load") EXCEPT !.name = a, !.key = row[a].key]
    <3>1. /\ stored' = stored /\ cache' = cache /\ at[p].pc = "idle"
          /\ at' = [at EXCEPT ![p] = next]
      BY <2>5 DEF Resolve, LoadKey, ReadRow
    <3>2. next.pc = "load"
      BY DEF Between
    <3> HIDE DEF next
    <3>3. at'[p].pc = "load" /\ \A q \in Procs : q # p => at'[q] = at[q]
      BY <1>0, <3>1, <3>2 DEF Typed, TypeOK
    <3> QED
      BY <2>3, <3>1, <3>3
  <2>6. ASSUME NEW p \in Procs, NEW a \in Name, RemoveRow(p, a) PROVE SecretsOwned'
    <3>1. /\ stored' = stored /\ cache' = cache /\ at[p].pc = "idle"
          /\ at'[p].pc = "unstore" /\ \A q \in Procs : q # p => at'[q] = at[q]
      BY <1>0, <2>6 DEF RemoveRow, Between, Typed, TypeOK
    <3> QED
      BY <2>3, <3>1
  <2>7. ASSUME UNCHANGED <<stored, cache, at>> PROVE SecretsOwned'
    BY <1>0, <2>0, <2>7 DEF SecretsOwned
  <2>8. ASSUME NEW p \in Procs, NEW a \in Name, RowOperation(p, a) PROVE SecretsOwned'
    BY <2>7, <2>8 DEF RowOperation, SetDefault, MarkCooldown, MarkDead, ClearStatus,
       Update
  <2>9. CASE Tick \/ UNCHANGED vars
    BY <2>7, <2>9 DEF Tick, vars
  <2> QED
    BY <1>3, <2>1, <2>2, <2>4, <2>5, <2>6, <2>8, <2>9 DEF Next, RowOperation
<1> QED
  BY <1>1, <1>2, <1>3

\* The normal paths leave no secret behind, whichever way operations of several
\* processes interleave: what is in the keyring has a row, or an operation that
\* will store or delete it, or was left by a kill or an error.  Not so when
\* several processes use one keyring file.  (sqlite.rs: add's roll back, remove.)
THEOREM SecretsAreAccounted ==
  ASSUME Shared \subseteq {"os"}
  PROVE  Spec => []SecretsAccounted
<1>1. Init => SecretsOwned
  BY DEF Init, SecretsOwned, Between
<1>2. Inv /\ SecretsOwned => SecretsAccounted
  <2> SUFFICES ASSUME Inv, SecretsOwned PROVE SecretsAccounted
    OBVIOUS
  <2>1. \A p \in Procs : Works(p) => at[p].pc \notin {"closed", "idle", "load"}
    BY DEF Works, Working
  <2> QED
    BY <2>1 DEF SecretsOwned, SecretsAccounted, Owned
<1> QED
  BY <1>1, <1>2, InvHolds, SecretsOwnedStep, PTL DEF Spec

-----------------------------------------------------------------------------
(* SQLite and a keyring implement the atomic store *)

\* Every step is a step of the atomic store, or none.  (store.rs; sqlite.rs.)
LEMMA StepImplements ==
  Inv /\ Inv' /\ [Next]_vars => [Promise!Next]_Usable
<1> SUFFICES ASSUME Inv, Inv', [Next]_vars PROVE Promise!Next \/ Usable' = Usable
  OBVIOUS
<1>0. Usable = row /\ Usable' = row'
  <2>1. Typed /\ EveryRowHasItsSecret /\ Typed' /\ EveryRowHasItsSecret'
    BY BackendsAssumption DEF Inv, Typed, TypeOK, OsSecrets, FileSecrets
  <2>2. Usable = row
    BY <2>1 DEF Usable, EveryRowHasItsSecret, Exists, Typed, TypeOK
  <2>3. Usable' = row'
    BY <2>1 DEF Usable, EveryRowHasItsSecret, Exists, Typed, TypeOK
  <2> QED
    BY <2>2, <2>3
<1> USE DEF Name, Promise!Name
<1>1. ASSUME NEW p \in Procs, AddInsert(p) PROVE Promise!Next
  <2> DEFINE a == at[p].name k == at[p].key d == at[p].default
  <2>1. a \in Name /\ k \in Keys /\ d \in BOOLEAN /\ ~Exists(a) /\ Works(p)
    BY <1>1 DEF AddInsert, Inv, Works, Working, Typed, TypeOK, LocalsReady, Ready,
       Local
  <2>2. \A b \in Name : Exists(b) => row[b].key # k
    BY <2>1 DEF Inv, KeysApart
  <2>3. row' = Inserted(a, k, d)
    BY <1>1 DEF AddInsert
  <2> HIDE DEF a, k, d
  <2>4. Promise!Add(a, k, d)
    BY <1>0, <2>1, <2>2, <2>3
    DEF Promise!Add, Promise!Held, Promise!Demoted, Promise!OfProvider, Inserted,
        InsertInto, Cleared, Exists
  <2> QED
    BY <2>1, <2>4 DEF Promise!Next
<1>2. ASSUME NEW p \in Procs, NEW a \in Name, RemoveRow(p, a) PROVE Promise!Next
  BY <1>0, <1>2 DEF RemoveRow, Exists, Promise!Next, Promise!Remove, Promise!Held
<1>3. ASSUME NEW p \in Procs, NEW a \in Name, SetDefault(p, a) PROVE Promise!Next
  BY <1>0, <1>3 DEF SetDefault, Update, Cleared, Exists, Promise!Next,
     Promise!SetDefault, Promise!Demoted, Promise!Held
<1>4. ASSUME NEW p \in Procs, NEW a \in Name, NEW t \in Times, MarkCooldown(p, a, t)
      PROVE  Promise!Next
  BY <1>0, <1>4 DEF MarkCooldown, Update, Exists, Promise!Next,
     Promise!MarkCooldown, Promise!SetStatus, Promise!Held
<1>5. ASSUME NEW p \in Procs, NEW a \in Name, MarkDead(p, a) \/ ClearStatus(p, a)
      PROVE  Promise!Next
  BY <1>0, <1>5 DEF MarkDead, ClearStatus, Update, Exists, Promise!Next,
     Promise!MarkDead, Promise!ClearStatus, Promise!SetStatus, Promise!Held
<1>6. CASE UNCHANGED row
  BY <1>0, <1>6
<1> QED
  BY <1>1, <1>2, <1>3, <1>4, <1>5, <1>6 DEF Next, Open, Leave, FlushWrite,
     FlushRename, FlushFails, AddBegin, AddRefused, AddFails, Unstore,
     UnstoreFails, Resolve, LoadKey, ReadRow, LoadSecret, Tick, vars

\* Whatever is killed or fails, callers see the atomic store: an account appears
\* and disappears with its secret, in one step.  Not so when several processes
\* use one keyring file.  (sqlite.rs, Atomicity; store.rs.)
THEOREM Implements ==
  ASSUME Shared \subseteq {"os"}
  PROVE  Spec => ImplementsAccountStore
<1>1. Init => Promise!Init
  BY DEF Init, Promise!Init, Promise!Name, Name, Usable, Exists
<1> QED
  BY <1>1, InvHolds, StepImplements, PTL
  DEF Spec, ImplementsAccountStore, Promise!Spec
=============================================================================
