-------------------------- MODULE PersistenceProofs --------------------------
(***************************************************************************)
(* Proofs about what mscode keeps on disk.                                 *)
(*                                                                         *)
(* SessionLog, for every number of events: with one handle open at a time  *)
(* and nothing damaged, the log is always a sequence of whole lines and at *)
(* most a part of one more, whatever crashed; so it can be opened, it      *)
(* gives the state the handle had, and it has every event that was         *)
(* acknowledged.  With any number of handles and any damage, no event is   *)
(* counted that was not emitted.                                           *)
(*                                                                         *)
(* CivilTime and Stores, for every number of callers, rows and instants:   *)
(* the text of a later instant is the greater text, so that the session    *)
(* list, which is ordered by texts, shows the last sessions; and a memory  *)
(* stays under the scope it was given, counted once for every touch.       *)
(***************************************************************************)
EXTENDS SessionLog, Stores, NumberLemmas, FiniteSetTheorems, SequenceTheorems, TLAPS

\* One Orchestrator at a time has the session open.  Nothing in the code sees to
\* it: there is no lock on the log.  (orchestrator.rs: open.)
OneHandle == \A g, h \in Handles : g = h

-----------------------------------------------------------------------------
(* The inductive invariant *)

HeadOf(e) == [part |-> "head", of |-> e]
RestOf(e) == [part |-> "rest", of |-> e]

\* Everything was accepted so far; a line is complete, or has begun.
Acc(line, s, events) == [ok |-> TRUE, line |-> line, state |-> s, events |-> events]

Good(a) ==
  /\ a = Acc(a.line, a.state, a.events)
  /\ a.events \in Seq(Event)
  /\ \/ a.line = <<>>
     \/ \E e \in Event : a.line = <<HeadOf(e)>>
     \/ \E e \in Event : a.line = <<HeadOf(e), RestOf(e)>> /\ Applies(a.state, e)

\* Also after a power failure, wherever it cuts the file.
GoodLog(f) == \A n \in 0 .. Len(f) : Good(Reading(f)[n])

\* What is read of the whole file.
Read(f) == Reading(f)[Len(f)]

\* The line of e is being appended to f; b is what is still to be written of it.
Appending(f, b, s, e, acks) ==
  LET a == Read(f) IN
  /\ e \in Event /\ Applies(s, e)
  /\ \/ a.line = <<>> /\ a.state = s /\ b = Line(e)
     \/ a.line = <<HeadOf(e)>> /\ a.state = s /\ b = <<RestOf(e), Newline>>
     \/ a.line = <<HeadOf(e), RestOf(e)>> /\ a.state = s /\ b = <<Newline>>
     \/ /\ a.line = <<>> /\ a.state = Applied(s, e) /\ b = <<>>
        /\ IsSubsequence(Append(acks, e), a.events)

\* Where the handle is.
Standing(h) ==
  LET a == Read(file) IN
  /\ mode[h] # "emitting" => buf[h] = <<>>
  /\ mode[h] = "repaired" => RepairedLength(file) = Len(file)
  /\ mode[h] = "idle" => a.line = <<>> /\ a.state = state[h]
  /\ mode[h] = "emitting" => Appending(file, buf[h], state[h], event[h], acked)

\* Events that were acknowledged are in the file, events that were made durable
\* in the part of it that a power failure leaves.
Kept ==
  /\ IsSubsequence(acked, Read(file).events)
  /\ IsSubsequence(durable, Reading(file)[synced].events)

Healthy == GoodLog(file) /\ Kept /\ \A h \in Handles : Standing(h)

LogTyped ==
  /\ file \in Seq(Token) /\ synced \in 0 .. Len(file) /\ emits \in 0 .. MaxEmits
  /\ mode \in [Handles -> {"closed", "cutting", "repaired", "idle", "emitting"}]
  /\ cut \in [Handles -> Nat] /\ buf \in [Handles -> Seq(Token)]
  /\ event \in [Handles -> Event \cup {NoEvent}] /\ DOMAIN state = Handles
  /\ \A h \in Handles : mode[h] = "emitting" => event[h] \in Event
  /\ acked \in Seq(Event) /\ durable \in Seq(Event)

\* What a repair decided on is still what the file needs when it is cut.
Judged ==
  \A h \in Handles : mode[h] = "cutting" =>
    cut[h] = RepairedLength(file) /\ cut[h] # Len(file)

LogInv == LogTyped /\ Judged /\ (damage = {} => Healthy)

-----------------------------------------------------------------------------
(* Reading *)

Start == [ok |-> TRUE, line |-> <<>>, state |-> NewState, events |-> <<>>]

\* The function that Reading defines by recursion exists.
Follows(g, f, n) ==
  g = [m \in 0 .. n |-> IF m = 0 THEN Start ELSE ReadToken(g[m - 1], f[m])]

LEMMA FollowsExists ==
  ASSUME NEW f, NEW k \in Nat PROVE \E g : Follows(g, f, k)
<1> DEFINE T == {n \in Nat : \E g : Follows(g, f, n)}
<1>1. 0 \in T
  <2> DEFINE g == [m \in 0 .. 0 |-> Start]
  <2>1. g = [m \in 0 .. 0 |-> IF m = 0 THEN Start ELSE ReadToken(g[m - 1], f[m])]
    OBVIOUS
  <2> QED
    BY <2>1 DEF Follows
<1>2. ASSUME NEW n \in 0 .. k, n < k, n \in T PROVE n + 1 \in T
  <2>1. PICK g : Follows(g, f, n)
    BY <1>2
  <2> DEFINE h == [m \in 0 .. n + 1 |-> IF m = n + 1 THEN ReadToken(g[n], f[n + 1]) ELSE g[m]]
             next(m) == IF m = 0 THEN Start ELSE ReadToken(h[m - 1], f[m])
  <2>2. ASSUME NEW m \in 0 .. n + 1 PROVE h[m] = next(m)
    <3>1. CASE m = n + 1
      <4>1. h[m] = ReadToken(g[n], f[n + 1]) /\ h[m - 1] = g[n] /\ m # 0
        BY <3>1
      <4> HIDE DEF h
      <4> QED
        BY <3>1, <4>1
    <3>2. CASE m # n + 1
      <4>1. m \in 0 .. n /\ h[m] = g[m] /\ (m # 0 => h[m - 1] = g[m - 1])
        BY <3>2
      <4>2. g[m] = IF m = 0 THEN Start ELSE ReadToken(g[m - 1], f[m])
        BY <2>1, <4>1 DEF Follows
      <4> HIDE DEF h
      <4> QED
        BY <4>1, <4>2
    <3> QED
      BY <3>1, <3>2
  <2>3. h = [m \in 0 .. n + 1 |-> h[m]]
    OBVIOUS
  <2>4. Follows(h, f, n + 1)
    <3> HIDE DEF h
    <3> QED
      BY <2>2, <2>3 DEF Follows
  <2> QED
    BY <2>4
<1> HIDE DEF T
<1>3. k \in T
  BY <1>1, <1>2, Climb
<1> QED
  BY <1>3 DEF T

LEMMA ReadingStep ==
  ASSUME NEW S, NEW f \in Seq(S)
  PROVE  /\ Reading(f)[0] = Start
         /\ \A n \in 1 .. Len(f) : Reading(f)[n] = ReadToken(Reading(f)[n - 1], f[n])
<1>1. Len(f) \in Nat
  OBVIOUS
<1>2. \E g : Follows(g, f, Len(f))
  BY <1>1, FollowsExists
<1>3. Follows(Reading(f), f, Len(f))
  BY <1>2 DEF Follows, Reading, Start
<1> QED
  BY <1>1, <1>3 DEF Follows

\* The reader does not look ahead.
LEMMA ReadingPrefix ==
  ASSUME NEW S, NEW f \in Seq(S), NEW g \in Seq(S), NEW k \in Nat,
         k <= Len(f), k <= Len(g), \A i \in 1 .. k : f[i] = g[i]
  PROVE  \A n \in 0 .. k : Reading(f)[n] = Reading(g)[n]
<1> DEFINE T == {n \in Nat : Reading(f)[n] = Reading(g)[n]}
<1>1. 0 \in T
  BY ReadingStep
<1>2. ASSUME NEW n \in 0 .. k, n < k, n \in T PROVE n + 1 \in T
  <2>1. /\ n + 1 \in 1 .. Len(f) /\ n + 1 \in 1 .. Len(g) /\ f[n + 1] = g[n + 1]
        /\ (n + 1) - 1 = n
    BY <1>2
  <2>2. /\ Reading(f)[n + 1] = ReadToken(Reading(f)[n], f[n + 1])
        /\ Reading(g)[n + 1] = ReadToken(Reading(g)[n], g[n + 1])
    BY <2>1, ReadingStep
  <2> QED
    BY <1>2, <2>1, <2>2
<1>3. 0 .. k \subseteq T
  <2> HIDE DEF T
  <2> QED
    BY <1>1, <1>2, Climb
<1> QED
  BY <1>3

\* What a token does to what was read.
LEMMA TokenProps ==
  ASSUME NEW line \in Seq(Token), NEW s, NEW events \in Seq(Event)
  PROVE  /\ \A t : t # Newline =>
              ReadToken(Acc(line, s, events), t) = Acc(Append(line, t), s, events)
         /\ line = <<>> => ReadToken(Acc(line, s, events), Newline) = Acc(<<>>, s, events)
         /\ \A e \in Event : line = <<HeadOf(e), RestOf(e)>> /\ Applies(s, e) =>
              ReadToken(Acc(line, s, events), Newline)
                = Acc(<<>>, Applied(s, e), Append(events, e))
<1>1. ASSUME NEW t, t # Newline
      PROVE  ReadToken(Acc(line, s, events), t) = Acc(Append(line, t), s, events)
  BY <1>1 DEF ReadToken, Acc
<1>2. ASSUME line = <<>>
      PROVE  EndLine(Acc(line, s, events)) = Acc(<<>>, s, events)
  BY <1>2 DEF EndLine, Acc
<1>3. ASSUME NEW e \in Event, line = <<HeadOf(e), RestOf(e)>>, Applies(s, e)
      PROVE  EndLine(Acc(line, s, events)) = Acc(<<>>, Applied(s, e), Append(events, e))
  <2>1. line # <<>> /\ line[1].of = e /\ IsEventText(line)
    BY <1>3 DEF IsEventText, HeadOf, RestOf, Line
  <2> QED
    BY <1>3, <2>1 DEF EndLine, Acc
<1> QED
  BY <1>1, <1>2, <1>3 DEF ReadToken

\* Where the last line begins.
LEMMA LastNewlineProps ==
  ASSUME NEW f \in Seq(Token)
  PROVE  /\ Len(f) \in Nat /\ LastNewline(f) \in 0 .. Len(f)
         /\ LastNewline(f) # 0 => f[LastNewline(f)] = Newline
         /\ \A i \in LastNewline(f) + 1 .. Len(f) : f[i] # Newline
<1> DEFINE at == {i \in DOMAIN f : f[i] = Newline}
<1>1. Len(f) \in Nat /\ at \subseteq 1 .. Len(f)
  OBVIOUS
<1>2. LastNewline(f) = IF at = {} THEN 0 ELSE Max(at)
  BY DEF LastNewline
<1>3. CASE at = {}
  BY <1>1, <1>2, <1>3
<1>4. CASE at # {}
  <2>1. Max(at) \in at /\ \A i \in at : i <= Max(at)
    <3> HIDE DEF at
    <3> QED
      BY <1>1, <1>4, GreatestNumber
  <2>2. LastNewline(f) = Max(at)
    BY <1>2, <1>4
  <2>3. PICK x : x = Max(at)
    OBVIOUS
  <2>4. x \in 1 .. Len(f) /\ f[x] = Newline /\ \A i \in at : i <= x
    BY <2>1, <2>3
  <2>5. \A i \in x + 1 .. Len(f) : f[i] # Newline
    BY <1>1, <2>4
  <2> QED
    BY <1>1, <2>2, <2>3, <2>4, <2>5
<1> QED
  BY <1>3, <1>4

LEMMA GoodLine ==
  ASSUME NEW a, Good(a)
  PROVE  a.line \in Seq(Token) /\ a.events \in Seq(Event) /\ a.ok
<1>1. a.ok
  BY DEF Good, Acc
<1>2. \A e \in Event : HeadOf(e) \in Token /\ RestOf(e) \in Token
  BY DEF Token, HeadOf, RestOf
<1>3. /\ <<>> \in Seq(Token)
      /\ \A x, y \in Token : <<x>> \in Seq(Token) /\ <<x, y>> \in Seq(Token)
  OBVIOUS
<1>4. a.line \in Seq(Token)
  BY <1>2, <1>3 DEF Good
<1> QED
  BY <1>1, <1>4 DEF Good

\* A newline that is accepted ends the line.
LEMMA NewlineProps ==
  ASSUME NEW a, Good(a), Good(EndLine(a)) PROVE EndLine(a).line = <<>>
<1>1. a.ok /\ EndLine(a).ok
  BY GoodLine
<1>2. CASE a.line = <<>>
  BY <1>2 DEF EndLine
<1>3. CASE a.line # <<>> /\ IsEventText(a.line) /\ Applies(a.state, a.line[1].of)
  <2>1. EndLine(a) = [a EXCEPT !.line = <<>>, !.state = Applied(@, a.line[1].of),
                               !.events = Append(@, a.line[1].of)]
    BY <1>1, <1>3 DEF EndLine
  <2> QED
    BY <2>1 DEF Good, Acc
<1>4. CASE a.line # <<>> /\ ~(IsEventText(a.line) /\ Applies(a.state, a.line[1].of))
  <2>1. EndLine(a) = [a EXCEPT !.ok = FALSE]
    BY <1>1, <1>4 DEF EndLine
  <2> QED
    BY <1>1, <2>1 DEF Good, Acc
<1> QED
  BY <1>2, <1>3, <1>4

\* The line that has begun is what follows the last newline.
LEMMA TailProps ==
  ASSUME NEW f \in Seq(Token), GoodLog(f)
  PROVE  LET n == LastNewline(f) IN
         /\ Reading(f)[n].line = <<>>
         /\ \A m \in n .. Len(f) :
              Reading(f)[m] = Acc(SubSeq(f, n + 1, m), Reading(f)[n].state,
                                  Reading(f)[n].events)
<1> DEFINE n == LastNewline(f)
           s == Reading(f)[n].state
           es == Reading(f)[n].events
<1>1. /\ Len(f) \in Nat /\ n \in 0 .. Len(f) /\ (n # 0 => f[n] = Newline)
      /\ \A i \in n + 1 .. Len(f) : f[i] # Newline
  BY LastNewlineProps
<1>2. /\ Reading(f)[0] = Start
      /\ \A i \in 1 .. Len(f) : Reading(f)[i] = ReadToken(Reading(f)[i - 1], f[i])
  BY ReadingStep
<1>3. Good(Reading(f)[n])
  BY <1>1 DEF GoodLog
<1>4. Reading(f)[n].line = <<>>
  <2>1. CASE n = 0
    BY <1>2, <2>1 DEF Start
  <2>2. CASE n # 0
    <3>1. n \in 1 .. Len(f) /\ n - 1 \in 0 .. Len(f)
      BY <1>1, <2>2
    <3>2. Reading(f)[n] = EndLine(Reading(f)[n - 1])
      BY <1>1, <1>2, <2>2, <3>1 DEF ReadToken
    <3>3. Good(Reading(f)[n - 1])
      BY <3>1 DEF GoodLog
    <3> QED
      BY <1>3, <3>2, <3>3, NewlineProps
  <2> QED
    BY <2>1, <2>2
<1> DEFINE T == {m \in Nat : Reading(f)[m] = Acc(SubSeq(f, n + 1, m), s, es)}
<1> HIDE DEF n, s, es
<1>5. n \in T
  <2>1. SubSeq(f, n + 1, n) = <<>>
    BY <1>1
  <2>2. Reading(f)[n] = Acc(<<>>, s, es)
    BY <1>3, <1>4 DEF Good, s, es
  <2>3. Reading(f)[n] = Acc(SubSeq(f, n + 1, n), s, es)
    BY <2>1, <2>2, Zenon
  <2>4. n \in Nat
    BY <1>1
  <2> QED
    BY <2>3, <2>4
<1>6. es \in Seq(Event)
  BY <1>3, GoodLine DEF es
<1>7. ASSUME NEW m \in n .. Len(f), m < Len(f), m \in T PROVE m + 1 \in T
  <2> DEFINE line == SubSeq(f, n + 1, m)
  <2>1. m + 1 \in 1 .. Len(f) /\ (m + 1) - 1 = m /\ f[m + 1] # Newline /\ m + 1 \in Nat
    BY <1>1, <1>7
  <2>2. line \in Seq(Token) /\ Append(line, f[m + 1]) = SubSeq(f, n + 1, m + 1)
    BY <1>1, <1>7
  <2>3. Reading(f)[m + 1] = ReadToken(Acc(line, s, es), f[m + 1])
    BY <1>2, <1>7, <2>1
  <2> HIDE DEF line
  <2>4. \A t : t # Newline => ReadToken(Acc(line, s, es), t) = Acc(Append(line, t), s, es)
    BY <1>6, <2>2, TokenProps
  <2>5. Reading(f)[m + 1] = Acc(SubSeq(f, n + 1, m + 1), s, es)
    BY <2>1, <2>2, <2>3, <2>4
  <2> QED
    BY <2>1, <2>5
<1>8. n .. Len(f) \subseteq T
  <2> HIDE DEF T
  <2>1. n \in Nat /\ Len(f) \in Nat
    BY <1>1
  <2> QED
    BY <1>5, <1>7, <2>1, Climb
<1> QED
  BY <1>4, <1>8 DEF n, s, es

LEMMA EventText ==
  /\ ~IsEventText(<<>>)
  /\ \A e \in Event : ~IsEventText(<<HeadOf(e)>>) /\ IsEventText(<<HeadOf(e), RestOf(e)>>)
BY DEF IsEventText, HeadOf, RestOf, Line

\* A prefix of a log is read like the log.
LEMMA PrefixProps ==
  ASSUME NEW f \in Seq(Token), NEW k \in 0 .. Len(f)
  PROVE  LET g == SubSeq(f, 1, k) IN
         /\ g \in Seq(Token) /\ Len(g) = k /\ \A i \in 1 .. k : g[i] = f[i]
         /\ \A n \in 0 .. k : Reading(g)[n] = Reading(f)[n]
         /\ Read(g) = Reading(f)[k]
         /\ GoodLog(f) => GoodLog(g)
<1> DEFINE g == SubSeq(f, 1, k)
<1>1. k \in Nat /\ k <= Len(f) /\ Len(f) \in Nat
  OBVIOUS
<1>2. g \in Seq(Token) /\ Len(g) = k /\ \A i \in 1 .. k : g[i] = f[i]
  OBVIOUS
<1> HIDE DEF g
<1>3. \A n \in 0 .. k : Reading(g)[n] = Reading(f)[n]
  BY <1>1, <1>2, ReadingPrefix
<1>4. Read(g) = Reading(f)[k]
  BY <1>1, <1>2, <1>3 DEF Read
<1>5. GoodLog(f) => GoodLog(g)
  <2> SUFFICES ASSUME GoodLog(f), NEW n \in 0 .. Len(g) PROVE Good(Reading(g)[n])
    BY DEF GoodLog
  <2>1. n \in 0 .. k /\ n \in 0 .. Len(f)
    BY <1>1, <1>2
  <2>2. Good(Reading(f)[n])
    BY <2>1 DEF GoodLog
  <2> QED
    BY <1>3, <2>1, <2>2
<1> QED
  BY <1>2, <1>3, <1>4, <1>5 DEF g

\* repair_truncated_tail keeps everything, or all lines that are complete.
LEMMA RepairProps ==
  ASSUME NEW f \in Seq(Token), GoodLog(f)
  PROVE  LET a == Read(f)
             r == RepairedLength(f)
         IN
         /\ Good(a) /\ r \in 0 .. Len(f)
         /\ a.line = <<>> <=> f = <<>> \/ Last(f) = Newline
         /\ a.line = <<>> => r = Len(f)
         /\ r = Len(f) => a.line = <<>> \/ \E e \in Event :
                            a.line = <<HeadOf(e), RestOf(e)>> /\ Applies(a.state, e)
         /\ r # Len(f) =>
              /\ r = LastNewline(f) /\ Reading(f)[r].line = <<>>
              /\ \A m \in r .. Len(f) : /\ Reading(f)[m].events = a.events
                                        /\ Reading(f)[m].state = a.state
<1> DEFINE a == Read(f)
           r == RepairedLength(f)
           n == LastNewline(f)
           tail == SubSeq(f, n + 1, Len(f))
<1>1. /\ Len(f) \in Nat /\ n \in 0 .. Len(f) /\ (n # 0 => f[n] = Newline)
      /\ \A i \in n + 1 .. Len(f) : f[i] # Newline
  BY LastNewlineProps
<1>2. Good(a)
  BY <1>1 DEF GoodLog, Read
<1>3. /\ Reading(f)[n].line = <<>>
      /\ \A m \in n .. Len(f) :
           Reading(f)[m] = Acc(SubSeq(f, n + 1, m), Reading(f)[n].state, Reading(f)[n].events)
  BY TailProps
<1>4. a = Acc(tail, Reading(f)[n].state, Reading(f)[n].events)
  <2>1. Len(f) \in n .. Len(f)
    BY <1>1
  <2> QED
    BY <1>3, <2>1 DEF Read
<1>5. /\ a.line = tail /\ a.state = Reading(f)[n].state /\ a.events = Reading(f)[n].events
  <2> HIDE DEF tail, a
  <2> QED
    BY <1>4 DEF Acc
<1>6. r = IF IsEventText(tail) THEN Len(f) ELSE n
  BY DEF RepairedLength
<1>7. tail \in Seq(Token) /\ Len(tail) = Len(f) - n
  BY <1>1
<1>8. tail = <<>> <=> n = Len(f)
  <2> HIDE DEF tail, n
  <2> QED
    BY <1>1, <1>7
<1>9. n = Len(f) <=> f = <<>> \/ Last(f) = Newline
  BY <1>1 DEF Last
<1>10. r \in 0 .. Len(f)
  BY <1>1, <1>6
<1> HIDE DEF tail, a, r, n
<1>11. a.line = <<>> => r = Len(f)
  BY <1>5, <1>6, <1>8
<1>12. r = Len(f) => a.line = <<>> \/ \E e \in Event :
                       a.line = <<HeadOf(e), RestOf(e)>> /\ Applies(a.state, e)
  <2>1. ASSUME r = Len(f), a.line # <<>> PROVE IsEventText(a.line)
    BY <1>5, <1>6, <1>8, <2>1
  <2> QED
    BY <1>2, <2>1, EventText DEF Good
<1>13. ASSUME r # Len(f)
       PROVE  /\ r = n /\ Reading(f)[r].line = <<>>
              /\ \A m \in r .. Len(f) : /\ Reading(f)[m].events = a.events
                                        /\ Reading(f)[m].state = a.state
  <2>1. r = n
    BY <1>6, <1>13
  <2>2. ASSUME NEW m \in n .. Len(f)
        PROVE  Reading(f)[m].events = a.events /\ Reading(f)[m].state = a.state
    <3>1. PICK l : Reading(f)[m] = Acc(l, a.state, a.events)
      BY <1>3, <1>5
    <3> QED
      BY <3>1 DEF Acc
  <2> QED
    BY <1>3, <2>1, <2>2
<1> QED
  BY <1>2, <1>5, <1>8, <1>9, <1>10, <1>11, <1>12, <1>13 DEF a, r, n

-----------------------------------------------------------------------------
(* Subsequences *)

LEMMA SubsequenceGrows ==
  ASSUME NEW S, NEW s \in Seq(S), NEW t \in Seq(S), NEW e \in S, IsSubsequence(s, t)
  PROVE  IsSubsequence(s, Append(t, e)) /\ IsSubsequence(Append(s, e), Append(t, e))
<1>1. PICK at \in [DOMAIN s -> DOMAIN t] :
        \A i, j \in DOMAIN s : s[i] = t[at[i]] /\ (i < j => at[i] < at[j])
  BY DEF IsSubsequence
<1> DEFINE u == Append(t, e)
           v == Append(s, e)
<1>2. /\ Len(s) \in Nat /\ Len(t) \in Nat /\ DOMAIN s = 1 .. Len(s) /\ DOMAIN t = 1 .. Len(t)
      /\ DOMAIN u = 1 .. Len(t) + 1 /\ DOMAIN v = 1 .. Len(s) + 1
      /\ u[Len(t) + 1] = e /\ v[Len(s) + 1] = e
      /\ \A i \in 1 .. Len(t) : u[i] = t[i]
      /\ \A i \in 1 .. Len(s) : v[i] = s[i]
  OBVIOUS
<1> HIDE DEF u, v
<1>3. IsSubsequence(s, u)
  <2>1. at \in [DOMAIN s -> DOMAIN u]
    BY <1>2
  <2>2. \A i, j \in DOMAIN s : s[i] = u[at[i]] /\ (i < j => at[i] < at[j])
    BY <1>1, <1>2
  <2> QED
    BY <2>1, <2>2 DEF IsSubsequence
<1>4. IsSubsequence(v, u)
  <2> DEFINE to == [i \in DOMAIN v |-> IF i = Len(s) + 1 THEN Len(t) + 1 ELSE at[i]]
  <2>1. to \in [DOMAIN v -> DOMAIN u]
    BY <1>2
  <2>2. \A i \in DOMAIN s : to[i] = at[i] /\ i \in DOMAIN v /\ at[i] \in 1 .. Len(t)
    BY <1>2
  <2>3. to[Len(s) + 1] = Len(t) + 1
    BY <1>2
  <2> HIDE DEF to
  <2>4. ASSUME NEW i \in DOMAIN v, NEW j \in DOMAIN v
        PROVE  v[i] = u[to[i]] /\ (i < j => to[i] < to[j])
    <3>1. CASE i \in DOMAIN s /\ j \in DOMAIN s
      BY <1>1, <1>2, <2>2, <3>1
    <3>2. CASE i \in DOMAIN s /\ j = Len(s) + 1
      BY <1>1, <1>2, <2>2, <2>3, <3>2
    <3>3. CASE i = Len(s) + 1
      BY <1>2, <2>3, <3>3
    <3> QED
      BY <1>2, <3>1, <3>2, <3>3
  <2> QED
    BY <2>1, <2>4 DEF IsSubsequence
<1> QED
  BY <1>3, <1>4 DEF u, v

\* What has been read is never unread.
LEMMA EventsGrow ==
  ASSUME NEW f \in Seq(Token), GoodLog(f), NEW n \in 0 .. Len(f), NEW m \in n .. Len(f),
         NEW s \in Seq(Event), IsSubsequence(s, Reading(f)[n].events)
  PROVE  IsSubsequence(s, Reading(f)[m].events)
<1> DEFINE T == {k \in Nat : IsSubsequence(s, Reading(f)[k].events)}
<1>0. Len(f) \in Nat /\ n \in Nat
  OBVIOUS
<1>1. n \in T
  OBVIOUS
<1>2. ASSUME NEW k \in n .. Len(f), k < Len(f), k \in T PROVE k + 1 \in T
  <2> DEFINE a == Reading(f)[k]
             b == Reading(f)[k + 1]
  <2>1. k + 1 \in 1 .. Len(f) /\ k \in 0 .. Len(f) /\ k + 1 \in 0 .. Len(f)
        /\ (k + 1) - 1 = k
    BY <1>0, <1>2
  <2>2. b = ReadToken(a, f[k + 1])
    BY <2>1, ReadingStep
  <2>3. Good(a) /\ Good(b)
    BY <2>1 DEF GoodLog
  <2> HIDE DEF a, b
  <2>4. b.events = a.events \/ \E e : b.events = Append(a.events, e)
    <3>1. DOMAIN a = {"ok", "line", "state", "events"}
      BY <2>3 DEF Good, Acc
    <3>2. CASE f[k + 1] # Newline
      BY <2>2, <3>1, <3>2 DEF ReadToken
    <3>3. CASE f[k + 1] = Newline
      BY <2>2, <3>1, <3>3 DEF ReadToken, EndLine
    <3> QED
      BY <3>2, <3>3
  <2>5. b.events = a.events \/ \E e \in Event : b.events = Append(a.events, e)
    BY <2>3, <2>4, GoodLine
  <2>6. IsSubsequence(s, a.events) /\ a.events \in Seq(Event)
    BY <1>2, <2>3, GoodLine DEF a
  <2>7. IsSubsequence(s, b.events)
    BY <2>5, <2>6, SubsequenceGrows
  <2> QED
    BY <1>0, <2>1, <2>7 DEF b
<1>3. n .. Len(f) \subseteq T
  <2> HIDE DEF T
  <2> QED
    BY <1>0, <1>1, <1>2, Climb
<1> QED
  BY <1>3

-----------------------------------------------------------------------------
(* Writing a line *)

Progress(f, b, s, e, acks) ==
  /\ f \in Seq(Token) /\ GoodLog(f)
  /\ IsSubsequence(acks, Read(f).events)
  /\ Appending(f, b, s, e, acks)

\* One token more.
LEMMA GrownProps ==
  ASSUME NEW f \in Seq(Token), NEW t \in Token, GoodLog(f)
  PROVE  LET g == Append(f, t) IN
         /\ g \in Seq(Token) /\ Read(g) = ReadToken(Read(f), t)
         /\ Good(Read(g)) => GoodLog(g)
<1> DEFINE g == Append(f, t)
           n == Len(f)
<1>1. /\ g \in Seq(Token) /\ Len(g) = n + 1 /\ g[n + 1] = t /\ n \in Nat
      /\ \A i \in 1 .. n : g[i] = f[i]
  OBVIOUS
<1> HIDE DEF g
<1>2. \A i \in 0 .. n : Reading(g)[i] = Reading(f)[i]
  BY <1>1, ReadingPrefix
<1>3. Read(g) = ReadToken(Read(f), t)
  <2>1. n + 1 \in 1 .. Len(g) /\ (n + 1) - 1 = n /\ n \in 0 .. n
    BY <1>1
  <2>2. Reading(g)[n + 1] = ReadToken(Reading(g)[n], t)
    BY <1>1, <2>1, ReadingStep
  <2> QED
    BY <1>1, <1>2, <2>1, <2>2 DEF Read
<1>4. ASSUME Good(Read(g)), NEW i \in 0 .. Len(g) PROVE Good(Reading(g)[i])
  <2>1. CASE i = n + 1
    BY <1>1, <1>4, <2>1 DEF Read
  <2>2. CASE i # n + 1
    BY <1>1, <1>2, <2>2 DEF GoodLog
  <2> QED
    BY <2>1, <2>2
<1> QED
  BY <1>1, <1>3, <1>4 DEF g, GoodLog

\* Short sequences.
LEMMA OneOrTwo ==
  ASSUME NEW S, NEW x \in S, NEW y \in S
  PROVE  /\ <<>> \in Seq(S) /\ <<x>> \in Seq(S) /\ <<x, y>> \in Seq(S)
         /\ Append(<<>>, x) = <<x>> /\ Append(<<x>>, y) = <<x, y>>
<1>1. <<>> \in Seq(S) /\ <<x>> \in Seq(S) /\ <<x, y>> \in Seq(S)
  OBVIOUS
<1>2. Append(<<>>, x) = <<x>>
  OBVIOUS
<1>3. PICK c, d : c = Append(<<x>>, y) /\ d = <<x, y>>
  OBVIOUS
<1>4. c \in Seq(S) /\ Len(c) = 2 /\ c[1] = x /\ c[2] = y
  <2>1. <<x>> \in Seq(S) /\ Len(<<x>>) = 1 /\ <<x>>[1] = x
    OBVIOUS
  <2> QED
    BY <1>3, <2>1
<1>5. d \in Seq(S) /\ Len(d) = 2 /\ d[1] = x /\ d[2] = y
  BY <1>3
<1>6. c = d
  BY <1>4, <1>5
<1> QED
  BY <1>1, <1>2, <1>3, <1>6

LEMMA Tuples ==
  ASSUME NEW S, NEW x \in S, NEW y \in S, NEW z \in S
  PROVE  /\ <<>> \in Seq(S) /\ <<x>> \in Seq(S) /\ <<x, y>> \in Seq(S)
         /\ <<x, y, z>> \in Seq(S)
         /\ Head(<<x>>) = x /\ Head(<<x, y>>) = x /\ Head(<<x, y, z>>) = x
         /\ Tail(<<x>>) = <<>> /\ Tail(<<x, y>>) = <<y>> /\ Tail(<<x, y, z>>) = <<y, z>>
<1>1. <<>> \in Seq(S) /\ <<x>> \in Seq(S) /\ <<x, y>> \in Seq(S) /\ <<x, y, z>> \in Seq(S)
  OBVIOUS
<1>2. Head(<<x>>) = x /\ Head(<<x, y>>) = x /\ Head(<<x, y, z>>) = x
  OBVIOUS
<1>3. Tail(<<x>>) = <<>>
  OBVIOUS
<1>4. Tail(<<x, y>>) = <<y>>
  OBVIOUS
<1>5. Tail(<<x, y, z>>) = <<y, z>>
  OBVIOUS
<1> QED
  BY <1>1, <1>2, <1>3, <1>4, <1>5

\* The three tokens of a line.
LEMMA LineProps ==
  ASSUME NEW e \in Event, NEW s, NEW es \in Seq(Event), Applies(s, e)
  PROVE  /\ HeadOf(e) \in Token /\ RestOf(e) \in Token /\ Newline \in Token
         /\ Line(e) = <<HeadOf(e), RestOf(e), Newline>>
         /\ ReadToken(Acc(<<>>, s, es), HeadOf(e)) = Acc(<<HeadOf(e)>>, s, es)
         /\ ReadToken(Acc(<<HeadOf(e)>>, s, es), RestOf(e))
              = Acc(<<HeadOf(e), RestOf(e)>>, s, es)
         /\ ReadToken(Acc(<<HeadOf(e), RestOf(e)>>, s, es), Newline)
              = Acc(<<>>, Applied(s, e), Append(es, e))
<1>1. /\ HeadOf(e) # Newline /\ RestOf(e) # Newline
      /\ HeadOf(e) \in Token /\ RestOf(e) \in Token /\ Newline \in Token
      /\ Line(e) = <<HeadOf(e), RestOf(e), Newline>>
  BY DEF HeadOf, RestOf, Newline, Token, Line
<1> DEFINE h == HeadOf(e)
           r == RestOf(e)
<1> HIDE DEF h, r
<1>2. /\ <<>> \in Seq(Token) /\ <<h>> \in Seq(Token) /\ <<h, r>> \in Seq(Token)
      /\ Append(<<>>, h) = <<h>> /\ Append(<<h>>, r) = <<h, r>>
  <2>1. h \in Token /\ r \in Token
    BY <1>1 DEF h, r
  <2>2. /\ <<>> \in Seq(Token) /\ <<h>> \in Seq(Token) /\ Append(<<>>, h) = <<h>>
        /\ <<h, r>> \in Seq(Token) /\ Append(<<h>>, r) = <<h, r>>
    BY <2>1, OneOrTwo, Zenon
  <2> QED
    BY <2>2
<1>3. ReadToken(Acc(<<>>, s, es), h) = Acc(<<h>>, s, es)
  <2>1. ReadToken(Acc(<<>>, s, es), h) = Acc(Append(<<>>, h), s, es)
    <3> DEFINE l == <<>>
    <3>1. l \in Seq(Token)
      BY <1>2
    <3> HIDE DEF l
    <3>2. ReadToken(Acc(l, s, es), h) = Acc(Append(l, h), s, es)
      BY <1>1, <3>1, TokenProps DEF h
    <3> QED
      BY <3>2 DEF l
  <2> QED
    BY <1>2, <2>1, Zenon
<1>4. ReadToken(Acc(<<h>>, s, es), r) = Acc(<<h, r>>, s, es)
  <2>1. ReadToken(Acc(<<h>>, s, es), r) = Acc(Append(<<h>>, r), s, es)
    <3> DEFINE l == <<h>>
    <3>1. l \in Seq(Token)
      BY <1>2
    <3> HIDE DEF l
    <3>2. ReadToken(Acc(l, s, es), r) = Acc(Append(l, r), s, es)
      BY <1>1, <3>1, TokenProps DEF r
    <3> QED
      BY <3>2 DEF l
  <2> QED
    BY <1>2, <2>1, Zenon
<1>5. ReadToken(Acc(<<h, r>>, s, es), Newline) = Acc(<<>>, Applied(s, e), Append(es, e))
  <2> DEFINE l == <<h, r>>
  <2>1. l \in Seq(Token) /\ l = <<HeadOf(e), RestOf(e)>>
    BY <1>2 DEF h, r
  <2> HIDE DEF l
  <2>2. ReadToken(Acc(l, s, es), Newline) = Acc(<<>>, Applied(s, e), Append(es, e))
    BY <2>1, TokenProps, ZenonT(60)
  <2> QED
    BY <2>2 DEF l
<1> QED
  BY <1>1, <1>3, <1>4, <1>5 DEF h, r

\* Where the line is after its next token.
LEMMA AppendingStep ==
  ASSUME NEW f, NEW b, NEW s, NEW e, NEW acks \in Seq(Event),
         Progress(f, b, s, e, acks), b # <<>>
  PROVE  Progress(Append(f, Head(b)), Tail(b), s, e, acks)
<1>1. /\ f \in Seq(Token) /\ GoodLog(f) /\ IsSubsequence(acks, Read(f).events)
      /\ e \in Event /\ Applies(s, e)
  BY DEF Progress, Appending
<1>2. PICK a, es : a = Read(f) /\ es = a.events
  OBVIOUS
<1>3. Good(a) /\ a = Acc(a.line, a.state, es) /\ es \in Seq(Event)
      /\ IsSubsequence(acks, es)
  <2>1. Good(a)
    BY <1>1, <1>2, RepairProps
  <2> QED
    BY <1>1, <1>2, <2>1, GoodLine DEF Good
<1>4. /\ HeadOf(e) \in Token /\ RestOf(e) \in Token /\ Newline \in Token
      /\ Line(e) = <<HeadOf(e), RestOf(e), Newline>>
      /\ ReadToken(Acc(<<>>, s, es), HeadOf(e)) = Acc(<<HeadOf(e)>>, s, es)
      /\ ReadToken(Acc(<<HeadOf(e)>>, s, es), RestOf(e))
           = Acc(<<HeadOf(e), RestOf(e)>>, s, es)
      /\ ReadToken(Acc(<<HeadOf(e), RestOf(e)>>, s, es), Newline)
           = Acc(<<>>, Applied(s, e), Append(es, e))
  BY <1>1, <1>3, LineProps
<1>5. ASSUME NEW t \in Token, NEW d, NEW c, t = Head(b), c = Tail(b), d = ReadToken(a, t),
             \/ d = Acc(<<HeadOf(e)>>, s, es) /\ c = <<RestOf(e), Newline>>
             \/ d = Acc(<<HeadOf(e), RestOf(e)>>, s, es) /\ c = <<Newline>>
             \/ d = Acc(<<>>, Applied(s, e), Append(es, e)) /\ c = <<>>
      PROVE  Progress(Append(f, t), c, s, e, acks)
  <2>1. /\ d = Acc(d.line, d.state, d.events) /\ d.events \in {es, Append(es, e)}
        /\ \/ d.line = <<HeadOf(e)>> /\ d.state = s /\ c = <<RestOf(e), Newline>>
           \/ d.line = <<HeadOf(e), RestOf(e)>> /\ d.state = s /\ c = <<Newline>>
           \/ d.line = <<>> /\ d.state = Applied(s, e) /\ c = <<>>
                /\ d.events = Append(es, e)
    BY <1>5 DEF Acc
  <2>2. d.events \in Seq(Event)
    <3>1. Append(es, e) \in Seq(Event)
      BY <1>1, <1>3
    <3> QED
      BY <1>3, <2>1, <3>1
  <2>3. Good(d)
    BY <1>1, <2>1, <2>2 DEF Good
  <2>4. PICK g : g = Append(f, t)
    OBVIOUS
  <2>5. g \in Seq(Token) /\ GoodLog(g) /\ Read(g) = d
    BY <1>1, <1>2, <1>5, <2>3, <2>4, GrownProps
  <2>6. /\ IsSubsequence(acks, d.events)
        /\ d.events = Append(es, e) => IsSubsequence(Append(acks, e), d.events)
    BY <1>1, <1>3, <2>1, SubsequenceGrows
  <2>7. Appending(g, c, s, e, acks)
    BY <1>1, <2>1, <2>5, <2>6 DEF Appending
  <2> QED
    BY <2>4, <2>5, <2>6, <2>7 DEF Progress
<1> DEFINE h == HeadOf(e)
           r == RestOf(e)
           nl == Newline
<1>6. \/ a = Acc(<<>>, s, es) /\ b = <<h, r, nl>>
      \/ a = Acc(<<h>>, s, es) /\ b = <<r, nl>>
      \/ a = Acc(<<h, r>>, s, es) /\ b = <<nl>>
  BY <1>2, <1>3, <1>4 DEF Progress, Appending
<1> HIDE DEF h, r, nl
<1>7. \/ a = Acc(<<>>, s, es) /\ Head(b) = h /\ Tail(b) = <<r, nl>>
      \/ a = Acc(<<h>>, s, es) /\ Head(b) = r /\ Tail(b) = <<nl>>
      \/ a = Acc(<<h, r>>, s, es) /\ Head(b) = nl /\ Tail(b) = <<>>
  <2>1. h \in Token /\ r \in Token /\ nl \in Token
    BY <1>4 DEF h, r, nl
  <2>2. /\ Head(<<nl>>) = nl /\ Head(<<r, nl>>) = r /\ Head(<<h, r, nl>>) = h
        /\ Tail(<<nl>>) = <<>> /\ Tail(<<r, nl>>) = <<nl>> /\ Tail(<<h, r, nl>>) = <<r, nl>>
    BY <2>1, Tuples
  <2> QED
    BY <1>6, <2>2, Zenon
<1>8. PICK t, c : t = Head(b) /\ c = Tail(b)
  OBVIOUS
<1>9. t \in Token
  BY <1>4, <1>7, <1>8 DEF h, r, nl
<1>10. \/ ReadToken(a, t) = Acc(<<h>>, s, es) /\ c = <<r, nl>>
       \/ ReadToken(a, t) = Acc(<<h, r>>, s, es) /\ c = <<nl>>
       \/ ReadToken(a, t) = Acc(<<>>, Applied(s, e), Append(es, e)) /\ c = <<>>
  BY <1>4, <1>7, <1>8 DEF h, r, nl
<1>11. Progress(Append(f, t), c, s, e, acks)
  BY <1>5, <1>8, <1>9, <1>10 DEF h, r, nl
<1> QED
  BY <1>8, <1>11

\* A write takes any number of tokens.
LEMMA WriteProps ==
  ASSUME NEW f, NEW b, NEW s, NEW e, NEW acks \in Seq(Event),
         Progress(f, b, s, e, acks), NEW k \in 1 .. Len(b)
  PROVE  Progress(f \o SubSeq(b, 1, k), SubSeq(b, k + 1, Len(b)), s, e, acks)
<1> DEFINE P(g, c) == Progress(g, c, s, e, acks)
           T == {i \in Nat : P(f \o SubSeq(b, 1, i), SubSeq(b, i + 1, Len(b)))}
<1>1. f \in Seq(Token) /\ b \in Seq(Token)
  <2>1. PICK h, r, nl : h = HeadOf(e) /\ r = RestOf(e) /\ nl = Newline
    OBVIOUS
  <2>2. f \in Seq(Token) /\ h \in Token /\ r \in Token /\ nl \in Token
    BY <2>1 DEF Progress, Appending, HeadOf, RestOf, Newline, Token
  <2>3. b \in {<<h, r, nl>>, <<r, nl>>, <<nl>>, <<>>}
    BY <2>1 DEF Progress, Appending, HeadOf, RestOf, Line
  <2>4. /\ <<h, r, nl>> \in Seq(Token) /\ <<r, nl>> \in Seq(Token)
        /\ <<nl>> \in Seq(Token) /\ <<>> \in Seq(Token)
    BY <2>2, Tuples, Zenon
  <2> QED
    BY <2>2, <2>3, <2>4, Zenon
<1>2. Len(b) \in Nat /\ Len(f) \in Nat
  BY <1>1
<1>3. 0 \in T
  <2>1. f \o SubSeq(b, 1, 0) = f /\ SubSeq(b, 0 + 1, Len(b)) = b
    BY <1>1
  <2>2. P(f, b)
    OBVIOUS
  <2> HIDE DEF P
  <2>3. P(f \o SubSeq(b, 1, 0), SubSeq(b, 0 + 1, Len(b)))
    BY <2>1, <2>2, Zenon
  <2> QED
    BY <2>3
<1>4. ASSUME NEW i \in 0 .. Len(b), i < Len(b), i \in T PROVE i + 1 \in T
  <2>1. PICK g, c : g = f \o SubSeq(b, 1, i) /\ c = SubSeq(b, i + 1, Len(b))
    OBVIOUS
  <2>2. i + 1 \in 1 .. Len(b) /\ i \in Nat
    BY <1>2, <1>4
  <2>3. c # <<>> /\ Head(c) = b[i + 1] /\ Tail(c) = SubSeq(b, i + 1 + 1, Len(b))
    <3>1. c \in Seq(Token) /\ Len(c) = Len(b) - i
      BY <1>1, <1>2, <2>1, <2>2
    <3>2. c[1] = b[i + 1]
      BY <1>1, <1>2, <2>1, <2>2
    <3>3. c # <<>> /\ Head(c) = b[i + 1]
      BY <1>2, <2>2, <3>1, <3>2
    <3>4. Tail(c) = SubSeq(b, i + 1 + 1, Len(b))
      BY <1>1, <1>2, <2>1, <2>2, <3>1
    <3> QED
      BY <3>3, <3>4
  <2>4. Append(g, b[i + 1]) = f \o SubSeq(b, 1, i + 1)
    <3>1. SubSeq(b, 1, i + 1) = Append(SubSeq(b, 1, i), b[i + 1])
      BY <1>1, <1>2, <2>2
    <3>2. SubSeq(b, 1, i) \in Seq(Token) /\ b[i + 1] \in Token
      BY <1>1, <1>2, <2>2
    <3>3. \A d \in Seq(Token), x \in Token : f \o Append(d, x) = Append(f \o d, x)
      BY <1>1
    <3> QED
      BY <2>1, <3>1, <3>2, <3>3, Zenon
  <2>5. P(g, c)
    BY <1>4, <2>1
  <2>6. P(Append(g, Head(c)), Tail(c))
    BY <2>3, <2>5, AppendingStep
  <2> HIDE DEF P
  <2>7. P(f \o SubSeq(b, 1, i + 1), SubSeq(b, i + 1 + 1, Len(b)))
    BY <2>3, <2>4, <2>6, Zenon
  <2> QED
    BY <2>2, <2>7
<1>5. 0 .. Len(b) \subseteq T
  <2> HIDE DEF T
  <2> QED
    BY <1>2, <1>3, <1>4, Climb
<1>6. k \in T
  BY <1>2, <1>5
<1> QED
  BY <1>6

-----------------------------------------------------------------------------
(* The steps *)

LEMMA LineTyped ==
  ASSUME NEW e \in Event PROVE Line(e) \in Seq(Token) /\ Len(Line(e)) = 3
BY DEF Line, Token, Newline

LEMMA InitHealthy == Init => LogInv
<1> SUFFICES ASSUME Init PROVE LogInv
  OBVIOUS
<1>1. /\ file = <<>> /\ synced = 0 /\ emits = 0 /\ acked = <<>> /\ durable = <<>>
      /\ \A h \in Handles : mode[h] = "closed" /\ buf[h] = <<>>
  BY DEF Init
<1>2. file \in Seq(Token) /\ Len(file) = 0
  BY <1>1
<1>3. Reading(file)[0] = Start
  BY <1>2, ReadingStep
<1>4. GoodLog(file)
  <2>1. Good(Start)
    <3>1. PICK a : a = Start
      OBVIOUS
    <3>2. a.ok = TRUE /\ a.line = <<>> /\ a.events = <<>> /\ a = Acc(a.line, a.state, a.events)
      BY <3>1 DEF Start, Acc
    <3>3. a.events \in Seq(Event)
      BY <3>2
    <3>4. Good(a)
      BY <3>2, <3>3 DEF Good
    <3> QED
      BY <3>1, <3>4
  <2> QED
    BY <1>2, <1>3, <2>1 DEF GoodLog
<1>5. IsSubsequence(<<>>, Start.events)
  <2>1. \A i, j \in DOMAIN <<>> : FALSE
    OBVIOUS
  <2>2. [i \in DOMAIN <<>> |-> 0] \in [DOMAIN <<>> -> DOMAIN Start.events]
    OBVIOUS
  <2> QED
    BY <2>1, <2>2 DEF IsSubsequence
<1>6. Kept
  BY <1>1, <1>2, <1>3, <1>5 DEF Kept, Read
<1>7. Healthy /\ Judged
  BY <1>1, <1>4, <1>6 DEF Healthy, Standing, Judged
<1>8. LogTyped
  BY <1>2, MaxEmitsAssumption DEF Init, LogTyped
<1> QED
  BY <1>7, <1>8 DEF LogInv

\* What the cut of a file can be.
LEMMA CutProps ==
  ASSUME NEW f \in Seq(Token)
  PROVE  /\ RepairedLength(f) \in {Len(f), LastNewline(f)} /\ RepairedLength(f) \in 0 .. Len(f)
         /\ \A n \in Nat : SetLen(f, n) \in Seq(Token) /\ Len(SetLen(f, n)) = n
         /\ \A n \in 0 .. Len(f) : SetLen(f, n) = SubSeq(f, 1, n)
<1>1. RepairedLength(f) \in {Len(f), LastNewline(f)}
  BY DEF RepairedLength
<1>2. Len(f) \in Nat /\ LastNewline(f) \in 0 .. Len(f)
  BY LastNewlineProps
<1>3. ASSUME NEW n \in Nat PROVE SetLen(f, n) \in Seq(Token) /\ Len(SetLen(f, n)) = n
  <2>1. \A i \in 1 .. n : (IF i <= Len(f) THEN f[i] ELSE Zero) \in Token
    BY <1>2 DEF Token
  <2> QED
    BY <2>1 DEF SetLen
<1>4. ASSUME NEW n \in 0 .. Len(f) PROVE SetLen(f, n) = SubSeq(f, 1, n)
  <2>1. SetLen(f, n) \in Seq(Token) /\ Len(SetLen(f, n)) = n /\ n \in Nat
    BY <1>2, <1>3
  <2>2. SubSeq(f, 1, n) \in Seq(Token) /\ Len(SubSeq(f, 1, n)) = n
    BY <1>2
  <2>3. \A i \in 1 .. n : SetLen(f, n)[i] = f[i] /\ SubSeq(f, 1, n)[i] = f[i]
    BY <1>2 DEF SetLen
  <2> HIDE DEF SetLen
  <2>4. PICK c, d : c = SetLen(f, n) /\ d = SubSeq(f, 1, n)
    OBVIOUS
  <2>5. c = d
    BY <2>1, <2>2, <2>3, <2>4
  <2> QED
    BY <2>4, <2>5
<1>5. RepairedLength(f) \in 0 .. Len(f)
  <2>1. \A k, l, m : k \in {l, m} /\ l \in Nat /\ m \in 0 .. l => k \in 0 .. l
    OBVIOUS
  <2> QED
    BY <1>1, <1>2, <2>1, Zenon
<1> QED
  BY <1>1, <1>3, <1>4, <1>5, Zenon

LEMMA TypedStep == LogTyped /\ [Next]_vars => LogTyped'
<1> SUFFICES ASSUME LogTyped, [Next]_vars PROVE LogTyped'
  OBVIOUS
<1> USE DEF LogTyped
<1>0. Len(file) \in Nat /\ synced \in Nat
  OBVIOUS
<1>1. ASSUME NEW h \in Handles, OpenRead(h) PROVE LogTyped'
  <2>1. RepairedLength(file) \in Nat
    BY <1>0, CutProps
  <2> QED
    BY <1>1, <2>1 DEF OpenRead, history
<1>2. ASSUME NEW h \in Handles, OpenCut(h) PROVE LogTyped'
  <2>1. PICK n : n = cut[h]
    OBVIOUS
  <2>2. file' = SetLen(file, n) /\ n \in Nat
    BY <1>2, <2>1 DEF OpenCut
  <2>3. file' \in Seq(Token) /\ Len(file') = n
    BY <2>2, CutProps
  <2>4. synced' \in 0 .. Len(file')
    BY <1>0, <1>2, <2>1, <2>2, <2>3 DEF OpenCut
  <2> QED
    BY <1>2, <2>3, <2>4 DEF OpenCut, history
<1>3. ASSUME NEW h \in Handles, OpenReplay(h) PROVE LogTyped'
  <2>1. \/ /\ mode' = [mode EXCEPT ![h] = "idle"] /\ UNCHANGED <<cut, buf, event>>
           /\ \E s : state' = [state EXCEPT ![h] = s]
        \/ Gone(h)
    BY <1>3 DEF OpenReplay
  <2>2. UNCHANGED <<file, synced, emits, acked, durable>> /\ mode[h] = "repaired"
    BY <1>3 DEF OpenReplay
  <2>3. CASE Gone(h)
    BY <2>2, <2>3 DEF Gone
  <2>4. CASE ~Gone(h)
    BY <2>1, <2>2, <2>4
  <2> QED
    BY <2>3, <2>4
<1>4. ASSUME NEW h \in Handles, NEW k \in Kinds, EmitBegin(h, k) PROVE LogTyped'
  <2>1. PICK e : e = [kind |-> k, n |-> emits + 1]
    OBVIOUS
  <2>2. e \in Event
    BY <1>4, <2>1, KindsAssumption, MaxEmitsAssumption DEF EmitBegin, Event
  <2>3. buf[h] \o Line(e) \in Seq(Token)
    BY <2>2, LineTyped
  <2>4. /\ event' = [event EXCEPT ![h] = e] /\ buf' = [buf EXCEPT ![h] = buf[h] \o Line(e)]
        /\ emits' \in 0 .. MaxEmits
    BY <1>4, <2>1, MaxEmitsAssumption DEF EmitBegin
  <2> QED
    BY <1>4, <2>2, <2>3, <2>4 DEF EmitBegin
<1>5. ASSUME NEW h \in Handles, Write(h) PROVE LogTyped'
  <2>1. PICK k \in 1 .. Len(buf[h]) :
          /\ file' = file \o SubSeq(buf[h], 1, k)
          /\ buf' = [buf EXCEPT ![h] = SubSeq(@, k + 1, Len(@))]
    BY <1>5 DEF Write
  <2>2. PICK b : b = buf[h]
    OBVIOUS
  <2>3. b \in Seq(Token) /\ Len(b) \in Nat /\ k \in 1 .. Len(b)
    BY <2>2
  <2>4. SubSeq(b, 1, k) \in Seq(Token) /\ Len(SubSeq(b, 1, k)) = k
        /\ SubSeq(b, k + 1, Len(b)) \in Seq(Token)
    BY <2>3
  <2>5. file' \in Seq(Token) /\ Len(file') = Len(file) + k
    BY <2>1, <2>2, <2>4
  <2>6. buf' \in [Handles -> Seq(Token)]
    BY <2>1, <2>2, <2>4
  <2>7. synced' \in 0 .. Len(file')
    BY <1>0, <1>5, <2>3, <2>5 DEF Write
  <2> QED
    BY <1>5, <2>5, <2>6, <2>7 DEF Write, history
<1>6. ASSUME NEW h \in Handles, AppendFails(h) PROVE LogTyped'
  <2>1. event[h] \in Event /\ Len(Line(event[h])) = 3
    BY <1>6, LineTyped DEF AppendFails
  <2>2. PICK b : b = buf[h]
    OBVIOUS
  <2>3. Len(b) > 3 => SubSeq(b, 1, Len(b) - 3) \in Seq(Token)
    BY <2>2
  <2>4. \/ buf' = buf
        \/ buf' = [buf EXCEPT ![h] = <<>>]
        \/ Len(b) > 3 /\ buf' = [buf EXCEPT ![h] = SubSeq(b, 1, Len(b) - 3)]
    BY <1>6, <2>1, <2>2 DEF AppendFails
  <2>5. \A c \in Seq(Token) : [buf EXCEPT ![h] = c] \in [Handles -> Seq(Token)]
    OBVIOUS
  <2>6. <<>> \in Seq(Token)
    OBVIOUS
  <2>7. buf' \in [Handles -> Seq(Token)]
    BY <2>3, <2>4, <2>5, <2>6, Zenon
  <2> QED
    BY <1>6, <2>7 DEF AppendFails
<1>7. ASSUME NEW h \in Handles, EmitEnd(h) PROVE LogTyped'
  <2>1. Append(acked, event[h]) \in Seq(Event)
    BY <1>7 DEF EmitEnd
  <2> QED
    BY <1>7, <2>1 DEF EmitEnd
<1>8. ASSUME NEW h \in Handles, Flush(h) PROVE LogTyped'
  <2>1. file' \in Seq(Token) /\ Len(file') \in Nat
    BY <1>8 DEF Flush
  <2> QED
    BY <1>8, <2>1 DEF Flush
<1>9. ASSUME NEW h \in Handles, Close(h) PROVE LogTyped'
  <2>1. file' \in Seq(Token) /\ Len(file') = Len(file) + Len(buf[h])
    BY <1>9 DEF Close
  <2> QED
    BY <1>0, <1>9, <2>1 DEF Close, Gone, history
<1>10. ASSUME NEW h \in Handles, Crash(h) PROVE LogTyped'
  BY <1>10 DEF Crash, Gone, history
<1>11. ASSUME PowerLoss PROVE LogTyped'
  <2>1. PICK n \in synced .. Len(file) : file' = SubSeq(file, 1, n)
    BY <1>11 DEF PowerLoss
  <2>2. file' \in Seq(Token) /\ Len(file') \in Nat
    BY <1>0, <2>1
  <2> QED
    BY <1>11, <2>2 DEF PowerLoss
<1>12. CASE UNCHANGED vars
  BY <1>12 DEF vars, handleVars, history
<1> QED
  BY <1>1, <1>2, <1>3, <1>4, <1>5, <1>6, <1>7, <1>8, <1>9, <1>10, <1>11, <1>12 DEF Next

\* With one handle the file does not change between the judgement and the cut.
LEMMA JudgedStep ==
  ASSUME OneHandle, LogTyped, Judged, [Next]_vars PROVE Judged'
<1> SUFFICES ASSUME NEW h \in Handles, (mode[h] = "cutting")'
             PROVE  (cut[h] = RepairedLength(file) /\ cut[h] # Len(file))'
  BY DEF Judged
<1>1. CASE OpenRead(h)
  <2>1. mode'[h] = "cutting" /\ cut'[h] = RepairedLength(file) /\ file' = file
        /\ RepairedLength(file) # Len(file)
    BY <1>1 DEF OpenRead, LogTyped
  <2> QED
    BY <2>1
<1>2. CASE OpenCut(h)
  BY <1>2 DEF OpenCut, LogTyped
<1>3. CASE OpenReplay(h)
  BY <1>3 DEF OpenReplay, Gone, LogTyped
<1>4. CASE \E k \in Kinds : EmitBegin(h, k)
  BY <1>4 DEF EmitBegin, LogTyped
<1>5. CASE Write(h) \/ AppendFails(h) \/ EmitEnd(h)
  BY <1>5 DEF Write, AppendFails, EmitEnd, LogTyped
<1>6. CASE Flush(h) \/ Close(h) \/ Crash(h)
  BY <1>6 DEF Flush, Close, Crash, Gone, LogTyped
<1>7. CASE PowerLoss
  BY <1>7 DEF PowerLoss
<1>8. CASE UNCHANGED vars
  BY <1>8 DEF vars, handleVars, Judged
<1> QED
  BY <1>1, <1>2, <1>3, <1>4, <1>5, <1>6, <1>7, <1>8 DEF Next, OneHandle

\* While nothing is damaged, every step leaves the log readable.
LEMMA HealthyStep ==
  ASSUME OneHandle, LogInv, [Next]_vars, damage' = {} PROVE Healthy'
<1>1. damage = {}
  <2>1. damage \subseteq damage'
    BY DEF Next, vars, handleVars, history, OpenRead, OpenCut, OpenReplay, EmitBegin, Write,
           AppendFails, EmitEnd, Flush, Close, Crash, PowerLoss
  <2> QED
    BY <2>1
<1>2. /\ LogTyped /\ Judged /\ GoodLog(file) /\ Kept
      /\ \A h \in Handles : Standing(h)
  BY <1>1 DEF LogInv, Healthy
<1>3. /\ file \in Seq(Token) /\ Len(file) \in Nat /\ synced \in 0 .. Len(file)
      /\ acked \in Seq(Event) /\ durable \in Seq(Event)
  BY <1>2 DEF LogTyped
<1>4. PICK a : a = Read(file)
  OBVIOUS
<1>5. /\ Good(a) /\ a.events \in Seq(Event) /\ IsSubsequence(acked, a.events)
      /\ a.line = <<>> <=> file = <<>> \/ Last(file) = Newline
  BY <1>2, <1>3, <1>4, RepairProps, GoodLine DEF Kept
\* The log and what was acknowledged stay as they are.
<1>6. ASSUME file' = file, UNCHANGED <<synced, acked, durable>>,
             NEW h \in Handles, Standing(h)'
      PROVE  Healthy'
  <2>1. GoodLog(file') /\ IsSubsequence(acked', Read(file').events)
        /\ IsSubsequence(durable', Reading(file')[synced'].events)
    BY <1>2, <1>6 DEF Kept
  <2>2. \A g \in Handles : Standing(g)'
    BY <1>6 DEF OneHandle
  <2> QED
    BY <2>1, <2>2 DEF Healthy, Kept
<1>7. ASSUME NEW h \in Handles, OpenRead(h) PROVE Healthy'
  <2>1. /\ mode' = [mode EXCEPT ![h] =
                      IF RepairedLength(file) = Len(file) THEN "repaired" ELSE "cutting"]
        /\ mode[h] = "closed" /\ UNCHANGED <<file, synced, buf, acked, durable>>
    BY <1>7 DEF OpenRead, history
  <2>2. /\ mode'[h] \in {"repaired", "cutting"} /\ buf'[h] = <<>>
        /\ mode'[h] = "repaired" => RepairedLength(file') = Len(file')
    BY <1>2, <2>1 DEF LogTyped, Standing
  <2>3. Standing(h)'
    BY <2>2 DEF Standing
  <2> QED
    BY <1>6, <2>1, <2>3
<1>8. ASSUME NEW h \in Handles, OpenCut(h) PROVE Healthy'
  <2>1. PICK r, f : r = RepairedLength(file) /\ f = SubSeq(file, 1, r)
    OBVIOUS
  <2>2. /\ cut[h] = r /\ r # Len(file) /\ mode' = [mode EXCEPT ![h] = "repaired"]
        /\ file' = SetLen(file, r) /\ synced' = (IF synced > r THEN r ELSE synced)
        /\ UNCHANGED <<buf, acked, durable>>
    BY <1>2, <1>8, <2>1 DEF OpenCut, Judged, history
  <2>3. /\ r \in 0 .. Len(file) /\ Reading(file)[r].line = <<>>
        /\ \A m \in r .. Len(file) : Reading(file)[m].events = a.events
    BY <1>2, <1>3, <1>4, <2>1, <2>2, RepairProps
  <2>4. file' = f
    BY <1>3, <2>1, <2>2, <2>3, CutProps
  <2>5. /\ f \in Seq(Token) /\ Len(f) = r /\ Read(f) = Reading(file)[r] /\ GoodLog(f)
        /\ \A n \in 0 .. r : Reading(f)[n] = Reading(file)[n]
    BY <1>2, <1>3, <2>1, <2>3, PrefixProps
  <2>6. Reading(file)[r].events = a.events
    BY <1>3, <2>3
  <2>7. Reading(f)[synced'].events = Reading(file)[synced].events
    <3>1. CASE synced > r
      <4>1. synced' = r /\ r \in 0 .. r /\ synced \in r .. Len(file)
        BY <1>3, <2>2, <2>3, <3>1
      <4>2. Reading(f)[r] = Reading(file)[r] /\ Reading(file)[synced].events = a.events
        BY <2>3, <2>5, <4>1
      <4> QED
        BY <2>6, <4>1, <4>2
    <3>2. CASE ~(synced > r)
      BY <1>3, <2>2, <2>3, <2>5, <3>2, SMTT(30)
    <3> QED
      BY <3>1, <3>2
  <2>8. GoodLog(file') /\ Kept'
    BY <1>2, <1>5, <2>2, <2>4, <2>5, <2>6, <2>7 DEF Kept
  <2>9. mode'[h] = "repaired" /\ buf'[h] = <<>>
    BY <1>2, <1>8, <2>2 DEF LogTyped, Standing, OpenCut
  <2>10. RepairedLength(file') = Len(file')
    BY <2>3, <2>4, <2>5, RepairProps
  <2>11. Standing(h)'
    BY <2>9, <2>10 DEF Standing
  <2> QED
    BY <2>8, <2>11 DEF Healthy, OneHandle
<1>9. ASSUME NEW h \in Handles, OpenReplay(h) PROVE Healthy'
  <2>1. /\ mode[h] = "repaired" /\ UNCHANGED <<file, synced, acked, durable>> /\ buf[h] = <<>>
    BY <1>2, <1>9 DEF OpenReplay, Standing
  <2>2. CASE Replay(file).ok
    <3>1. /\ mode' = [mode EXCEPT ![h] = "idle"]
          /\ state' = [state EXCEPT ![h] = Replay(file).state] /\ buf' = buf
          /\ damage' = IF file # <<>> /\ Last(file) # Newline
                       THEN damage \cup {"torn"} ELSE damage
      BY <1>9, <2>2 DEF OpenReplay
    <3>2. a.line = <<>>
      BY <1>5, <3>1
    <3>3. Replay(file) = a
      BY <1>4, <3>2 DEF Replay, Read, EndLine
    <3>4. mode'[h] = "idle" /\ state'[h] = a.state /\ buf'[h] = <<>>
      BY <1>2, <2>1, <3>1, <3>3 DEF LogTyped
    <3>5. Standing(h)'
      BY <1>4, <2>1, <3>2, <3>4 DEF Standing
    <3> QED
      BY <1>6, <2>1, <3>5
  <2>3. CASE ~Replay(file).ok
    <3>1. mode'[h] = "closed" /\ buf'[h] = <<>>
      BY <1>2, <1>9, <2>3 DEF OpenReplay, Gone, LogTyped
    <3>2. Standing(h)'
      BY <3>1 DEF Standing
    <3> QED
      BY <1>6, <2>1, <3>2
  <2> QED
    BY <2>2, <2>3
<1>10. ASSUME NEW h \in Handles, NEW k \in Kinds, EmitBegin(h, k) PROVE Healthy'
  <2>1. PICK e : e = [kind |-> k, n |-> emits + 1]
    OBVIOUS
  <2>2. /\ mode[h] = "idle" /\ event' = [event EXCEPT ![h] = e] /\ Applies(state[h], e)
        /\ buf' = [buf EXCEPT ![h] = buf[h] \o Line(e)]
        /\ mode' = [mode EXCEPT ![h] = "emitting"] /\ e \in Event
        /\ UNCHANGED <<file, synced, state, acked, durable>>
    <3>1. Applies(state[h], e)
      BY <1>10, <2>1 DEF EmitBegin
    <3>2. e \in Event
      BY <1>2, <1>10, <2>1, KindsAssumption, MaxEmitsAssumption
         DEF EmitBegin, Event, LogTyped
    <3> QED
      BY <1>10, <2>1, <3>1, <3>2 DEF EmitBegin
  <2>3. /\ mode'[h] = "emitting" /\ event'[h] = e /\ state'[h] = state[h]
        /\ buf'[h] = buf[h] \o Line(e) /\ buf[h] = <<>> /\ a.line = <<>> /\ a.state = state[h]
    BY <1>2, <1>4, <2>2 DEF LogTyped, Standing
  <2>4. buf'[h] = Line(e)
    <3>1. \A c \in Seq(Token) : <<>> \o c = c
      OBVIOUS
    <3> QED
      BY <2>2, <2>3, <3>1, LineTyped
  <2>5. Appending(file', buf'[h], state'[h], event'[h], acked')
    BY <1>4, <2>2, <2>3, <2>4 DEF Appending
  <2>6. Standing(h)'
    BY <2>3, <2>5 DEF Standing
  <2> QED
    BY <1>6, <2>2, <2>6
<1>11. ASSUME NEW h \in Handles, Write(h) PROVE Healthy'
  <2>1. PICK k \in 1 .. Len(buf[h]) :
          /\ file' = file \o SubSeq(buf[h], 1, k)
          /\ buf' = [buf EXCEPT ![h] = SubSeq(@, k + 1, Len(@))]
    BY <1>11 DEF Write
  <2>2. PICK b, s, e, f, c : b = buf[h] /\ s = state[h] /\ e = event[h]
          /\ f = file \o SubSeq(b, 1, k) /\ c = SubSeq(b, k + 1, Len(b))
    OBVIOUS
  <2>3. /\ mode[h] = "emitting" /\ UNCHANGED <<synced, mode, event, state, acked, durable>>
    BY <1>11 DEF Write, history
  <2>4. Progress(file, b, s, e, acked)
    BY <1>2, <1>3, <2>2, <2>3 DEF Progress, Kept, Standing
  <2>5. Progress(f, c, s, e, acked)
    BY <1>3, <2>2, <2>4, WriteProps
  <2>6. file' = f /\ buf'[h] = c
    BY <1>2, <2>1, <2>2 DEF LogTyped
  <2>7. /\ f \in Seq(Token) /\ GoodLog(f) /\ IsSubsequence(acked, Read(f).events)
        /\ Appending(f, c, s, e, acked)
    BY <2>5 DEF Progress
  <2>8. Reading(f)[synced] = Reading(file)[synced]
    <3>1. b \in Seq(Token) /\ k \in 1 .. Len(b)
      BY <1>2, <2>1, <2>2 DEF LogTyped
    <3>2. SubSeq(b, 1, k) \in Seq(Token)
      BY <3>1
    <3>3. Len(file) <= Len(f) /\ \A i \in 1 .. Len(file) : f[i] = file[i]
      BY <1>3, <2>2, <3>2
    <3>4. \A n \in 0 .. Len(file) : Reading(file)[n] = Reading(f)[n]
      BY <1>3, <2>7, <3>3, ReadingPrefix
    <3> QED
      BY <1>3, <3>4
  <2>9. GoodLog(file') /\ Kept'
    BY <1>2, <2>3, <2>6, <2>7, <2>8 DEF Kept
  <2>10. Standing(h)'
    BY <2>2, <2>3, <2>6, <2>7 DEF Standing
  <2> QED
    BY <2>9, <2>10 DEF Healthy, OneHandle
<1>12. ASSUME NEW h \in Handles, AppendFails(h) PROVE Healthy'
  BY <1>12 DEF AppendFails
<1>13. ASSUME NEW h \in Handles, EmitEnd(h) PROVE Healthy'
  <2>1. PICK e : e = event[h]
    OBVIOUS
  <2>2. mode[h] = "emitting" /\ buf[h] = <<>> /\ UNCHANGED <<file, synced, buf, durable>>
        /\ mode' = [mode EXCEPT ![h] = "idle"]
    BY <1>13 DEF EmitEnd
  <2>3. /\ a.line = <<>> /\ a.state = Applied(state[h], e) /\ Applies(state[h], e)
        /\ IsSubsequence(Append(acked, e), a.events)
    <3>1. Appending(file, <<>>, state[h], e, acked)
      BY <1>2, <2>1, <2>2 DEF Standing
    <3>2. \A x, y, z : <<x>> # <<>> /\ <<x, y>> # <<>> /\ <<x, y, z>> # <<>>
      OBVIOUS
    <3>3. Line(e) # <<>>
      BY <3>2 DEF Line
    <3> QED
      BY <1>4, <3>1, <3>2, <3>3 DEF Appending
  <2>4. state' = [state EXCEPT ![h] = Applied(state[h], e)] /\ acked' = Append(acked, e)
    BY <1>13, <2>1, <2>3 DEF EmitEnd
  <2>5. mode'[h] = "idle" /\ state'[h] = a.state /\ buf'[h] = <<>>
    BY <1>2, <2>2, <2>3, <2>4 DEF LogTyped
  <2>6. GoodLog(file') /\ Kept'
    BY <1>2, <1>4, <2>2, <2>3, <2>4 DEF Kept
  <2>7. Standing(h)'
    BY <1>4, <2>2, <2>3, <2>5 DEF Standing
  <2> QED
    BY <2>6, <2>7 DEF Healthy, OneHandle
<1>14. ASSUME NEW h \in Handles, Flush(h) \/ Close(h) PROVE Healthy'
  <2>1. mode[h] = "idle" /\ buf[h] = <<>> /\ file' = file \o buf[h]
        /\ a.line = <<>> /\ a.state = state[h]
    BY <1>2, <1>4, <1>14 DEF Flush, Close, Standing
  <2>2. file' = file
    BY <1>3, <2>1
  <2>3. CASE Close(h)
    <3>1. mode'[h] = "closed" /\ buf'[h] = <<>> /\ UNCHANGED <<synced, acked, durable>>
      BY <1>2, <2>3 DEF Close, Gone, LogTyped, history
    <3>2. Standing(h)'
      BY <3>1 DEF Standing
    <3> QED
      BY <1>6, <2>2, <3>1, <3>2
  <2>4. CASE Flush(h)
    <3>1. /\ mode' = mode /\ state' = state /\ buf'[h] = <<>> /\ synced' = Len(file)
          /\ acked' = acked /\ durable' = acked
      BY <1>2, <2>2, <2>4 DEF Flush, LogTyped
    <3>2. Standing(h)'
      BY <1>4, <2>1, <2>2, <3>1 DEF Standing
    <3>3. GoodLog(file') /\ Kept'
      BY <1>2, <1>4, <1>5, <2>2, <3>1 DEF Kept, Read
    <3> QED
      BY <3>2, <3>3 DEF Healthy, OneHandle
  <2> QED
    BY <1>14, <2>3, <2>4
<1>15. ASSUME NEW h \in Handles, Crash(h) PROVE Healthy'
  <2>1. mode'[h] = "closed" /\ buf'[h] = <<>> /\ UNCHANGED <<file, synced, acked, durable>>
    BY <1>2, <1>15 DEF Crash, Gone, LogTyped, history
  <2>2. Standing(h)'
    BY <2>1 DEF Standing
  <2> QED
    BY <1>6, <2>1, <2>2
<1>16. ASSUME PowerLoss PROVE Healthy'
  <2>1. PICK n \in synced .. Len(file) : file' = SubSeq(file, 1, n)
    BY <1>16 DEF PowerLoss
  <2>2. PICK f : f = SubSeq(file, 1, n)
    OBVIOUS
  <2>3. n \in 0 .. Len(file)
    BY <1>3
  <2>4. /\ f \in Seq(Token) /\ Len(f) = n /\ Read(f) = Reading(file)[n] /\ GoodLog(f)
    BY <1>2, <1>3, <2>2, <2>3, PrefixProps
  <2>5. file' = f /\ synced' = n /\ acked' = durable /\ durable' = durable
        /\ Read(f) = Reading(f)[n]
    BY <1>16, <2>1, <2>2, <2>4 DEF PowerLoss, Read
  <2>6. IsSubsequence(durable, Reading(file)[n].events)
    BY <1>2, <1>3, EventsGrow DEF Kept
  <2>7. GoodLog(file') /\ Kept'
    BY <2>4, <2>5, <2>6 DEF Kept
  <2>8. ASSUME NEW h \in Handles PROVE Standing(h)'
    <3>1. mode'[h] = "closed" /\ buf'[h] = <<>>
      BY <1>16 DEF PowerLoss
    <3> QED
      BY <3>1 DEF Standing
  <2> QED
    BY <2>7, <2>8 DEF Healthy
<1>17. CASE UNCHANGED vars
  BY <1>2, <1>17 DEF vars, handleVars, history, Healthy, Kept, Standing
<1> QED
  BY <1>7, <1>8, <1>9, <1>10, <1>11, <1>12, <1>13, <1>14, <1>15, <1>16, <1>17 DEF Next

-----------------------------------------------------------------------------
(* The properties *)

\* What the next open reads has all that was acknowledged.
LEMMA Repaired ==
  ASSUME NEW f \in Seq(Token), GoodLog(f), NEW s \in Seq(Event),
         IsSubsequence(s, Read(f).events)
  PROVE  LET r == Replay(SubSeq(f, 1, RepairedLength(f))) IN
         r.ok /\ IsSubsequence(s, r.events)
<1>1. PICK k, g, a, c :
        k = RepairedLength(f) /\ g = SubSeq(f, 1, k) /\ a = Read(f) /\ c = Reading(f)[k]
  OBVIOUS
<1>2. /\ Good(a) /\ k \in 0 .. Len(f)
      /\ k = Len(f) => a.line = <<>> \/ \E e \in Event :
                         a.line = <<HeadOf(e), RestOf(e)>> /\ Applies(a.state, e)
      /\ k # Len(f) => c.line = <<>> /\ \A m \in k .. Len(f) : Reading(f)[m].events = a.events
  BY <1>1, RepairProps
<1>3. Read(g) = c /\ g \in Seq(Token) /\ Len(g) = k
  BY <1>1, <1>2, PrefixProps
<1>4. Good(c) /\ c.events = a.events /\ (k = Len(f) => c = a)
  <2>1. Good(c)
    BY <1>1, <1>2 DEF GoodLog
  <2>2. k \in k .. Len(f)
    BY <1>2
  <2> QED
    BY <1>1, <1>2, <2>1, <2>2 DEF Read
<1>5. c.ok /\ c.events \in Seq(Event) /\ IsSubsequence(s, c.events)
  BY <1>1, <1>4, GoodLine
<1>6. Replay(g) = EndLine(c)
  BY <1>3 DEF Replay, Read
<1>7. CASE c.line = <<>>
  BY <1>1, <1>5, <1>6, <1>7 DEF EndLine
<1>8. CASE c.line # <<>>
  <2>1. PICK e \in Event : c.line = <<HeadOf(e), RestOf(e)>> /\ Applies(c.state, e)
    BY <1>2, <1>4, <1>8
  <2>2. c = Acc(c.line, c.state, c.events) /\ c.line \in Seq(Token)
    BY <1>4, GoodLine DEF Good
  <2>3. ReadToken(c, Newline) = EndLine(c)
    BY DEF ReadToken
  <2>4. EndLine(c) = Acc(<<>>, Applied(c.state, e), Append(c.events, e))
    <3>1. PICK l, t, es : l = c.line /\ t = c.state /\ es = c.events
      OBVIOUS
    <3>2. ReadToken(Acc(l, t, es), Newline) = Acc(<<>>, Applied(t, e), Append(es, e))
      BY <1>5, <2>1, <2>2, <3>1, TokenProps, ZenonT(60)
    <3> QED
      BY <2>2, <2>3, <3>1, <3>2
  <2>5. EndLine(c).ok /\ EndLine(c).events = Append(c.events, e)
    BY <2>4 DEF Acc
  <2>6. IsSubsequence(s, Append(c.events, e))
    BY <1>5, SubsequenceGrows
  <2> QED
    BY <1>1, <1>6, <2>5, <2>6
<1> QED
  BY <1>7, <1>8

LEMMA Consequences == LogInv => StateMatchesLog /\ Reopenable /\ AckedSurvive
<1> SUFFICES ASSUME LogInv, damage = {}
             PROVE  /\ Reopenable /\ AckedSurvive
                    /\ \A h \in Handles : mode[h] = "idle" =>
                         Replay(file).ok /\ Replay(file).state = state[h]
  BY DEF StateMatchesLog, Reopenable, AckedSurvive
<1>1. /\ file \in Seq(Token) /\ acked \in Seq(Event) /\ GoodLog(file)
      /\ IsSubsequence(acked, Read(file).events) /\ \A h \in Handles : Standing(h)
  BY DEF LogInv, LogTyped, Healthy, Kept
<1>2. Reopenable /\ AckedSurvive
  BY <1>1, Repaired DEF Reopenable, AckedSurvive
<1>3. ASSUME NEW h \in Handles, mode[h] = "idle"
      PROVE  Replay(file).ok /\ Replay(file).state = state[h]
  <2>1. PICK a : a = Read(file)
    OBVIOUS
  <2>2. a.line = <<>> /\ a.state = state[h]
    BY <1>1, <1>3, <2>1 DEF Standing
  <2>3. Replay(file) = a
    BY <2>1, <2>2 DEF Replay, Read, EndLine
  <2>4. a.ok
    BY <1>1, <2>1, RepairProps, GoodLine
  <2> QED
    BY <2>2, <2>3, <2>4
<1> QED
  BY <1>2, <1>3

LEMMA InvStep == ASSUME OneHandle PROVE LogInv /\ [Next]_vars => LogInv'
BY TypedStep, JudgedStep, HealthyStep DEF LogInv

\* While one handle at a time is open and nothing is damaged, its state is what
\* a restart would rebuild.  (orchestrator.rs: open, emit; reader.rs: replay.)
THEOREM StateIsTheLogs == ASSUME OneHandle PROVE Spec => []StateMatchesLog
BY InitHealthy, InvStep, Consequences, PTL DEF Spec

\* Then, wherever a process dies or the power fails, the log opens again.
\* (reader.rs: repair_truncated_tail, replay.)
THEOREM LogReopens == ASSUME OneHandle PROVE Spec => []Reopenable
BY InitHealthy, InvStep, Consequences, PTL DEF Spec

\* And the next open has every event whose emit returned Ok, or after a power
\* failure those of the last flush.  (writer.rs: append, flush; reader.rs.)
THEOREM AcknowledgedEventsSurvive == ASSUME OneHandle PROVE Spec => []AckedSurvive
BY InitHealthy, InvStep, Consequences, PTL DEF Spec

-----------------------------------------------------------------------------
(* With any number of handles an event is still written once *)

Fields == {"status", "started", "cwd", "messages", "checkpoint", "ended", "count"}

\* A state that has counted at most n events.
CountsTo(s, n) == DOMAIN s = Fields /\ s.count \in 0 .. n

Heads(f, n) == {i \in 1 .. n : f[i].part = "head"}

\* The numbers of the events that f holds, and that it holds none twice.
Marks(f) == {f[i].of.n : i \in Heads(f, Len(f))}
Once(f) == \A i, j \in Heads(f, Len(f)) : f[i].of.n = f[j].of.n => i = j

WrittenOnce ==
  /\ Once(file) /\ Marks(file) \subseteq 1 .. emits
  /\ \A h \in Handles : /\ Once(buf[h]) /\ Marks(buf[h]) \subseteq 1 .. emits
                        /\ Marks(buf[h]) \cap Marks(file) = {}
  /\ \A g, h \in Handles : g # h => Marks(buf[g]) \cap Marks(buf[h]) = {}

CountInv ==
  /\ \A h \in Handles : /\ CountsTo(state[h], emits)
                        /\ mode[h] = "emitting" => CountsTo(state[h], emits - 1)
  /\ damage \subseteq Damage

LEMMA AppliedCounts ==
  ASSUME NEW n \in Nat, NEW s, CountsTo(s, n), NEW e \in Event
  PROVE  DOMAIN Applied(s, e) = Fields /\ Applied(s, e).count = s.count + 1
<1> DEFINE t == [s EXCEPT !.count = @ + 1]
<1>1. DOMAIN t = Fields /\ t.count = s.count + 1
  BY DEF CountsTo, Fields
<1> HIDE DEF t
<1>2. e.kind \in AllKinds
  BY DEF Event
<1>3. CASE e.kind = "SessionStarted"
  <2>1. Applied(s, e) = [t EXCEPT !.status = "Active", !.started = e.n, !.cwd = e.n]
    BY <1>3 DEF Applied, t
  <2> QED
    BY <1>1, <2>1
<1>4. CASE e.kind = "MessageAdded"
  <2>1. Applied(s, e) = [t EXCEPT !.messages = Append(@, e.n)]
    BY <1>4 DEF Applied, t
  <2> QED
    BY <1>1, <2>1
<1>5. CASE e.kind = "CheckpointCreated"
  <2>1. Applied(s, e) = [t EXCEPT !.checkpoint = e.n]
    BY <1>5 DEF Applied, t
  <2> QED
    BY <1>1, <2>1
<1>6. CASE e.kind = "SessionPaused"
  <2>1. Applied(s, e) = [t EXCEPT !.status = "Paused"]
    BY <1>6 DEF Applied, t
  <2> QED
    BY <1>1, <2>1
<1>7. CASE e.kind = "SessionResumed"
  <2>1. Applied(s, e) = [t EXCEPT !.status = "Active", !.cwd = e.n]
    BY <1>7 DEF Applied, t
  <2> QED
    BY <1>1, <2>1
<1>8. CASE e.kind = "SessionEnded"
  <2>1. Applied(s, e) = [t EXCEPT !.status = "Ended", !.ended = e.n]
    BY <1>8 DEF Applied, t
  <2> QED
    BY <1>1, <2>1
<1>9. CASE e.kind \in {"ToolCall", "Unknown"}
  <2>1. Applied(s, e) = t
    BY <1>9 DEF Applied, t
  <2> QED
    BY <1>1, <2>1
<1> QED
  BY <1>2, <1>3, <1>4, <1>5, <1>6, <1>7, <1>8, <1>9 DEF AllKinds

\* More of a file has no fewer heads.
LEMMA HeadsGrow ==
  ASSUME NEW f, NEW m \in Nat, NEW n \in Nat, m <= n
  PROVE  /\ IsFiniteSet(Heads(f, n)) /\ Cardinality(Heads(f, n)) \in Nat
         /\ Cardinality(Heads(f, m)) \in Nat
         /\ Cardinality(Heads(f, m)) <= Cardinality(Heads(f, n))
         /\ \A i \in m + 1 .. n : f[i].part = "head" =>
              Cardinality(Heads(f, m)) + 1 <= Cardinality(Heads(f, n))
<1>1. \A k \in Nat : IsFiniteSet(1 .. k)
  BY FS_Interval
<1>2. IsFiniteSet(Heads(f, n)) /\ IsFiniteSet(Heads(f, m))
  BY <1>1, FS_Subset DEF Heads
<1>3. Cardinality(Heads(f, n)) \in Nat /\ Cardinality(Heads(f, m)) \in Nat
  BY <1>2, FS_CardinalityType
<1>4. Heads(f, m) \subseteq Heads(f, n)
  BY DEF Heads
<1>5. Cardinality(Heads(f, m)) <= Cardinality(Heads(f, n))
  BY <1>2, <1>4, FS_Subset
<1>6. ASSUME NEW i \in m + 1 .. n, f[i].part = "head"
      PROVE  Cardinality(Heads(f, m)) + 1 <= Cardinality(Heads(f, n))
  <2> DEFINE S == Heads(f, m) \cup {i}
  <2>1. i \notin Heads(f, m) /\ S \subseteq Heads(f, n)
    BY <1>4, <1>6 DEF Heads
  <2>2. Cardinality(S) = Cardinality(Heads(f, m)) + 1
    BY <1>2, <2>1, FS_AddElement
  <2>3. Cardinality(S) <= Cardinality(Heads(f, n))
    BY <1>2, <2>1, FS_Subset
  <2> QED
    BY <2>2, <2>3
<1> QED
  BY <1>2, <1>3, <1>5, <1>6

\* No more heads than numbers, where none is there twice.
LEMMA HeadsBounded ==
  ASSUME NEW f \in Seq(Token), Once(f), NEW m \in Nat, Marks(f) \subseteq 1 .. m
  PROVE  Cardinality(Heads(f, Len(f))) <= m
<1> DEFINE S == Heads(f, Len(f))
           g == [i \in S |-> f[i].of.n]
<1>1. \A i \in S : f[i].of.n \in 1 .. m
  BY DEF Marks
<1>2. g \in [S -> 1 .. m] /\ \A i, j \in S : g[i] = g[j] => i = j
  BY <1>1 DEF Once
<1> HIDE DEF g, S
<1>3. g \in Injection(S, 1 .. m)
  BY <1>2 DEF Injection, IsInjective
<1>4. IsFiniteSet(1 .. m) /\ Cardinality(1 .. m) = m
  BY FS_Interval
<1>5. Cardinality(S) <= m
  BY <1>3, <1>4, FS_Injection
<1> QED
  BY <1>5 DEF S

\* What has been counted after n tokens were heads before the line that has begun.
Counted(f, a, n) ==
  /\ DOMAIN a = {"ok", "line", "state", "events"}
  /\ DOMAIN a.state = Fields /\ a.state.count \in Nat
  /\ \E p \in 0 .. n : /\ a.state.count <= Cardinality(Heads(f, p))
                       /\ a.ok => a.line = SubSeq(f, p + 1, n)

LEMMA EndLineCounted ==
  ASSUME NEW f \in Seq(Token), NEW n \in 0 .. Len(f), NEW a, Counted(f, a, n)
  PROVE  /\ DOMAIN EndLine(a) = {"ok", "line", "state", "events"}
         /\ DOMAIN EndLine(a).state = Fields /\ EndLine(a).state.count \in Nat
         /\ EndLine(a).state.count <= Cardinality(Heads(f, n))
         /\ EndLine(a).ok => EndLine(a).line = <<>>
<1>0. Len(f) \in Nat /\ n \in Nat
  OBVIOUS
<1>1. PICK p \in 0 .. n : /\ a.state.count <= Cardinality(Heads(f, p))
                          /\ a.ok => a.line = SubSeq(f, p + 1, n)
  BY DEF Counted
<1>2. /\ Cardinality(Heads(f, p)) \in Nat /\ Cardinality(Heads(f, n)) \in Nat
      /\ Cardinality(Heads(f, p)) <= Cardinality(Heads(f, n))
      /\ \A i \in p + 1 .. n : f[i].part = "head" =>
           Cardinality(Heads(f, p)) + 1 <= Cardinality(Heads(f, n))
  BY <1>0, HeadsGrow
<1>3. DOMAIN a = {"ok", "line", "state", "events"} /\ DOMAIN a.state = Fields
      /\ a.state.count \in Nat
  BY DEF Counted
<1>4. CASE ~a.ok \/ a.line = <<>>
  <2>1. EndLine(a) = a
    BY <1>4 DEF EndLine
  <2> QED
    BY <1>1, <1>2, <1>3, <1>4, <2>1
<1>5. CASE a.ok /\ a.line # <<>> /\ IsEventText(a.line) /\ Applies(a.state, a.line[1].of)
  <2>1. a.line = SubSeq(f, p + 1, n) /\ Len(a.line) = 2 /\ a.line[1].part = "head"
    BY <1>1, <1>5 DEF IsEventText
  <2>2. n = p + 2 /\ a.line[1] = f[p + 1] /\ p + 1 \in 1 .. Len(f)
    BY <1>0, <2>1
  <2>3. a.line[1].of \in Event
    <3>1. f[p + 1] \in Token
      BY <2>2
    <3> QED
      BY <2>1, <2>2, <3>1 DEF Token, Newline, Zero
  <2>4. PICK e \in Event : e = a.line[1].of
    BY <2>3
  <2>5. PICK b : b = EndLine(a)
    OBVIOUS
  <2>6. b = [a EXCEPT !.line = <<>>, !.state = Applied(@, e), !.events = Append(@, e)]
    BY <1>5, <2>4, <2>5 DEF EndLine
  <2>7. DOMAIN b = DOMAIN a /\ b.line = <<>> /\ b.state = Applied(a.state, e)
    BY <1>3, <2>6
  <2>8. PICK k \in Nat : k = a.state.count
    BY <1>3
  <2>9. CountsTo(a.state, k)
    BY <1>3, <2>8 DEF CountsTo
  <2>10. DOMAIN b.state = Fields /\ b.state.count = k + 1
    BY <2>7, <2>8, <2>9, AppliedCounts
  <2>11. k + 1 <= Cardinality(Heads(f, n))
    BY <1>0, <1>1, <1>2, <2>1, <2>2, <2>8
  <2> QED
    BY <1>3, <2>5, <2>7, <2>10, <2>11
<1>6. CASE a.ok /\ a.line # <<>> /\ ~(IsEventText(a.line) /\ Applies(a.state, a.line[1].of))
  <2>1. EndLine(a) = [a EXCEPT !.ok = FALSE]
    BY <1>6 DEF EndLine
  <2> QED
    BY <1>1, <1>2, <1>3, <2>1
<1> QED
  BY <1>4, <1>5, <1>6

LEMMA OneMore ==
  ASSUME NEW f \in Seq(Token), NEW n \in Nat, NEW m \in Nat, n <= m, m < Len(f)
  PROVE  Append(SubSeq(f, n + 1, m), f[m + 1]) = SubSeq(f, n + 1, m + 1)
<1>1. SubSeq(f, n + 1, m) \in Seq(Token) /\ Len(SubSeq(f, n + 1, m)) = m - n
  OBVIOUS
<1> QED
  BY <1>1

LEMMA ReadingCounted ==
  ASSUME NEW f \in Seq(Token) PROVE \A n \in 0 .. Len(f) : Counted(f, Reading(f)[n], n)
<1> DEFINE T == {n \in Nat : Counted(f, Reading(f)[n], n)}
<1>0. Len(f) \in Nat
  OBVIOUS
<1>1. 0 \in T
  <2>1. Reading(f)[0] = Start
    BY ReadingStep
  <2>2. Cardinality(Heads(f, 0)) \in Nat
    BY HeadsGrow
  <2>3. SubSeq(f, 1, 0) = <<>>
    OBVIOUS
  <2>4. 0 \in 0 .. 0 /\ SubSeq(f, 0 + 1, 0) = <<>> /\ 0 <= Cardinality(Heads(f, 0))
    BY <2>2, <2>3
  <2>5. DOMAIN NewState = Fields /\ NewState.count = 0
    BY DEF NewState, Fields
  <2>6. Counted(f, Start, 0)
    BY <2>4, <2>5 DEF Counted, Start
  <2> QED
    BY <2>1, <2>6
<1>2. ASSUME NEW n \in 0 .. Len(f), n < Len(f), n \in T PROVE n + 1 \in T
  <2>1. PICK a : a = Reading(f)[n]
    OBVIOUS
  <2>2. n + 1 \in 1 .. Len(f) /\ n + 1 \in Nat /\ (n + 1) - 1 = n
    BY <1>0, <1>2
  <2>3. Reading(f)[n + 1] = ReadToken(a, f[n + 1])
    BY <2>1, <2>2, ReadingStep
  <2>4. Counted(f, a, n)
    BY <1>2, <2>1
  <2>5. CASE f[n + 1] = Newline
    <3>1. PICK b : b = EndLine(a)
      OBVIOUS
    <3>2. /\ DOMAIN b = {"ok", "line", "state", "events"}
          /\ DOMAIN b.state = Fields /\ b.state.count \in Nat
          /\ b.state.count <= Cardinality(Heads(f, n))
          /\ b.ok => b.line = <<>>
      BY <2>4, <3>1, EndLineCounted
    <3>3. Cardinality(Heads(f, n)) <= Cardinality(Heads(f, n + 1))
          /\ Cardinality(Heads(f, n)) \in Nat /\ Cardinality(Heads(f, n + 1)) \in Nat
      BY <2>2, HeadsGrow
    <3>4. b.state.count <= Cardinality(Heads(f, n + 1))
      BY <3>2, <3>3
    <3>5. SubSeq(f, (n + 1) + 1, n + 1) = <<>>
      BY <1>0, <2>2
    <3>6. n + 1 \in 0 .. n + 1
      BY <2>2
    <3>7. Counted(f, b, n + 1)
      BY <3>2, <3>4, <3>5, <3>6 DEF Counted
    <3> QED
      BY <2>2, <2>3, <2>5, <3>1, <3>7 DEF ReadToken
  <2>6. CASE f[n + 1] # Newline
    <3>1. PICK b : b = [a EXCEPT !.line = Append(@, f[n + 1])]
      OBVIOUS
    <3>2. b = Reading(f)[n + 1]
      BY <2>3, <2>6, <3>1 DEF ReadToken
    <3>3. PICK p \in 0 .. n : /\ a.state.count <= Cardinality(Heads(f, p))
                              /\ a.ok => a.line = SubSeq(f, p + 1, n)
      BY <2>4 DEF Counted
    <3>4. Append(SubSeq(f, p + 1, n), f[n + 1]) = SubSeq(f, p + 1, n + 1)
      <4>1. p \in Nat /\ n \in Nat /\ p <= n /\ n < Len(f)
        BY <1>0, <1>2, <3>3
      <4> QED
        BY <4>1, OneMore
    <3>5. /\ DOMAIN b = {"ok", "line", "state", "events"} /\ b.state = a.state /\ b.ok = a.ok
          /\ b.line = Append(a.line, f[n + 1])
      BY <2>4, <3>1 DEF Counted
    <3>8. p \in 0 .. n + 1
      BY <2>2, <3>3
    <3>9. ASSUME b.ok PROVE b.line = SubSeq(f, p + 1, n + 1)
      <4>1. a.line = SubSeq(f, p + 1, n)
        BY <3>3, <3>5, <3>9
      <4> QED
        BY <3>4, <3>5, <4>1, Zenon
    <3>6. p \in 0 .. n + 1 /\ (b.ok => b.line = SubSeq(f, p + 1, n + 1))
      BY <3>8, <3>9
    <3>7. Counted(f, b, n + 1)
      BY <2>4, <3>3, <3>5, <3>6 DEF Counted
    <3> QED
      BY <2>2, <3>2, <3>7
  <2> QED
    BY <2>5, <2>6
<1>3. 0 .. Len(f) \subseteq T
  <2> HIDE DEF T
  <2> QED
    BY <1>0, <1>1, <1>2, Climb
<1> QED
  BY <1>3

\* A replay counts no more events than the file can hold.
LEMMA ReplayCounts ==
  ASSUME NEW f \in Seq(Token), Once(f), NEW m \in Nat, Marks(f) \subseteq 1 .. m
  PROVE  CountsTo(Replay(f).state, m)
<1>1. Len(f) \in 0 .. Len(f) /\ Len(f) \in Nat
  OBVIOUS
<1>2. PICK a : a = Reading(f)[Len(f)]
  OBVIOUS
<1>3. Counted(f, a, Len(f))
  BY <1>1, <1>2, ReadingCounted
<1>4. PICK b : b = EndLine(a)
  OBVIOUS
<1>5. /\ DOMAIN b.state = Fields /\ b.state.count \in Nat
      /\ b.state.count <= Cardinality(Heads(f, Len(f)))
  BY <1>1, <1>3, <1>4, EndLineCounted
<1>6. Cardinality(Heads(f, Len(f))) <= m /\ Cardinality(Heads(f, Len(f))) \in Nat
  BY <1>1, HeadsBounded, HeadsGrow
<1>7. b.state.count \in 0 .. m
  BY <1>5, <1>6
<1> QED
  BY <1>2, <1>4, <1>5, <1>7 DEF Replay, CountsTo

-----------------------------------------------------------------------------
LEMMA PartMarks ==
  ASSUME NEW f \in Seq(Token), NEW a \in Nat \ {0}, NEW b \in Nat, b <= Len(f)
  PROVE  /\ Marks(SubSeq(f, a, b)) \subseteq Marks(f)
         /\ Once(f) => Once(SubSeq(f, a, b))
         /\ \A i \in Heads(SubSeq(f, a, b), Len(SubSeq(f, a, b))) :
              i \in Nat /\ i + (a - 1) \in Heads(f, Len(f)) /\ i + (a - 1) \in a .. b
              /\ SubSeq(f, a, b)[i] = f[i + (a - 1)]
<1> DEFINE s == SubSeq(f, a, b)
<1>1. s \in Seq(Token) /\ Len(s) = (IF a <= b THEN b - a + 1 ELSE 0) /\ Len(f) \in Nat
  OBVIOUS
<1>2. \A i \in 1 .. Len(s) : s[i] = f[i + (a - 1)] /\ i \in Nat /\ i + (a - 1) \in a .. b
                           /\ i + (a - 1) \in 1 .. Len(f)
  OBVIOUS
<1> HIDE DEF s
<1>3. \A i \in Heads(s, Len(s)) :
        /\ i \in Nat /\ i + (a - 1) \in Heads(f, Len(f)) /\ i + (a - 1) \in a .. b
        /\ s[i] = f[i + (a - 1)]
  BY <1>2 DEF Heads
<1>4. Marks(s) \subseteq Marks(f)
  BY <1>3 DEF Marks
<1>5. ASSUME Once(f) PROVE Once(s)
  <2>1. ASSUME NEW i \in Heads(s, Len(s)), NEW j \in Heads(s, Len(s)), s[i].of.n = s[j].of.n
        PROVE  i = j
    <3>1. i + (a - 1) = j + (a - 1) /\ i \in Nat /\ j \in Nat
      BY <1>3, <1>5, <2>1, SMTT(30) DEF Once
    <3> QED
      BY <3>1
  <2> QED
    BY <2>1 DEF Once
<1> QED
  BY <1>3, <1>4, <1>5 DEF s

LEMMA SplitMarks ==
  ASSUME NEW f \in Seq(Token), Once(f), NEW k \in 1 .. Len(f)
  PROVE  LET c == SubSeq(f, 1, k)
             d == SubSeq(f, k + 1, Len(f))
         IN  /\ Once(c) /\ Once(d) /\ Marks(c) \subseteq Marks(f)
             /\ Marks(d) \subseteq Marks(f) /\ Marks(c) \cap Marks(d) = {}
<1> DEFINE c == SubSeq(f, 1, k)
           d == SubSeq(f, k + 1, Len(f))
<1>0. Len(f) \in Nat /\ k \in Nat /\ k <= Len(f) /\ 1 \in Nat \ {0} /\ k + 1 \in Nat \ {0}
  OBVIOUS
<1>1. /\ Once(c) /\ Marks(c) \subseteq Marks(f)
      /\ \A i \in Heads(c, Len(c)) :
           i \in Nat /\ i + (1 - 1) \in Heads(f, Len(f)) /\ i + (1 - 1) \in 1 .. k
           /\ c[i] = f[i + (1 - 1)]
  BY <1>0, PartMarks
<1>2. /\ Once(d) /\ Marks(d) \subseteq Marks(f)
      /\ \A i \in Heads(d, Len(d)) :
           i \in Nat /\ i + ((k + 1) - 1) \in Heads(f, Len(f))
           /\ i + ((k + 1) - 1) \in k + 1 .. Len(f) /\ d[i] = f[i + ((k + 1) - 1)]
  BY <1>0, PartMarks
<1> HIDE DEF c, d
<1>3. ASSUME NEW i \in Heads(c, Len(c)), NEW j \in Heads(d, Len(d)), c[i].of.n = d[j].of.n
      PROVE  FALSE
  <2>1. PICK x \in Int : x = i + (1 - 1)
    BY <1>1
  <2>2. PICK y \in Int : y = j + ((k + 1) - 1)
    BY <1>0, <1>2
  <2>3. x \in Heads(f, Len(f)) /\ x \in 1 .. k /\ c[i] = f[x]
    BY <1>1, <2>1
  <2>4. y \in Heads(f, Len(f)) /\ y \in k + 1 .. Len(f) /\ d[j] = f[y]
    BY <1>2, <2>2
  <2>5. x = y
    BY <1>3, <2>3, <2>4 DEF Once
  <2> QED
    BY <1>0, <2>3, <2>4, <2>5
<1>4. Marks(c) \cap Marks(d) = {}
  BY <1>3 DEF Marks
<1> QED
  BY <1>1, <1>2, <1>4 DEF c, d

LEMMA JoinMarks ==
  ASSUME NEW f \in Seq(Token), NEW g \in Seq(Token), Once(f), Once(g),
         Marks(f) \cap Marks(g) = {}
  PROVE  Once(f \o g) /\ Marks(f \o g) \subseteq Marks(f) \cup Marks(g)
<1> DEFINE s == f \o g
<1>1. Len(f) \in Nat /\ Len(g) \in Nat /\ s \in Seq(Token) /\ Len(s) = Len(f) + Len(g)
  OBVIOUS
<1>2. \A i \in 1 .. Len(s) :
        \/ i \in 1 .. Len(f) /\ s[i] = f[i]
        \/ i - Len(f) \in 1 .. Len(g) /\ s[i] = g[i - Len(f)] /\ i \in Nat
  OBVIOUS
<1> HIDE DEF s
<1>3. \A i \in Heads(s, Len(s)) :
        \/ i \in Heads(f, Len(f)) /\ s[i] = f[i] /\ f[i].of.n \in Marks(f)
        \/ /\ i - Len(f) \in Heads(g, Len(g)) /\ s[i] = g[i - Len(f)] /\ i \in Nat
           /\ g[i - Len(f)].of.n \in Marks(g)
  BY <1>2 DEF Heads, Marks
<1>4. Marks(s) \subseteq Marks(f) \cup Marks(g)
  BY <1>3 DEF Marks
<1>5. ASSUME NEW i \in Heads(s, Len(s)), NEW j \in Heads(s, Len(s)), s[i].of.n = s[j].of.n
      PROVE  i = j
  <2>1. CASE i \in Heads(f, Len(f)) /\ s[i] = f[i] /\ f[i].of.n \in Marks(f)
    <3>1. j \in Heads(f, Len(f)) /\ s[j] = f[j]
      BY <1>3, <1>5, <2>1
    <3> QED
      BY <1>5, <2>1, <3>1 DEF Once
  <2>2. CASE /\ i - Len(f) \in Heads(g, Len(g)) /\ s[i] = g[i - Len(f)] /\ i \in Nat
             /\ g[i - Len(f)].of.n \in Marks(g)
    <3>1. j - Len(f) \in Heads(g, Len(g)) /\ s[j] = g[j - Len(f)] /\ j \in Nat
      BY <1>3, <1>5, <2>2
    <3>2. i - Len(f) = j - Len(f)
      BY <1>5, <2>2, <3>1 DEF Once
    <3> QED
      BY <1>1, <2>2, <3>1, <3>2
  <2> QED
    BY <1>3, <2>1, <2>2
<1>6. Once(s)
  BY <1>5 DEF Once
<1> QED
  BY <1>4, <1>6 DEF s

LEMMA SetLenMarks ==
  ASSUME NEW f \in Seq(Token), NEW n \in Nat
  PROVE  Marks(SetLen(f, n)) \subseteq Marks(f) /\ (Once(f) => Once(SetLen(f, n)))
<1>0. \A m \in Nat : SetLen(f, m) \in Seq(Token) /\ Len(SetLen(f, m)) = m
  BY CutProps, Zenon
<1> DEFINE s == SetLen(f, n)
<1>1. Len(s) = n /\ Len(f) \in Nat
  BY <1>0
<1>2. \A i \in 1 .. n : s[i] = IF i <= Len(f) THEN f[i] ELSE Zero
  BY DEF SetLen
<1> HIDE DEF s
<1>3. \A i \in Heads(s, Len(s)) : i \in Heads(f, Len(f)) /\ s[i] = f[i]
  BY <1>1, <1>2 DEF Heads, Zero
<1> QED
  BY <1>3 DEF Marks, Once, s

LEMMA LineMarks ==
  ASSUME NEW e \in Event
  PROVE  Once(Line(e)) /\ Marks(Line(e)) = {e.n} /\ Once(<<>>) /\ Marks(<<>>) = {}
<1> DEFINE l == Line(e)
<1>1. Len(l) = 3 /\ l[1] = [part |-> "head", of |-> e] /\ l[2].part = "rest" /\ l[3].part = "newline"
  BY DEF Line, Newline
<1> HIDE DEF l
<1>2. Heads(l, Len(l)) = {1} /\ l[1].of = e
  BY <1>1 DEF Heads
<1>3. Heads(<<>>, Len(<<>>)) = {}
  BY DEF Heads
<1> QED
  BY <1>2, <1>3 DEF Once, Marks, l

\* Nothing is written: what is kept is part of what there was.
LEMMA Less ==
  ASSUME WrittenOnce, Once(file'), Marks(file') \subseteq Marks(file),
         emits \in Nat, emits' \in Nat, emits <= emits',
         \A h \in Handles : Once(buf'[h]) /\ Marks(buf'[h]) \subseteq Marks(buf[h])
  PROVE  WrittenOnce'
<1>1. 1 .. emits \subseteq 1 .. emits'
  OBVIOUS
<1>2. Once(file') /\ Marks(file') \subseteq 1 .. emits'
  BY <1>1 DEF WrittenOnce
<1>3. \A h \in Handles : /\ Once(buf'[h]) /\ Marks(buf'[h]) \subseteq 1 .. emits'
                         /\ Marks(buf'[h]) \cap Marks(file') = {}
  BY <1>1 DEF WrittenOnce
<1>4. \A g, h \in Handles : g # h => Marks(buf'[g]) \cap Marks(buf'[h]) = {}
  BY DEF WrittenOnce
<1> QED
  BY <1>2, <1>3, <1>4 DEF WrittenOnce, Once, Marks, Heads

\* A part of what a handle's buffer held goes to the end of the file.
LEMMA Moves ==
  ASSUME LogTyped, WrittenOnce, NEW h \in Handles, NEW c \in Seq(Token), NEW d,
         file' = file \o c, buf' = [buf EXCEPT ![h] = d], emits' = emits,
         Once(c), Once(d), Marks(c) \cap Marks(d) = {},
         Marks(c) \subseteq Marks(buf[h]), Marks(d) \subseteq Marks(buf[h])
  PROVE  WrittenOnce'
<1>1. Once(file) /\ Marks(file) \cap Marks(c) = {} /\ file \in Seq(Token)
  BY DEF WrittenOnce, LogTyped
<1>2. Once(file') /\ Marks(file') \subseteq Marks(file) \cup Marks(c)
  BY <1>1, JoinMarks
<1>3. buf'[h] = d /\ \A g \in Handles : g # h => buf'[g] = buf[g]
  BY DEF LogTyped
<1>4. Marks(file') \subseteq 1 .. emits'
  BY <1>2 DEF WrittenOnce
<1>5. \A g \in Handles : /\ Once(buf'[g]) /\ Marks(buf'[g]) \subseteq 1 .. emits'
                         /\ Marks(buf'[g]) \cap Marks(file') = {}
  BY <1>2, <1>3 DEF WrittenOnce
<1>6. ASSUME NEW g \in Handles, NEW k \in Handles, g # k
      PROVE  Marks(buf'[g]) \cap Marks(buf'[k]) = {}
  <2>1. Marks(buf'[g]) \subseteq Marks(buf[g]) /\ Marks(buf'[k]) \subseteq Marks(buf[k])
    BY <1>3
  <2> QED
    BY <1>6, <2>1 DEF WrittenOnce
<1> QED
  BY <1>2, <1>4, <1>5, <1>6 DEF WrittenOnce, Once, Marks, Heads

LEMMA OnceStep == LogTyped /\ WrittenOnce /\ [Next]_vars => WrittenOnce'
<1> SUFFICES ASSUME LogTyped, WrittenOnce, [Next]_vars PROVE WrittenOnce'
  OBVIOUS
<1>0. /\ file \in Seq(Token) /\ Len(file) \in Nat /\ synced \in 0 .. Len(file) /\ emits \in Nat
      /\ \A h \in Handles : buf[h] \in Seq(Token) /\ Once(buf[h])
      /\ Once(file) /\ cut \in [Handles -> Nat]
  BY MaxEmitsAssumption DEF LogTyped, WrittenOnce
<1>a. Once(<<>>) /\ Marks(<<>>) = {}
  BY DEF Once, Marks, Heads
<1>1. ASSUME UNCHANGED file, UNCHANGED buf, UNCHANGED emits PROVE WrittenOnce'
  <2>1. Once(file') /\ Marks(file') \subseteq Marks(file)
    <3>1. Once(file)' /\ Marks(file)' = Marks(file)
      BY <1>0, <1>1
    <3> QED
      BY <1>0, <1>1
  <2>2. \A h \in Handles : Once(buf'[h]) /\ Marks(buf'[h]) \subseteq Marks(buf[h])
    BY <1>0, <1>1
  <2>3. emits \in Nat /\ emits' \in Nat /\ emits <= emits'
    BY <1>0, <1>1
  <2> QED
    BY <2>1, <2>2, <2>3, Less
<1>2. ASSUME NEW h \in Handles, UNCHANGED <<file, emits>>, Gone(h) PROVE WrittenOnce'
  <2>1. buf' = [buf EXCEPT ![h] = <<>>]
    BY <1>2 DEF Gone
  <2>2. \A g \in Handles : buf'[g] \in {buf[g], <<>>}
    BY <2>1 DEF LogTyped
  <2>3. \A g \in Handles : Once(buf'[g]) /\ Marks(buf'[g]) \subseteq Marks(buf[g])
    BY <1>0, <1>a, <2>2
  <2>4. Once(file') /\ Marks(file') \subseteq Marks(file)
    BY <1>0, <1>2
  <2>5. emits \in Nat /\ emits' \in Nat /\ emits <= emits'
    BY <1>0, <1>2
  <2> QED
    BY <2>3, <2>4, <2>5, Less
<1>3. ASSUME NEW h \in Handles, OpenCut(h) PROVE WrittenOnce'
  <2>1. file' = SetLen(file, cut[h]) /\ cut[h] \in Nat /\ UNCHANGED <<buf, emits>>
    BY <1>0, <1>3 DEF OpenCut
  <2>2. Once(file') /\ Marks(file') \subseteq Marks(file)
    BY <1>0, <2>1, SetLenMarks
  <2> QED
    BY <1>0, <2>1, <2>2, Less
<1>4. ASSUME NEW h \in Handles, NEW k \in Kinds, EmitBegin(h, k) PROVE WrittenOnce'
  <2>1. PICK e : e = [kind |-> k, n |-> emits + 1]
    OBVIOUS
  <2>2. e \in Event /\ e.n = emits + 1
    BY <1>4, <2>1, KindsAssumption, MaxEmitsAssumption DEF EmitBegin, Event, LogTyped
  <2>3. Once(Line(e)) /\ Marks(Line(e)) = {emits + 1} /\ Line(e) \in Seq(Token)
    BY <2>2, LineMarks, LineTyped
  <2>4. PICK b : b = buf[h] \o Line(e)
    OBVIOUS
  <2>5. file' = file /\ buf' = [buf EXCEPT ![h] = b] /\ emits' = emits + 1
    BY <1>4, <2>1, <2>4 DEF EmitBegin
  <2>6. /\ Marks(file) \subseteq 1 .. emits
        /\ \A g \in Handles : Marks(buf[g]) \subseteq 1 .. emits
    BY DEF WrittenOnce
  <2>7. emits + 1 \notin 1 .. emits /\ 1 .. emits + 1 = (1 .. emits) \cup {emits + 1}
    BY <1>0
  <2>8. Marks(buf[h]) \cap Marks(Line(e)) = {}
    BY <2>3, <2>6, <2>7
  <2>9. Once(b) /\ Marks(b) \subseteq Marks(buf[h]) \cup {emits + 1}
    BY <1>0, <2>3, <2>4, <2>8, JoinMarks
  <2>10. buf'[h] = b /\ \A g \in Handles : g # h => buf'[g] = buf[g]
    BY <2>5 DEF LogTyped
  <2>11. Once(file') /\ Marks(file') \subseteq 1 .. emits'
    BY <1>0, <2>5, <2>6, <2>7
  <2>12. \A g \in Handles : /\ Once(buf'[g]) /\ Marks(buf'[g]) \subseteq 1 .. emits'
                            /\ Marks(buf'[g]) \cap Marks(file') = {}
    BY <2>5, <2>6, <2>7, <2>9, <2>10 DEF WrittenOnce
  <2>13. \A f, g \in Handles : f # g => Marks(buf'[f]) \cap Marks(buf'[g]) = {}
    BY <2>6, <2>7, <2>9, <2>10 DEF WrittenOnce
  <2> QED
    BY <2>11, <2>12, <2>13 DEF WrittenOnce, Once, Marks, Heads
<1>5. ASSUME NEW h \in Handles, Write(h) PROVE WrittenOnce'
  <2>1. PICK k \in 1 .. Len(buf[h]) :
          /\ file' = file \o SubSeq(buf[h], 1, k)
          /\ buf' = [buf EXCEPT ![h] = SubSeq(@, k + 1, Len(@))]
    BY <1>5 DEF Write
  <2>2. PICK b : b = buf[h]
    OBVIOUS
  <2>3. PICK c : c = SubSeq(b, 1, k)
    OBVIOUS
  <2>4. PICK d : d = SubSeq(b, k + 1, Len(b))
    OBVIOUS
  <2>5. b \in Seq(Token) /\ Once(b) /\ k \in 1 .. Len(b)
    BY <1>0, <2>2
  <2>6. /\ Once(c) /\ Once(d) /\ Marks(c) \subseteq Marks(b)
        /\ Marks(d) \subseteq Marks(b) /\ Marks(c) \cap Marks(d) = {}
    BY <2>3, <2>4, <2>5, SplitMarks
  <2>7. c \in Seq(Token)
    BY <2>3, <2>5
  <2>8. file' = file \o c /\ buf' = [buf EXCEPT ![h] = d] /\ emits' = emits
    BY <1>5, <2>1, <2>2, <2>3, <2>4 DEF Write
  <2> QED
    BY <2>2, <2>6, <2>7, <2>8, Moves
<1>6. ASSUME NEW h \in Handles, AppendFails(h) PROVE WrittenOnce'
  <2>1. UNCHANGED <<file, emits>>
    BY <1>6 DEF AppendFails
  <2>7. /\ Once(file') /\ Marks(file') \subseteq Marks(file)
        /\ emits' \in Nat /\ emits <= emits'
    BY <1>0, <2>1
  <2>2. PICK b : b = buf[h]
    OBVIOUS
  <2>3. b \in Seq(Token) /\ Once(b) /\ Len(Line(event[h])) = 3
    BY <1>0, <2>2 DEF Line
  <2>4. PICK d : /\ buf' = [buf EXCEPT ![h] = d]
                 /\ d \in {b, <<>>} \/ (Len(b) > 3 /\ d = SubSeq(b, 1, Len(b) - 3))
    <3>1. \/ buf' = buf
          \/ buf' = [buf EXCEPT ![h] = <<>>]
          \/ Len(b) > 3 /\ buf' = [buf EXCEPT ![h] = SubSeq(b, 1, Len(b) - 3)]
      BY <1>6, <2>2, <2>3 DEF AppendFails
    <3>2. buf = [buf EXCEPT ![h] = b]
      BY <2>2 DEF LogTyped
    <3> QED
      BY <3>1, <3>2, Zenon
  <2>5. CASE d \in {b, <<>>}
    <3>1. Once(d) /\ Marks(d) \subseteq Marks(b)
      BY <1>a, <2>3, <2>5
    <3>2. \A g \in Handles : Once(buf'[g]) /\ Marks(buf'[g]) \subseteq Marks(buf[g])
      BY <1>0, <2>2, <2>4, <3>1 DEF LogTyped
    <3> QED
      BY <1>0, <2>7, <3>2, Less
  <2>6. CASE Len(b) > 3 /\ d = SubSeq(b, 1, Len(b) - 3)
    <3>1. PICK m \in Nat : m = Len(b) - 3
      BY <2>3, <2>6
    <3>2. 1 \in Nat \ {0} /\ m \in Nat /\ m <= Len(b) /\ d = SubSeq(b, 1, m)
      BY <2>3, <2>6, <3>1
    <3>3. Once(d) /\ Marks(d) \subseteq Marks(b)
      BY <2>3, <3>2, PartMarks
    <3>4. \A g \in Handles : Once(buf'[g]) /\ Marks(buf'[g]) \subseteq Marks(buf[g])
      BY <1>0, <2>2, <2>4, <3>3 DEF LogTyped
    <3> QED
      BY <1>0, <2>7, <3>4, Less
  <2> QED
    BY <2>4, <2>5, <2>6
<1>7. ASSUME NEW h \in Handles, Flush(h) \/ Close(h) PROVE WrittenOnce'
  <2>1. file' = file \o buf[h] /\ buf' = [buf EXCEPT ![h] = <<>>] /\ emits' = emits
    BY <1>7 DEF Flush, Close, Gone
  <2>2. PICK b : b = buf[h]
    OBVIOUS
  <2>3. b \in Seq(Token) /\ Once(b) /\ file' = file \o b
    BY <1>0, <2>1, <2>2
  <2> QED
    BY <1>a, <2>1, <2>2, <2>3, Moves
<1>8. ASSUME PowerLoss PROVE WrittenOnce'
  <2>1. PICK n \in synced .. Len(file) : file' = SubSeq(file, 1, n)
    BY <1>8 DEF PowerLoss
  <2>2. 1 \in Nat \ {0} /\ n \in Nat /\ n <= Len(file)
    BY <1>0, <2>1
  <2>3. Once(file') /\ Marks(file') \subseteq Marks(file)
    BY <1>0, <2>1, <2>2, PartMarks
  <2>4. emits' = emits /\ \A h \in Handles : buf'[h] = <<>>
    BY <1>8 DEF PowerLoss
  <2> QED
    BY <1>0, <1>a, <2>3, <2>4, Less
<1>9. ASSUME NEW h \in Handles,
             OpenRead(h) \/ OpenReplay(h) \/ EmitEnd(h) \/ Crash(h) PROVE WrittenOnce'
  <2>1. /\ UNCHANGED <<file, emits>>
        /\ UNCHANGED buf \/ Gone(h)
    BY <1>9 DEF OpenRead, OpenReplay, EmitEnd, Crash
  <2> QED
    BY <1>1, <1>2, <2>1
<1>10. CASE UNCHANGED vars
  BY <1>1, <1>10 DEF vars, handleVars
<1> QED
  BY <1>3, <1>4, <1>5, <1>6, <1>7, <1>8, <1>9, <1>10 DEF Next

LEMMA CountStep == LogTyped /\ WrittenOnce /\ CountInv /\ [Next]_vars => CountInv'
<1> SUFFICES ASSUME LogTyped, WrittenOnce, CountInv, [Next]_vars PROVE CountInv'
  OBVIOUS
<1>0. /\ file \in Seq(Token) /\ emits \in Nat /\ DOMAIN state = Handles
      /\ mode \in [Handles -> {"closed", "cutting", "repaired", "idle", "emitting"}]
      /\ damage \subseteq Damage
  BY MaxEmitsAssumption DEF LogTyped, CountInv
<1> DEFINE Sound(h) == /\ CountsTo(state[h], emits)
                       /\ mode[h] = "emitting" => CountsTo(state[h], emits - 1)
<1>1. \A h \in Handles : CountsTo(NewState, emits)
  BY <1>0 DEF CountsTo, NewState, Fields
<1>2. ASSUME NEW h \in Handles, UNCHANGED emits, damage' \subseteq Damage,
             \A g \in Handles : g # h => state'[g] = state[g] /\ mode'[g] = mode[g],
             CountsTo(state'[h], emits), mode'[h] = "emitting" => CountsTo(state'[h], emits - 1)
      PROVE  CountInv'
  <2>1. \A g \in Handles : CountsTo(state'[g], emits')
    BY <1>2 DEF CountInv
  <2>2. \A g \in Handles : mode'[g] = "emitting" => CountsTo(state'[g], emits' - 1)
    BY <1>2 DEF CountInv
  <2> QED
    BY <1>2, <2>1, <2>2 DEF CountInv, CountsTo
<1>3. ASSUME NEW h \in Handles, UNCHANGED <<emits, damage>>, Gone(h) PROVE CountInv'
  <2>1. state'[h] = NewState /\ mode'[h] = "closed"
    BY <1>0, <1>3 DEF Gone
  <2>2. \A g \in Handles : g # h => state'[g] = state[g] /\ mode'[g] = mode[g]
    BY <1>0, <1>3 DEF Gone
  <2> QED
    BY <1>0, <1>1, <1>2, <1>3, <2>1, <2>2
<1>4. ASSUME NEW h \in Handles, NEW m \in {"closed", "cutting", "repaired", "idle"},
             UNCHANGED <<emits, state>>, damage' \subseteq Damage,
             mode' = [mode EXCEPT ![h] = m] \/ mode' = mode
      PROVE  CountInv'
  <2>1. CountsTo(state'[h], emits) /\ (mode'[h] = "emitting" => CountsTo(state'[h], emits - 1))
    BY <1>0, <1>4 DEF CountInv
  <2>2. \A g \in Handles : g # h => state'[g] = state[g] /\ mode'[g] = mode[g]
    BY <1>0, <1>4
  <2> QED
    BY <1>2, <1>4, <2>1, <2>2
<1>5. ASSUME NEW h \in Handles, OpenReplay(h) PROVE CountInv'
  <2>1. UNCHANGED emits
    BY <1>5 DEF OpenReplay
  <2>2. CASE Gone(h) /\ UNCHANGED damage
    BY <1>3, <2>1, <2>2
  <2>3. CASE ~(Gone(h) /\ UNCHANGED damage)
    <3>1. PICK s : s = Replay(file).state
      OBVIOUS
    <3>2. /\ mode' = [mode EXCEPT ![h] = "idle"] /\ state' = [state EXCEPT ![h] = s]
          /\ damage' \in {damage, damage \cup {"torn"}}
      BY <1>5, <2>3, <3>1 DEF OpenReplay
    <3>3. Once(file) /\ Marks(file) \subseteq 1 .. emits
      BY DEF WrittenOnce
    <3>4. CountsTo(s, emits)
      BY <1>0, <3>1, <3>3, ReplayCounts
    <3>5. damage' \subseteq Damage
      BY <1>0, <3>2 DEF Damage
    <3>6. state'[h] = s /\ mode'[h] = "idle"
          /\ \A g \in Handles : g # h => state'[g] = state[g] /\ mode'[g] = mode[g]
      BY <1>0, <3>2
    <3> QED
      BY <1>2, <2>1, <3>4, <3>5, <3>6
  <2> QED
    BY <2>2, <2>3
<1>6. ASSUME NEW h \in Handles, NEW k \in Kinds, EmitBegin(h, k) PROVE CountInv'
  <2>1. /\ emits' = emits + 1 /\ state' = state
        /\ damage' \in {damage, damage \cup {"apply"}}
    BY <1>6 DEF EmitBegin
  <2>2. \A g \in Handles : CountsTo(state'[g], emits') /\ CountsTo(state'[g], emits' - 1)
    BY <1>0, <2>1 DEF CountInv, CountsTo
  <2>3. damage' \subseteq Damage
    BY <1>0, <2>1 DEF Damage
  <2> QED
    BY <2>2, <2>3 DEF CountInv, CountsTo
<1>7. ASSUME NEW h \in Handles, EmitEnd(h) PROVE CountInv'
  <2>1. mode[h] = "emitting" /\ UNCHANGED <<emits, damage>>
        /\ mode' = [mode EXCEPT ![h] = "idle"]
    BY <1>7 DEF EmitEnd
  <2>2. CASE state' = state
    BY <1>0, <1>4, <2>1, <2>2
  <2>3. CASE state' # state
    <3>1. PICK s : s = state[h]
      OBVIOUS
    <3>2. PICK e \in Event : e = event[h]
      BY <2>1 DEF LogTyped
    <3>3. state' = [state EXCEPT ![h] = Applied(s, e)]
      BY <1>7, <2>3, <3>1, <3>2 DEF EmitEnd
    <3>4. CountsTo(s, emits - 1) /\ s.count \in 0 .. emits - 1
      BY <2>1, <3>1 DEF CountInv, CountsTo
    <3>5. PICK m \in Nat : m = emits - 1
      BY <1>0, <3>4
    <3>6. DOMAIN Applied(s, e) = Fields /\ Applied(s, e).count = s.count + 1
      BY <3>4, <3>5, AppliedCounts
    <3>7. CountsTo(Applied(s, e), emits)
      BY <1>0, <3>4, <3>6 DEF CountsTo
    <3>8. state'[h] = Applied(s, e) /\ mode'[h] = "idle"
          /\ \A g \in Handles : g # h => state'[g] = state[g] /\ mode'[g] = mode[g]
      BY <1>0, <2>1, <3>3
    <3> QED
      BY <1>0, <1>2, <2>1, <3>7, <3>8
  <2> QED
    BY <2>2, <2>3
<1>8. ASSUME NEW h \in Handles, AppendFails(h) PROVE CountInv'
  <2>1. damage' \subseteq Damage
    BY <1>0, <1>8 DEF AppendFails, Damage
  <2> QED
    BY <1>4, <1>8, <2>1 DEF AppendFails
<1>9. ASSUME NEW h \in Handles, Close(h) \/ Crash(h) PROVE CountInv'
  BY <1>3, <1>9 DEF Close, Crash, history
<1>10. ASSUME NEW h \in Handles, OpenRead(h) \/ OpenCut(h) \/ Write(h) \/ Flush(h)
       PROVE  CountInv'
  <2>1. UNCHANGED <<emits, state, damage>>
    BY <1>10 DEF OpenRead, OpenCut, Write, Flush, history
  <2>2. PICK m \in {"closed", "cutting", "repaired", "idle"} :
          mode' = [mode EXCEPT ![h] = m] \/ mode' = mode
    BY <1>10 DEF OpenRead, OpenCut, Write, Flush
  <2> QED
    BY <1>0, <1>4, <2>1, <2>2
<1>11. ASSUME PowerLoss PROVE CountInv'
  <2>1. /\ emits' = emits /\ damage' = damage
        /\ \A h \in Handles : state'[h] = NewState /\ mode'[h] = "closed"
    BY <1>11 DEF PowerLoss
  <2>2. \A h \in Handles : CountsTo(state'[h], emits')
    BY <1>1, <2>1
  <2> QED
    BY <1>0, <2>1, <2>2 DEF CountInv, CountsTo
<1>12. CASE UNCHANGED vars
  BY <1>12 DEF vars, handleVars, history, CountInv, CountsTo
<1> QED
  BY <1>5, <1>6, <1>7, <1>8, <1>9, <1>10, <1>11, <1>12 DEF Next

\* However many handles are open on a log, and whatever fails, tokens stay
\* tokens and no handle has counted more events than were emitted: none is
\* written twice.  (orchestrator.rs: open, emit; state.rs: apply.)
THEOREM LogIsTyped == Spec => []TypeOK
<1>1. Init => LogTyped /\ WrittenOnce /\ CountInv
  <2> SUFFICES ASSUME Init PROVE WrittenOnce /\ CountInv
    BY InitHealthy DEF LogInv
  <2>1. /\ file = <<>> /\ emits = 0 /\ damage = {}
        /\ \A h \in Handles : buf[h] = <<>> /\ state[h] = NewState /\ mode[h] = "closed"
    BY DEF Init
  <2>2. Once(<<>>) /\ Marks(<<>>) = {}
    BY DEF Once, Marks, Heads
  <2>3. CountsTo(NewState, 0)
    BY DEF CountsTo, NewState, Fields
  <2>4. WrittenOnce
    BY <2>1, <2>2 DEF WrittenOnce
  <2>5. CountInv
    BY <2>1, <2>3 DEF CountInv
  <2> QED
    BY <2>4, <2>5
<1>2. LogTyped /\ WrittenOnce /\ CountInv /\ [Next]_vars
        => (LogTyped /\ WrittenOnce /\ CountInv)'
  BY TypedStep, OnceStep, CountStep
<1>3. LogTyped /\ WrittenOnce /\ CountInv => TypeOK
  <2> SUFFICES ASSUME LogTyped, CountInv PROVE TypeOK
    OBVIOUS
  <2>1. \A h \in Handles : state[h].count \in 0 .. MaxEmits
    BY MaxEmitsAssumption DEF LogTyped, CountInv, CountsTo
  <2> QED
    BY <2>1 DEF LogTyped, CountInv, TypeOK
<1> QED
  BY <1>1, <1>2, <1>3, PTL DEF Spec

-----------------------------------------------------------------------------
(* The calendar: later instants have greater texts *)

\* One century of an era: day e of century b, whose years are counted by z.
LEMMA CenturyBounds ==
  ASSUME NEW e \in Int, NEW g \in Int, NEW b \in Int, NEW z \in Int,
         e >= 0, e <= 36523, b >= 0, b <= 3,
         1460 * g <= e + 24 * b, e + 24 * b < 1460 * g + 1460,
         365 * z <= e - g, e - g < 365 * z + 365
  PROVE  g >= 0 /\ g <= 25 /\ z >= 0 /\ z <= 99
<1>1. g >= 0 /\ g <= 25
  OBVIOUS
<1>2. z <= 99
  OBVIOUS
<1>3. e - g >= 0
  OBVIOUS
<1> QED
  BY <1>1, <1>2, <1>3

LEMMA CenturyYears ==
  ASSUME NEW e \in Int, NEW g \in Int, NEW b \in Int, NEW z \in Int, NEW q \in Int, NEW r \in Int,
         e >= 0, e <= 36523, b >= 0, b <= 3,
         1460 * g <= e + 24 * b, e + 24 * b < 1460 * g + 1460,
         365 * z <= e - g, e - g < 365 * z + 365,
         z = 4 * q + r, r >= 0, r <= 3, q >= 0, q <= 24
  PROVE  /\ 365 * z + q <= e
         /\ r < 3 => e < 365 * z + 365 + q
         /\ r = 3 => e < 365 * z + 365 + q + 1
<1>1. g >= q
  OBVIOUS
<1>2. r < 3 => g <= q
  OBVIOUS
<1>3. r = 3 => g <= q + 1
  OBVIOUS
<1> QED
  BY <1>1, <1>2, <1>3

YearStart(y) == 365 * y + y \div 4 - y \div 100

\* What YearStart is in the century b.
LEMMA YearStartInCentury ==
  ASSUME NEW y \in Int, NEW b \in Int, NEW z \in Int, NEW q \in Int, NEW r \in Int,
         y = 100 * b + z, z = 4 * q + r, r >= 0, r <= 3, z >= 0, z <= 99
  PROVE  YearStart(y) = 36524 * b + 365 * z + q
<1>1. y \div 4 = 25 * b + q
  OBVIOUS
<1>2. y \div 100 = b
  OBVIOUS
<1> QED
  BY <1>1, <1>2 DEF YearStart

LEMMA NextYearStart ==
  ASSUME NEW x \in Int, NEW y \in Int, NEW b \in Int, NEW z \in Int, NEW q \in Int, NEW r \in Int,
         x = y + 1,
         y = 100 * b + z, z = 4 * q + r, r >= 0, r <= 3, z >= 0, z <= 99, q <= 24
  PROVE  /\ r = 3 /\ z < 99 => YearStart(x) = 36524 * b + 365 * z + 366 + q
         /\ r < 3 \/ z = 99 => YearStart(x) = 36524 * b + 365 * z + 365 + q
<1>1. CASE r < 3
  <2>1. x \div 4 = 25 * b + q
    BY <1>1
  <2>2. z < 99
    BY <1>1
  <2>3. x \div 100 = b
    BY <2>2
  <2> QED
    BY <1>1, <2>1, <2>2, <2>3 DEF YearStart
<1>2. CASE r = 3 /\ z < 99
  <2>1. x \div 4 = 25 * b + q + 1
    BY <1>2
  <2>2. x \div 100 = b
    BY <1>2
  <2> QED
    BY <1>2, <2>1, <2>2 DEF YearStart
<1>3. CASE r = 3 /\ z = 99
  <2>1. x = 100 * (b + 1) /\ q = 24
    BY <1>3
  <2>2. x \div 4 = 25 * b + 25
    BY <2>1
  <2>3. x \div 100 = b + 1
    BY <2>1
  <2>4. YearStart(x) = 36524 * b + 36524
    BY <2>1, <2>2, <2>3 DEF YearStart
  <2> QED
    BY <1>3, <2>1, <2>4
<1> QED
  BY <1>1, <1>2, <1>3

YearOfEra(doe) == (doe - doe \div 1460 + doe \div 36524 - doe \div 146096) \div 365

\* The year of an era is the one the day is in.
LEMMA YearsOfEra ==
  ASSUME NEW doe \in Int, doe >= 0, doe <= 146096
  PROVE  /\ YearOfEra(doe) \in Int /\ YearOfEra(doe) >= 0 /\ YearOfEra(doe) <= 399
         /\ YearStart(YearOfEra(doe)) <= doe
         /\ \A x \in Int : x = YearOfEra(doe) + 1 /\ x <= 399 => doe < YearStart(x)
         /\ doe - YearStart(YearOfEra(doe)) <= 365
<1>1. CASE doe = 146096
  <2>1. YearOfEra(doe) = 399
    BY <1>1 DEF YearOfEra
  <2>2. YearStart(399) = 145731
    BY DEF YearStart
  <2> QED
    BY <1>1, <2>1, <2>2
<1>2. CASE doe < 146096
  <2>21. PICK a \in Int : a = doe \div 1460
    OBVIOUS
  <2>22. 1460 * a <= doe /\ doe < 1460 * a + 1460
    BY <2>21
  <2>23. PICK b \in Int : b = doe \div 36524
    OBVIOUS
  <2>24. 36524 * b <= doe /\ doe < 36524 * b + 36524
    BY <2>23
  <2>25. b >= 0 /\ b <= 3
    BY <1>2, <2>24
  <2>26. doe \div 146096 = 0
    BY <1>2
  <2>27. PICK y \in Int : y = YearOfEra(doe)
    BY DEF YearOfEra
  <2>28. y = (doe - a + b) \div 365
    BY <2>21, <2>23, <2>26, <2>27 DEF YearOfEra
  <2>29. 365 * y <= doe - a + b /\ doe - a + b < 365 * y + 365
    BY <2>28
  <2>30. PICK e \in Int : e = doe - 36524 * b
    OBVIOUS
  <2>31. PICK g \in Int : g = a - 25 * b
    OBVIOUS
  <2>32. PICK z \in Int : z = y - 100 * b
    OBVIOUS
  <2>33. doe = 36524 * b + e /\ e >= 0 /\ e <= 36523
    BY <2>24, <2>30
  <2>34. 1460 * g <= e + 24 * b /\ e + 24 * b < 1460 * g + 1460
    BY <2>22, <2>30, <2>31
  <2>35. 365 * z <= e - g /\ e - g < 365 * z + 365
    BY <2>29, <2>30, <2>31, <2>32
  <2>36. z >= 0 /\ z <= 99
    BY <2>25, <2>33, <2>34, <2>35, CenturyBounds
  <2>37. PICK q \in Int : q = z \div 4
    OBVIOUS
  <2>38. PICK r \in Int : r = z - 4 * q
    OBVIOUS
  <2>39. z = 4 * q + r /\ r >= 0 /\ r <= 3 /\ q >= 0 /\ q <= 24
    BY <2>36, <2>37, <2>38
  <2>3. y = 100 * b + z /\ y >= 0 /\ y <= 399
    BY <2>25, <2>32, <2>36
  <2>9. /\ y = 100 * b + z /\ z = 4 * q + r /\ r >= 0 /\ r <= 3 /\ z >= 0 /\ z <= 99 /\ q <= 24
        /\ q >= 0
    BY <2>3, <2>36, <2>39
  <2>10. /\ e >= 0 /\ e <= 36523 /\ b >= 0 /\ b <= 3
         /\ 1460 * g <= e + 24 * b /\ e + 24 * b < 1460 * g + 1460
         /\ 365 * z <= e - g /\ e - g < 365 * z + 365 /\ doe = 36524 * b + e
    BY <2>25, <2>33, <2>34, <2>35
  <2>4. YearStart(y) = 36524 * b + 365 * z + q
    BY <2>9, YearStartInCentury
  <2>6. /\ 365 * z + q <= e
        /\ r < 3 => e < 365 * z + 365 + q
        /\ r = 3 => e < 365 * z + 365 + q + 1
    BY <2>9, <2>10, CenturyYears
  <2>7. YearStart(y) <= doe /\ doe - YearStart(y) <= 365
    BY <2>9, <2>10, <2>4, <2>6
  <2>8. ASSUME NEW x \in Int, x = y + 1, x <= 399 PROVE doe < YearStart(x)
    <3>4. x = y + 1
      BY <2>8
    <3>5. /\ r = 3 /\ z < 99 => YearStart(x) = 36524 * b + 365 * z + 366 + q
          /\ r < 3 \/ z = 99 => YearStart(x) = 36524 * b + 365 * z + 365 + q
      BY <2>9, <3>4, NextYearStart
    <3>1. CASE r = 3 /\ z < 99
      <4>1. YearStart(x) = 36524 * b + 365 * z + 366 + q
        BY <3>5, <3>1
      <4>2. e < 365 * z + 366 + q
        BY <2>6, <3>1
      <4> QED
        BY <2>10, <4>1, <4>2
    <3>2. CASE r < 3
      <4>1. YearStart(x) = 36524 * b + 365 * z + 365 + q
        BY <3>5, <3>2
      <4>2. e < 365 * z + 365 + q
        BY <2>6, <3>2
      <4> QED
        BY <2>10, <4>1, <4>2
    <3>3. CASE z = 99
      <4>1. q = 24
        BY <2>9, <3>3
      <4>2. YearStart(x) = 36524 * b + 36524
        BY <3>5, <3>3, <4>1
      <4> QED
        BY <2>10, <4>2
    <3> QED
      BY <2>9, <3>1, <3>2, <3>3
  <2> QED
    BY <2>27, <2>3, <2>7, <2>8
<1> QED
  BY <1>1, <1>2
LEMMA YearStartType == ASSUME NEW y \in Int PROVE YearStart(y) \in Int
BY DEF YearStart

LEMMA YearStartsGrow ==
  ASSUME NEW x \in Int, NEW y \in Int, x <= y PROVE YearStart(x) <= YearStart(y)
<1>1. PICK p \in Int : p = x \div 4
  OBVIOUS
<1>2. PICK q \in Int : q = y \div 4
  OBVIOUS
<1>3. PICK r \in Int : r = x \div 100
  OBVIOUS
<1>4. PICK s \in Int : s = y \div 100
  OBVIOUS
<1>5. 4 * p <= x /\ x < 4 * p + 4 /\ 4 * q <= y /\ y < 4 * q + 4
  BY <1>1, <1>2
<1>6. 100 * r <= x /\ x < 100 * r + 100 /\ 100 * s <= y /\ y < 100 * s + 100
  BY <1>3, <1>4
<1>7. p <= q
  BY <1>5
<1>8. s - r <= y - x
  BY <1>6
<1>9. 365 * x + p - r <= 365 * y + q - s
  BY <1>7, <1>8
<1>10. YearStart(x) = 365 * x + p - r
  BY <1>1, <1>3 DEF YearStart
<1>11. YearStart(y) = 365 * y + q - s
  BY <1>2, <1>4 DEF YearStart
<1> QED
  BY <1>9, <1>10, <1>11

\* The first day of a month, counted from March, in the year that begins then.
MonthStart(mp) == (153 * mp + 2) \div 5

LEMMA MonthsOfYear ==
  ASSUME NEW doy \in Int, doy >= 0, doy <= 365, NEW mp \in Int, mp = (5 * doy + 2) \div 153
  PROVE  /\ mp >= 0 /\ mp <= 11
         /\ MonthStart(mp) \in Int /\ MonthStart(mp) <= doy
         /\ \A x \in Int : x > mp => MonthStart(x) \in Int /\ doy < MonthStart(x)
<1>1. 153 * mp <= 5 * doy + 2 /\ 5 * doy + 2 < 153 * mp + 153
  OBVIOUS
<1>2. mp >= 0 /\ mp <= 11
  BY <1>1
<1>3. PICK s \in Int : s = (153 * mp + 2) \div 5
  OBVIOUS
<1>4. 5 * s <= 153 * mp + 2
  BY <1>3
<1>5. s <= doy
  BY <1>1, <1>4
<1>6. ASSUME NEW x \in Int, x > mp PROVE MonthStart(x) \in Int /\ doy < MonthStart(x)
  <2>1. PICK t \in Int : t = (153 * x + 2) \div 5
    OBVIOUS
  <2>2. 153 * x + 2 < 5 * t + 5
    BY <2>1
  <2>3. doy < t
    BY <1>1, <1>6, <2>2
  <2> QED
    BY <2>1, <2>3 DEF MonthStart
<1> QED
  BY <1>2, <1>3, <1>5, <1>6 DEF MonthStart

EraOf(day) == (day + 719468) \div 146097
DayOfEra(day) == day + 719468 - EraOf(day) * 146097
YearIn(day) == YearOfEra(DayOfEra(day))
DayOfYear(day) == DayOfEra(day) - YearStart(YearIn(day))
MonthIn(day) == (5 * DayOfYear(day) + 2) \div 153
CivilMonth(mp) == IF mp < 10 THEN mp + 3 ELSE mp - 9
CivilYear(y, mp) == y + (IF CivilMonth(mp) <= 2 THEN 1 ELSE 0)

LEMMA YmdParts ==
  ASSUME NEW day \in Nat
  PROVE  Ymd(day) = <<CivilYear(YearIn(day) + EraOf(day) * 400, MonthIn(day)),
                      CivilMonth(MonthIn(day)),
                      DayOfYear(day) - MonthStart(MonthIn(day)) + 1>>
BY DEF Ymd, EraOf, DayOfEra, YearIn, YearOfEra, DayOfYear, YearStart, MonthIn, MonthStart, CivilMonth, CivilYear

\* What a day's date is made of, and where the day is between the beginnings of
\* its year and month and the next ones.
LEMMA DayPlaced ==
  ASSUME NEW day \in Nat
  PROVE  /\ EraOf(day) \in Int /\ DayOfEra(day) \in Int /\ YearIn(day) \in Int
         /\ DayOfYear(day) \in Int /\ MonthIn(day) \in Int
         /\ day + 719468 = EraOf(day) * 146097 + DayOfEra(day)
         /\ DayOfEra(day) >= 0 /\ DayOfEra(day) <= 146096
         /\ YearIn(day) >= 0 /\ YearIn(day) <= 399
         /\ YearStart(YearIn(day)) \in Int
         /\ DayOfEra(day) = YearStart(YearIn(day)) + DayOfYear(day)
         /\ DayOfYear(day) >= 0 /\ DayOfYear(day) <= 365
         /\ \A x \in Int : x = YearIn(day) + 1 /\ x <= 399 => DayOfEra(day) < YearStart(x)
<1>1. EraOf(day) \in Int /\ DayOfEra(day) \in Int
      /\ day + 719468 = EraOf(day) * 146097 + DayOfEra(day)
      /\ DayOfEra(day) >= 0 /\ DayOfEra(day) <= 146096
  <2>1. PICK n \in Int : n = day + 719468
    OBVIOUS
  <2>2. PICK era \in Int : era = n \div 146097
    BY <2>1
  <2>3. 146097 * era <= n /\ n < 146097 * era + 146097
    BY <2>2
  <2>4. era = EraOf(day)
    BY <2>1, <2>2 DEF EraOf
  <2>5. DayOfEra(day) = n - era * 146097
    BY <2>1, <2>4 DEF DayOfEra
  <2> QED
    BY <2>1, <2>3, <2>4, <2>5
<1>2. PICK doe \in Int : doe = DayOfEra(day)
  BY <1>1
<1>3. doe >= 0 /\ doe <= 146096
  BY <1>1, <1>2
<1>4. /\ YearOfEra(doe) \in Int /\ YearOfEra(doe) >= 0 /\ YearOfEra(doe) <= 399
      /\ YearStart(YearOfEra(doe)) <= doe
      /\ \A x \in Int : x = YearOfEra(doe) + 1 /\ x <= 399 => doe < YearStart(x)
      /\ doe - YearStart(YearOfEra(doe)) <= 365
  BY <1>3, YearsOfEra
<1>5. PICK y \in Int : y = YearOfEra(doe)
  BY <1>4
<1>6. YearIn(day) = y
  BY <1>2, <1>5 DEF YearIn
<1>7. PICK s \in Int : s = YearStart(y)
  BY YearStartType
<1>8. DayOfYear(day) = doe - s
  BY <1>2, <1>6, <1>7 DEF DayOfYear
<1>9. s <= doe /\ doe - s <= 365 /\ y >= 0 /\ y <= 399
  BY <1>4, <1>5, <1>7
<1>10. PICK r \in Int : r = doe - s
  OBVIOUS
<1>11. DayOfYear(day) = r
  BY <1>8, <1>10
<1>12. MonthIn(day) \in Int
  BY <1>11 DEF MonthIn
<1>13. \A x \in Int : x = y + 1 /\ x <= 399 => doe < YearStart(x)
  BY <1>4, <1>5
<1> QED
  BY <1>1, <1>2, <1>6, <1>7, <1>9, <1>10, <1>11, <1>12, <1>13

\* Years of the same era follow each other as their days do.
LEMMA LaterYear ==
  ASSUME NEW o \in Int, NEW p \in Int, NEW y \in Int, NEW z \in Int,
         o < p, YearStart(y) <= o, y <= 399, z <= 399,
         \A x \in Int : x = z + 1 /\ x <= 399 => p < YearStart(x)
  PROVE  y <= z
<1> SUFFICES ASSUME z < y PROVE FALSE
  OBVIOUS
<1>1. PICK x \in Int : x = z + 1
  OBVIOUS
<1>2. x <= y /\ x <= 399
  BY <1>1
<1>3. YearStart(x) \in Int /\ YearStart(y) \in Int
  BY YearStartType
<1>4. YearStart(x) <= YearStart(y)
  BY <1>2, YearStartsGrow
<1>5. p < YearStart(x)
  BY <1>1, <1>2
<1> QED
  BY <1>3, <1>4, <1>5

\* Months of the same year follow each other as their days do, and in a month the
\* days are counted.
LEMMA LaterMonth ==
  ASSUME NEW r \in Int, NEW s \in Int, r >= 0, s <= 365, r < s,
         NEW m \in Int, m = (5 * r + 2) \div 153, NEW n \in Int, n = (5 * s + 2) \div 153
  PROVE  m <= n
<1>1. 153 * m <= 5 * r + 2 /\ 5 * s + 2 < 153 * n + 153
  OBVIOUS
<1> QED
  BY <1>1

\* The order of dates, year first.
DateBefore(d, e) ==
  \/ d[1] < e[1]
  \/ d[1] = e[1] /\ d[2] < e[2]
  \/ d[1] = e[1] /\ d[2] = e[2] /\ d[3] < e[3]

\* The year that begins in January and its month, from the one that begins in
\* March and its month.
LEMMA CivilOrder ==
  ASSUME NEW y \in Int, NEW m \in Int, NEW z \in Int, NEW n \in Int,
         m >= 0, m <= 11, n >= 0, n <= 11, y < z \/ (y = z /\ m < n)
  PROVE  \/ CivilYear(y, m) < CivilYear(z, n)
         \/ CivilYear(y, m) = CivilYear(z, n) /\ CivilMonth(m) < CivilMonth(n)
BY DEF CivilYear, CivilMonth

LEMMA CivilNumbers ==
  ASSUME NEW y \in Int, NEW m \in Int
  PROVE  CivilYear(y, m) \in Int /\ CivilMonth(m) \in Int
BY DEF CivilYear, CivilMonth

\* A later day has a later date.
LEMMA LaterDay ==
  ASSUME NEW a \in Nat, NEW b \in Nat, a < b PROVE DateBefore(Ymd(a), Ymd(b))
<1>1. PICK o \in Int : o = DayOfEra(a)
  BY DayPlaced
<1>2. PICK p \in Int : p = DayOfEra(b)
  BY DayPlaced
<1>3. PICK y \in Int : y = YearIn(a)
  BY DayPlaced
<1>4. PICK z \in Int : z = YearIn(b)
  BY DayPlaced
<1>5. PICK r \in Int : r = DayOfYear(a)
  BY DayPlaced
<1>6. PICK s \in Int : s = DayOfYear(b)
  BY DayPlaced
<1>7. PICK m \in Int : m = MonthIn(a)
  BY DayPlaced
<1>8. PICK n \in Int : n = MonthIn(b)
  BY DayPlaced
<1>9. PICK e \in Int : e = EraOf(a)
  BY DayPlaced
<1>10. PICK f \in Int : f = EraOf(b)
  BY DayPlaced
<1>11. /\ a + 719468 = e * 146097 + o /\ o >= 0 /\ o <= 146096
       /\ y >= 0 /\ y <= 399 /\ YearStart(y) \in Int /\ o = YearStart(y) + r /\ r >= 0 /\ r <= 365
  BY <1>1, <1>3, <1>5, <1>9, DayPlaced
<1>12. /\ b + 719468 = f * 146097 + p /\ p >= 0 /\ p <= 146096
       /\ z >= 0 /\ z <= 399 /\ YearStart(z) \in Int /\ p = YearStart(z) + s /\ s >= 0 /\ s <= 365
       /\ \A x \in Int : x = z + 1 /\ x <= 399 => p < YearStart(x)
  BY <1>2, <1>4, <1>6, <1>10, DayPlaced
<1>13. m = (5 * r + 2) \div 153 /\ n = (5 * s + 2) \div 153
  BY <1>5, <1>6, <1>7, <1>8 DEF MonthIn
<1>14. /\ m >= 0 /\ m <= 11 /\ MonthStart(m) \in Int
       /\ n >= 0 /\ n <= 11 /\ MonthStart(n) \in Int
  BY <1>11, <1>12, <1>13, MonthsOfYear
<1>15. e <= f
  BY <1>11, <1>12
<1>16. e = f => y <= z
  <2> SUFFICES ASSUME e = f PROVE y <= z
    OBVIOUS
  <2>1. o < p
    BY <1>11, <1>12
  <2>2. YearStart(y) <= o
    BY <1>11
  <2> QED
    BY <2>1, <2>2, <1>11, <1>12, LaterYear
<1>17. e = f /\ y = z => r < s
  BY <1>11, <1>12
<1>18. r < s => m <= n
  BY <1>11, <1>12, <1>13, LaterMonth
<1> DEFINE u == y + e * 400
           v == z + f * 400
<1>19. Ymd(a) = <<CivilYear(u, m), CivilMonth(m), r - MonthStart(m) + 1>>
  BY <1>3, <1>5, <1>7, <1>9, YmdParts
<1>20. Ymd(b) = <<CivilYear(v, n), CivilMonth(n), s - MonthStart(n) + 1>>
  BY <1>4, <1>6, <1>8, <1>10, YmdParts
<1>21. u \in Int /\ v \in Int
  OBVIOUS
<1>22. u < v \/ (u = v /\ e = f /\ y = z)
  BY <1>11, <1>12, <1>15, <1>16
<1> HIDE DEF u, v
<1>23. CASE u < v \/ (u = v /\ m < n)
  <2>1. \/ CivilYear(u, m) < CivilYear(v, n)
        \/ CivilYear(u, m) = CivilYear(v, n) /\ CivilMonth(m) < CivilMonth(n)
    BY <1>14, <1>21, <1>23, CivilOrder
  <2> QED
    BY <1>19, <1>20, <2>1 DEF DateBefore
<1>24. CASE u = v /\ r < s /\ m = n
  <2>1. r - MonthStart(m) + 1 < s - MonthStart(n) + 1
    BY <1>14, <1>24
  <2>2. CivilYear(u, m) = CivilYear(v, n) /\ CivilMonth(m) = CivilMonth(n)
    BY <1>24
  <2> QED
    BY <1>19, <1>20, <2>1, <2>2 DEF DateBefore
<1> QED
  BY <1>17, <1>18, <1>22, <1>23, <1>24

LEMMA YmdNumbers ==
  ASSUME NEW day \in Nat PROVE Ymd(day) \in Seq(Int) /\ Len(Ymd(day)) = 3
<1>1. PICK m \in Int : m = MonthIn(day)
  BY DayPlaced
<1>2. PICK r \in Int : r = DayOfYear(day)
  BY DayPlaced
<1>3. PICK y \in Int : y = YearIn(day) + EraOf(day) * 400
  BY DayPlaced
<1>4. PICK s \in Int : s = MonthStart(m)
  BY DEF MonthStart
<1>5. Ymd(day) = <<CivilYear(y, m), CivilMonth(m), r - s + 1>>
  BY <1>1, <1>2, <1>3, <1>4, YmdParts
<1>6. CivilYear(y, m) \in Int /\ CivilMonth(m) \in Int
  BY CivilNumbers
<1> QED
  BY <1>5, <1>6

\* A later second of the same day has a later time.
LEMMA LaterTime ==
  ASSUME NEW t \in Int, NEW u \in Int, 0 <= t, t < u, u < 86400
  PROVE  DateBefore(<<t \div 3600, (t % 3600) \div 60, t % 60>>,
                    <<u \div 3600, (u % 3600) \div 60, u % 60>>)
<1>1. PICK h \in Int : h = t \div 3600
  OBVIOUS
<1>2. PICK i \in Int : i = u \div 3600
  OBVIOUS
<1>3. PICK r \in Int : r = t % 3600
  OBVIOUS
<1>4. PICK s \in Int : s = u % 3600
  OBVIOUS
<1>5. t = 3600 * h + r /\ r >= 0 /\ r < 3600
  BY <1>1, <1>3
<1>6. u = 3600 * i + s /\ s >= 0 /\ s < 3600
  BY <1>2, <1>4
<1>7. PICK m \in Int : m = r \div 60
  OBVIOUS
<1>8. PICK n \in Int : n = s \div 60
  OBVIOUS
<1>9. PICK x \in Int : x = t % 60
  OBVIOUS
<1>10. PICK y \in Int : y = u % 60
  OBVIOUS
<1>11. x = r - 60 * m
  <2>1. PICK q \in Int : q = t \div 60
    OBVIOUS
  <2>2. t = 60 * q + x /\ x >= 0 /\ x < 60
    BY <1>9, <2>1
  <2>3. 60 * m <= r /\ r < 60 * m + 60
    BY <1>7
  <2> QED
    BY <1>5, <2>2, <2>3
<1>12. y = s - 60 * n
  <2>1. PICK q \in Int : q = u \div 60
    OBVIOUS
  <2>2. u = 60 * q + y /\ y >= 0 /\ y < 60
    BY <1>10, <2>1
  <2>3. 60 * n <= s /\ s < 60 * n + 60
    BY <1>8
  <2> QED
    BY <1>6, <2>2, <2>3
<1>13. h < i \/ (h = i /\ r < s)
  BY <1>5, <1>6
<1>14. r < s => m <= n
  BY <1>7, <1>8
<1>15. r < s /\ m = n => x < y
  BY <1>11, <1>12
<1>16. DateBefore(<<h, m, x>>, <<i, n, y>>)
  BY <1>13, <1>14, <1>15 DEF DateBefore
<1> QED
  BY <1>1, <1>2, <1>3, <1>4, <1>7, <1>8, <1>9, <1>10, <1>16

\* Texts of a fixed width are ordered as their numbers.
LEMMA TextsOrdered ==
  ASSUME NEW p \in Seq(Int), NEW q \in Seq(Int), NEW v \in Seq(Int), NEW w \in Seq(Int),
         Len(p) = 3, Len(q) = 3, Len(v) = 3, Len(w) = 3,
         DateBefore(p, v) \/ (p = v /\ DateBefore(q, w))
  PROVE  Earlier(p \o q, v \o w)
<1>3. ASSUME NEW x \in Seq(Int), NEW y \in Seq(Int), Len(x) = 3, Len(y) = 3
      PROVE  /\ x \o y \in Seq(Int) /\ Len(x \o y) = 6
             /\ \A i \in 1 .. 6 : (x \o y)[i] = IF i <= 3 THEN x[i] ELSE y[i - 3]
  <2>1. /\ x \o y \in Seq(Int) /\ Len(x \o y) = Len(x) + Len(y)
        /\ \A i \in 1 .. Len(x) + Len(y) :
             (x \o y)[i] = IF i <= Len(x) THEN x[i] ELSE y[i - Len(x)]
    BY ConcatProperties
  <2>2. Len(x) = 3 /\ Len(y) = 3 /\ Len(x) + Len(y) = 6
    BY <1>3
  <2>3. Len(x \o y) = 6
    BY <2>1, <2>2, Zenon
  <2>4. \A i \in 1 .. 6 : (x \o y)[i] = IF i <= 3 THEN x[i] ELSE y[i - 3]
    BY <2>1, <2>2, Zenon
  <2> QED
    BY <2>1, <2>3, <2>4, Zenon
<1> DEFINE s == p \o q
           t == v \o w
<1>4. /\ s \in Seq(Int) /\ Len(s) = 6
      /\ \A i \in 1 .. 6 : s[i] = IF i <= 3 THEN p[i] ELSE q[i - 3]
  BY <1>3
<1>5. \A i \in 1 .. 6 : t[i] = IF i <= 3 THEN v[i] ELSE w[i - 3]
  BY <1>3
<1> HIDE DEF s, t
<1>1. DOMAIN s = 1 .. 6
  BY <1>4
<1>0. /\ s[1] = p[1] /\ s[2] = p[2] /\ s[3] = p[3] /\ s[4] = q[1] /\ s[5] = q[2] /\ s[6] = q[3]
      /\ t[1] = v[1] /\ t[2] = v[2] /\ t[3] = v[3] /\ t[4] = w[1] /\ t[5] = w[2] /\ t[6] = w[3]
  BY <1>4, <1>5
<1>2. \/ s[1] < t[1]
      \/ s[1] = t[1] /\ s[2] < t[2]
      \/ s[1] = t[1] /\ s[2] = t[2] /\ s[3] < t[3]
      \/ s[1] = t[1] /\ s[2] = t[2] /\ s[3] = t[3] /\ s[4] < t[4]
      \/ s[1] = t[1] /\ s[2] = t[2] /\ s[3] = t[3] /\ s[4] = t[4] /\ s[5] < t[5]
      \/ s[1] = t[1] /\ s[2] = t[2] /\ s[3] = t[3] /\ s[4] = t[4] /\ s[5] = t[5] /\ s[6] < t[6]
  BY <1>0 DEF DateBefore
<1>6. Earlier(s, t)
  <2>1. CASE s[1] < t[1]
    <3>1. 1 \in DOMAIN s /\ \A j \in 1 .. (1 - 1) : s[j] = t[j]
      BY <1>1
    <3> QED
      BY <2>1, <3>1 DEF Earlier
  <2>2. CASE s[1] = t[1] /\ s[2] < t[2]
    <3>1. 2 \in DOMAIN s /\ \A j \in 1 .. (2 - 1) : s[j] = t[j]
      BY <1>1, <2>2
    <3> QED
      BY <2>2, <3>1 DEF Earlier
  <2>3. CASE s[1] = t[1] /\ s[2] = t[2] /\ s[3] < t[3]
    <3>1. 3 \in DOMAIN s /\ \A j \in 1 .. (3 - 1) : s[j] = t[j]
      BY <1>1, <2>3
    <3> QED
      BY <2>3, <3>1 DEF Earlier
  <2>4. CASE s[1] = t[1] /\ s[2] = t[2] /\ s[3] = t[3] /\ s[4] < t[4]
    <3>1. 4 \in DOMAIN s /\ \A j \in 1 .. (4 - 1) : s[j] = t[j]
      BY <1>1, <2>4
    <3> QED
      BY <2>4, <3>1 DEF Earlier
  <2>5. CASE s[1] = t[1] /\ s[2] = t[2] /\ s[3] = t[3] /\ s[4] = t[4] /\ s[5] < t[5]
    <3>1. 5 \in DOMAIN s /\ \A j \in 1 .. (5 - 1) : s[j] = t[j]
      BY <1>1, <2>5
    <3> QED
      BY <2>5, <3>1 DEF Earlier
  <2>6. CASE /\ s[1] = t[1] /\ s[2] = t[2] /\ s[3] = t[3] /\ s[4] = t[4] /\ s[5] = t[5]
             /\ s[6] < t[6]
    <3>1. 6 \in DOMAIN s /\ \A j \in 1 .. (6 - 1) : s[j] = t[j]
      BY <1>1, <2>6
    <3> QED
      BY <2>6, <3>1 DEF Earlier
  <2> QED
    BY <1>2, <2>1, <2>2, <2>3, <2>4, <2>5, <2>6
<1> QED
  BY <1>6 DEF s, t

\* The numbers of the texts the stores keep are ordered as the times are, for
\* every time: what ORDER BY updated_at relies on while the widths are fixed.
\* (store.rs: now_iso, epoch_to_ymd_hms, list.)
THEOREM StampsInOrder ==
  ASSUME NEW a \in Nat, NEW b \in Nat, a < b PROVE Earlier(StampOf(a), StampOf(b))
<1>1. PICK c \in Nat : c = a \div 86400
  OBVIOUS
<1>2. PICK d \in Nat : d = b \div 86400
  OBVIOUS
<1>3. PICK t \in Int : t = a % 86400
  OBVIOUS
<1>4. PICK u \in Int : u = b % 86400
  OBVIOUS
<1>5. a = 86400 * c + t /\ 0 <= t /\ t < 86400
  BY <1>1, <1>3
<1>6. b = 86400 * d + u /\ 0 <= u /\ u < 86400
  BY <1>2, <1>4
<1>7. c < d \/ (c = d /\ t < u)
  BY <1>5, <1>6
<1>8. Ymd(c) \in Seq(Int) /\ Len(Ymd(c)) = 3
  BY YmdNumbers
<1>9. Ymd(d) \in Seq(Int) /\ Len(Ymd(d)) = 3
  BY YmdNumbers
<1>10. Hms(a) = <<t \div 3600, (t % 3600) \div 60, t % 60>>
  BY <1>3 DEF Hms
<1>11. Hms(b) = <<u \div 3600, (u % 3600) \div 60, u % 60>>
  BY <1>4 DEF Hms
<1>12. Hms(a) \in Seq(Int) /\ Len(Hms(a)) = 3
  BY <1>10
<1>13. Hms(b) \in Seq(Int) /\ Len(Hms(b)) = 3
  BY <1>11
<1>14. c < d => DateBefore(Ymd(c), Ymd(d))
  BY LaterDay
<1>15. t < u => DateBefore(Hms(a), Hms(b))
  BY <1>5, <1>6, <1>10, <1>11, LaterTime
<1>16. StampOf(a) = Ymd(c) \o Hms(a) /\ StampOf(b) = Ymd(d) \o Hms(b)
  BY <1>1, <1>2 DEF StampOf
<1>17. DateBefore(Ymd(c), Ymd(d)) \/ (Ymd(c) = Ymd(d) /\ DateBefore(Hms(a), Hms(b)))
  BY <1>7, <1>14, <1>15
<1>18. Earlier(Ymd(c) \o Hms(a), Ymd(d) \o Hms(b))
  BY <1>8, <1>9, <1>12, <1>13, <1>17, TextsOrdered
<1> QED
  BY <1>16, <1>18

-----------------------------------------------------------------------------
(* The two tables and the session list *)

\* A row of the memories table: its tag is the tag of the scope it was given, and
\* it was counted whenever it was touched.
MemoryIs(row, s, n) == row = [tag |-> ToTag(s), count |-> n, scope |-> s, touches |-> n]

MemoriesInv ==
  /\ memories = [m \in MemoryIds |-> memories[m]]
  /\ \A m \in MemoryIds : memories[m] # NoRow =>
       \E s \in Scopes, n \in Nat : MemoryIs(memories[m], s, n)

SessionIs(row, cwd, secs) == row = SessionRow(cwd, secs)

SessionsInv ==
  /\ sessions = [i \in SessionIds |-> sessions[i]]
  /\ \A i \in SessionIds : sessions[i] # NoRow =>
       sessions[i].at \in Nat /\ sessions[i].updated = StampOf(sessions[i].at)

AllCalls == SessionCalls \cup MemoryCalls \cup {Load}

\* A call was asked for what there is to ask, at a time the clock had shown.
CallIs(k) ==
  /\ k.asked \in AllCalls
  /\ k.op = k.asked.op
  /\ k.at \in 1 .. Len(Instants)

CallsInv ==
  /\ clock \in 1 .. Len(Instants)
  /\ call = [c \in Callers |-> call[c]]
  /\ \A c \in Callers : call[c] # Idle =>
       /\ DOMAIN call[c] = {"asked", "op", "at", "stage"}
       /\ CallIs(call[c])

PickerInv ==
  /\ picker = [entries |-> picker.entries, cursor |-> picker.cursor,
               filtered |-> picker.filtered, from |-> picker.from]
  /\ picker.entries \in Seq(SessionIds)
  /\ picker.cursor \in Nat
  /\ PickerShowsTable

StoresInv == CallsInv /\ SessionsInv /\ MemoriesInv

LEMMA InstantsAre ==
  ASSUME NEW n \in 1 .. Len(Instants) PROVE Instants[n] \in Nat
BY InstantsAssumption

LEMMA StoresInvInit == StoresInit => StoresInv
<1> SUFFICES ASSUME StoresInit PROVE StoresInv
  OBVIOUS
<1> USE DEF StoresInit
<1>1. CallsInv
  <2>1. Len(Instants) \in Nat \ {0}
    BY InstantsAssumption
  <2> QED
    BY <2>1 DEF CallsInv
<1>2. SessionsInv
  <2>1. Instants[1] \in Nat
    BY InstantsAssumption
  <2>2. ASSUME NEW i \in SessionIds, sessions[i] # NoRow
        PROVE  sessions[i].at \in Nat /\ sessions[i].updated = StampOf(sessions[i].at)
    <3>1. sessions[i] = SessionRow(UiCwd, Instants[1])
      BY <2>2
    <3> QED
      BY <2>1, <3>1 DEF SessionRow
  <2> QED
    BY <2>2 DEF SessionsInv
<1>3. MemoriesInv
  BY DEF MemoriesInv
<1> QED
  BY <1>1, <1>2, <1>3 DEF StoresInv

\* What an executing call was asked for.
LEMMA DoingAsked ==
  ASSUME CallsInv, NEW c \in Callers, NEW op, Doing(c, op), op # "idle"
  PROVE  call[c] # Idle /\ Asked(c).op = op /\ Asked(c) \in AllCalls /\ Now(c) \in Nat
<1>1. call[c] # Idle
  BY DEF Doing, Stage
<1>2. CallIs(call[c]) /\ call[c].op = op
  BY <1>1 DEF CallsInv, Doing
<1>3. Instants[call[c].at] \in Nat
  BY <1>2, InstantsAre DEF CallIs
<1> QED
  BY <1>1, <1>2, <1>3 DEF CallIs, Asked, Now

LEMMA AskedOf ==
  ASSUME NEW o \in AllCalls
  PROVE  /\ o.op \in {"create", "update_summary", "delete"} => o.id \in SessionIds
         /\ o.op \in {"create_memory", "touch", "update_value", "delete_memory"} =>
              o.id \in MemoryIds
         /\ o.op = "create_memory" => o.scope \in Scopes
         /\ o.op = "create" => o.created \in Given \cup {NoDate}
BY DEF AllCalls, SessionCalls, MemoryCalls, Load

\* A call goes on to its next stage, or returns.
LEMMA CallsGoOn ==
  ASSUME CallsInv, NEW c \in Callers, UNCHANGED clock,
         \/ call' = [call EXCEPT ![c] = Idle]
         \/ /\ call[c] # Idle
            /\ \E stage : call' = [call EXCEPT ![c].stage = stage]
  PROVE  CallsInv'
<1>1. call' = [d \in Callers |-> call'[d]]
  BY DEF CallsInv
<1>2. ASSUME NEW d \in Callers, call'[d] # Idle
      PROVE  DOMAIN call'[d] = {"asked", "op", "at", "stage"} /\ CallIs(call'[d])
  <2>1. CASE call'[d] = call[d]
    BY <1>2, <2>1 DEF CallsInv
  <2>2. CASE call'[d] # call[d]
    <3>1. d = c /\ call[c] # Idle
      BY <1>2, <2>2 DEF CallsInv
    <3>2. PICK stage : call'[c] = [call[c] EXCEPT !.stage = stage]
      BY <1>2, <2>2, <3>1 DEF CallsInv
    <3>3. /\ DOMAIN call[c] = {"asked", "op", "at", "stage"}
          /\ CallIs(call[c])
      BY <3>1 DEF CallsInv
    <3>4. /\ DOMAIN call'[c] = {"asked", "op", "at", "stage"}
          /\ call'[c].asked = call[c].asked /\ call'[c].op = call[c].op /\ call'[c].at = call[c].at
      BY <3>2, <3>3
    <3> QED
      BY <3>1, <3>3, <3>4 DEF CallIs
  <2> QED
    BY <2>1, <2>2
<1> QED
  BY <1>1, <1>2 DEF CallsInv

LEMMA BeginCalls ==
  ASSUME StoresInv, NEW c \in Callers, Begin(c) PROVE CallsInv'
<1>1. PICK o \in AllCalls :
        call' = [call EXCEPT ![c] = [asked |-> o, op |-> o.op, at |-> clock, stage |-> "wait"]]
  BY DEF Begin, AllCalls
<1>2. CallsInv /\ clock' = clock
  BY DEF StoresInv, Begin
<1>3. call' = [d \in Callers |-> call'[d]]
  BY <1>1, <1>2 DEF CallsInv
<1>4. ASSUME NEW d \in Callers, call'[d] # Idle
      PROVE  DOMAIN call'[d] = {"asked", "op", "at", "stage"} /\ CallIs(call'[d])
  <2>1. CASE d = c
    <3>1. call'[c] = [asked |-> o, op |-> o.op, at |-> clock, stage |-> "wait"]
      BY <1>1, <1>2 DEF CallsInv
    <3> QED
      BY <1>2, <2>1, <3>1 DEF CallIs, CallsInv
  <2>2. CASE d # c
    <3>1. call'[d] = call[d]
      BY <1>1, <1>2, <2>2 DEF CallsInv
    <3> QED
      BY <1>2, <1>4, <3>1 DEF CallsInv
  <2> QED
    BY <2>1, <2>2
<1> QED
  BY <1>2, <1>3, <1>4 DEF CallsInv

\* A row that is written is one of its table.
LEMMA SessionWritten ==
  ASSUME SessionsInv, NEW i \in SessionIds, NEW row, sessions' = [sessions EXCEPT ![i] = row],
         row = NoRow \/ \E cwd : \E secs \in Nat : row = SessionRow(cwd, secs)
  PROVE  SessionsInv'
<1>1. ASSUME NEW j \in SessionIds, sessions'[j] # NoRow
      PROVE  sessions'[j].at \in Nat /\ sessions'[j].updated = StampOf(sessions'[j].at)
  <2>1. CASE j = i
    <3>1. sessions'[j] = row
      BY <2>1 DEF SessionsInv
    <3>2. PICK cwd : \E secs \in Nat : row = SessionRow(cwd, secs)
      BY <1>1, <3>1
    <3>3. PICK secs \in Nat : row = SessionRow(cwd, secs)
      BY <3>2
    <3> QED
      BY <3>1, <3>3 DEF SessionRow
  <2>2. CASE j # i
    BY <1>1, <2>2 DEF SessionsInv
  <2> QED
    BY <2>1, <2>2
<1>2. sessions' = [j \in SessionIds |-> sessions'[j]]
  BY DEF SessionsInv
<1> QED
  BY <1>1, <1>2 DEF SessionsInv

LEMMA MemoryWritten ==
  ASSUME MemoriesInv, NEW i \in MemoryIds, NEW row, memories' = [memories EXCEPT ![i] = row],
         row = NoRow \/ \E s \in Scopes, n \in Nat : MemoryIs(row, s, n)
  PROVE  MemoriesInv'
<1>1. ASSUME NEW j \in MemoryIds, memories'[j] # NoRow
      PROVE  \E s \in Scopes, n \in Nat : MemoryIs(memories'[j], s, n)
  <2>1. CASE j = i
    <3>1. memories'[j] = row
      BY <2>1 DEF MemoriesInv
    <3> QED
      BY <1>1, <3>1
  <2>2. CASE j # i
    BY <1>1, <2>2 DEF MemoriesInv
  <2> QED
    BY <2>1, <2>2
<1>2. memories' = [j \in MemoryIds |-> memories'[j]]
  BY DEF MemoriesInv
<1> QED
  BY <1>1, <1>2 DEF MemoriesInv

LEMMA SessionsUnchanged ==
  ASSUME SessionsInv, UNCHANGED sessions PROVE SessionsInv'
BY DEF SessionsInv

LEMMA MemoriesUnchanged ==
  ASSUME MemoriesInv, UNCHANGED memories PROVE MemoriesInv'
BY DEF MemoriesInv

LEMMA StepSessions ==
  ASSUME StoresInv, NEW c \in Callers, Create(c) \/ UpdateSummary(c) \/ Delete(c)
  PROVE  SessionsInv'
<1> USE DEF StoresInv
<1>1. CASE Create(c)
  <2>1. Asked(c).op = "create" /\ Asked(c) \in AllCalls /\ Now(c) \in Nat
    BY <1>1, DoingAsked DEF Create
  <2>2. Asked(c).id \in SessionIds
    BY <2>1, AskedOf
  <2>3. CASE UNCHANGED sessions
    BY <2>3, SessionsUnchanged
  <2>4. CASE sessions' = [sessions EXCEPT ![Asked(c).id] =
                            SessionRow(Asked(c).cwd, CreatedAt(c))]
    <3> DEFINE row == SessionRow(Asked(c).cwd, CreatedAt(c))
    <3>0. CreatedAt(c) \in Nat
      <4>1. PICK k : k = Asked(c).created
        OBVIOUS
      <4>2. k \in Given \cup {NoDate} /\ Given \subseteq Nat
        BY <2>1, <4>1, AskedOf, InstantsAssumption
      <4>3. CreatedAt(c) = IF k = NoDate THEN Now(c) ELSE k
        BY <4>1 DEF CreatedAt
      <4> QED
        BY <2>1, <4>2, <4>3
    <3>1. \E cwd : \E secs \in Nat : row = SessionRow(cwd, secs)
      BY <3>0
    <3> HIDE DEF row
    <3> QED
      BY <2>2, <2>4, <3>1, SessionWritten DEF row
  <2> QED
    BY <1>1, <2>3, <2>4 DEF Create
<1>2. CASE UpdateSummary(c)
  <2>1. Asked(c).op = "update_summary" /\ Asked(c) \in AllCalls /\ Now(c) \in Nat
    BY <1>2, DoingAsked DEF UpdateSummary
  <2>2. Asked(c).id \in SessionIds
    BY <2>1, AskedOf
  <2>3. CASE UNCHANGED sessions
    BY <2>3, SessionsUnchanged
  <2>4. CASE sessions' = [sessions EXCEPT ![Asked(c).id] =
                            SessionRow(sessions[Asked(c).id].cwd, Now(c))]
    <3> DEFINE row == SessionRow(sessions[Asked(c).id].cwd, Now(c))
    <3>1. \E cwd : \E secs \in Nat : row = SessionRow(cwd, secs)
      BY <2>1
    <3> HIDE DEF row
    <3> QED
      BY <2>2, <2>4, <3>1, SessionWritten DEF row
  <2> QED
    BY <1>2, <2>3, <2>4 DEF UpdateSummary
<1>3. CASE Delete(c)
  <2>1. Asked(c).op = "delete" /\ Asked(c) \in AllCalls
    BY <1>3, DoingAsked DEF Delete
  <2>2. Asked(c).id \in SessionIds
    BY <2>1, AskedOf
  <2>3. sessions' = [sessions EXCEPT ![Asked(c).id] = NoRow]
    BY <1>3 DEF Delete
  <2> QED
    BY <2>2, <2>3, SessionWritten
<1> QED
  BY <1>1, <1>2, <1>3

LEMMA StepMemories ==
  ASSUME StoresInv, NEW c \in Callers, CreateMemory(c) \/ TouchOrUpdate(c) \/ DeleteMemory(c)
  PROVE  MemoriesInv'
<1> USE DEF StoresInv
<1>1. CASE CreateMemory(c)
  <2>1. Asked(c).op = "create_memory" /\ Asked(c) \in AllCalls
    BY <1>1, DoingAsked DEF CreateMemory
  <2>2. Asked(c).id \in MemoryIds /\ Asked(c).scope \in Scopes
    BY <2>1, AskedOf
  <2>3. CASE UNCHANGED memories
    BY <2>3, MemoriesUnchanged
  <2>4. CASE memories' = [memories EXCEPT ![Asked(c).id] = MemoryRow(Asked(c).scope)]
    <3>1. MemoryIs(MemoryRow(Asked(c).scope), Asked(c).scope, 0)
      BY DEF MemoryIs, MemoryRow
    <3>2. \E s \in Scopes, n \in Nat : MemoryIs(MemoryRow(Asked(c).scope), s, n)
      BY <2>2, <3>1
    <3> QED
      BY <2>2, <2>4, <3>2, MemoryWritten
  <2> QED
    BY <1>1, <2>3, <2>4 DEF CreateMemory
<1>2. CASE TouchOrUpdate(c)
  <2> DEFINE id == Asked(c).id
             row == Touched(memories[id], call[c].op)
  <2>1. Asked(c).op \in {"touch", "update_value"} /\ Asked(c) \in AllCalls
    BY <1>2, DoingAsked DEF TouchOrUpdate
  <2>2. id \in MemoryIds
    BY <2>1, AskedOf
  <2>3. CASE UNCHANGED memories
    BY <2>3, MemoriesUnchanged
  <2>4. CASE memories[id] # NoRow /\ memories' = [memories EXCEPT ![id] = row]
    <3>1. PICK s \in Scopes, n \in Nat : MemoryIs(memories[id], s, n)
      BY <2>2, <2>4 DEF MemoriesInv
    <3>2. MemoryIs(row, s, n) \/ MemoryIs(row, s, n + 1)
      <4>1. PICK m : m = memories[id]
        OBVIOUS
      <4>2. m = [tag |-> ToTag(s), count |-> n, scope |-> s, touches |-> n]
        BY <3>1, <4>1 DEF MemoryIs
      <4>3. [m EXCEPT !.count = @ + 1, !.touches = @ + 1]
              = [tag |-> ToTag(s), count |-> n + 1, scope |-> s, touches |-> n + 1]
        <5> DEFINE k == [m EXCEPT !.count = @ + 1, !.touches = @ + 1]
        <5>1. DOMAIN m = {"tag", "count", "scope", "touches"}
          BY <4>2
        <5>2. /\ m.tag = ToTag(s) /\ m.count = n /\ m.scope = s /\ m.touches = n
          BY <4>2
        <5>3. k = [f \in {"tag", "count", "scope", "touches"} |-> k[f]]
          BY <5>1
        <5>4. k.tag = ToTag(s) /\ k.count = n + 1 /\ k.scope = s /\ k.touches = n + 1
          BY <5>1, <5>2
        <5> HIDE DEF k
        <5>5. k = [tag |-> ToTag(s), count |-> n + 1, scope |-> s, touches |-> n + 1]
          BY <5>3, <5>4
        <5> QED
          BY <5>5 DEF k
      <4> QED
        BY <4>1, <4>2, <4>3 DEF MemoryIs, Touched
    <3>3. n + 1 \in Nat
      OBVIOUS
    <3> HIDE DEF row, id
    <3>4. \E t \in Scopes, k \in Nat : MemoryIs(row, t, k)
      BY <3>2, <3>3
    <3> QED
      BY <2>2, <2>4, <3>4, MemoryWritten
  <2>5. \/ UNCHANGED memories
        \/ memories[id] # NoRow /\ memories' = [memories EXCEPT ![id] = row]
    BY <1>2, <2>2 DEF TouchOrUpdate, MemoriesInv
  <2> QED
    BY <2>3, <2>4, <2>5
<1>3. CASE DeleteMemory(c)
  <2>1. Asked(c).op = "delete_memory" /\ Asked(c) \in AllCalls
    BY <1>3, DoingAsked DEF DeleteMemory
  <2>2. Asked(c).id \in MemoryIds
    BY <2>1, AskedOf
  <2>3. memories' = [memories EXCEPT ![Asked(c).id] = NoRow]
    BY <1>3 DEF DeleteMemory
  <2> QED
    BY <2>2, <2>3, MemoryWritten
<1> QED
  BY <1>1, <1>2, <1>3

LEMMA StoresInvNext == StoresInv /\ [StoresNext]_storesVars => StoresInv'
<1> SUFFICES ASSUME StoresInv, [StoresNext]_storesVars PROVE StoresInv'
  OBVIOUS
<1>0. CallsInv /\ SessionsInv /\ MemoriesInv
  BY DEF StoresInv
<1>1. ASSUME NEW c \in Callers, Begin(c) PROVE StoresInv'
  <2>1. CallsInv'
    BY <1>1, BeginCalls
  <2>2. UNCHANGED <<sessions, memories>>
    BY <1>1 DEF Begin
  <2> QED
    BY <1>0, <2>1, <2>2, SessionsUnchanged, MemoriesUnchanged DEF StoresInv
<1>2. ASSUME NEW c \in Callers, Acquire(c) \/ Timeout(c) \/ StatementFails(c) PROVE StoresInv'
  <2>1. /\ UNCHANGED <<sessions, memories, clock>>
        /\ \/ call' = [call EXCEPT ![c] = Idle]
           \/ /\ call[c] # Idle
              /\ \E stage : call' = [call EXCEPT ![c].stage = stage]
    BY <1>2 DEF Acquire, Timeout, StatementFails, Return, tables, Waiting, Stage
  <2>2. CallsInv'
    BY <1>0, <2>1, CallsGoOn
  <2> QED
    BY <1>0, <2>1, <2>2, SessionsUnchanged, MemoriesUnchanged DEF StoresInv
<1>3. ASSUME NEW c \in Callers, Step(c) PROVE StoresInv'
  <2>1. /\ UNCHANGED clock
        /\ \/ call' = [call EXCEPT ![c] = Idle]
           \/ /\ call[c] # Idle
              /\ \E stage : call' = [call EXCEPT ![c].stage = stage]
    BY <1>3 DEF Step, Create, UpdateSummary, Delete, ResolveExact, ResolvePrefix, GetById, List,
                CreateMemory, TouchOrUpdate, DeleteMemory, Query, Return, ReadBack, Doing, Stage
  <2>2. CallsInv'
    BY <1>0, <2>1, CallsGoOn
  <2>3. SessionsInv'
    <3>1. CASE Create(c) \/ UpdateSummary(c) \/ Delete(c)
      BY <3>1, StepSessions
    <3>2. CASE UNCHANGED sessions
      BY <1>0, <3>2, SessionsUnchanged
    <3> QED
      BY <1>3, <3>1, <3>2 DEF Step, ResolveExact, ResolvePrefix, GetById, List, CreateMemory,
                              TouchOrUpdate, DeleteMemory, Query, tables
  <2>4. MemoriesInv'
    <3>1. CASE CreateMemory(c) \/ TouchOrUpdate(c) \/ DeleteMemory(c)
      BY <3>1, StepMemories
    <3>2. CASE UNCHANGED memories
      BY <1>0, <3>2, MemoriesUnchanged
    <3> QED
      BY <1>3, <3>1, <3>2 DEF Step, Create, UpdateSummary, Delete, ResolveExact, ResolvePrefix,
                              GetById, List, Query, tables
  <2> QED
    BY <2>2, <2>3, <2>4 DEF StoresInv
<1>4. CASE Tick
  <2>1. CallsInv'
    <3>1. clock' \in 1 .. Len(Instants)
      BY <1>0, <1>4, InstantsAssumption DEF Tick, CallsInv
    <3>2. call' = call
      BY <1>4 DEF Tick
    <3> QED
      BY <1>0, <3>1, <3>2 DEF CallsInv
  <2>2. UNCHANGED <<sessions, memories>>
    BY <1>4 DEF Tick
  <2> QED
    BY <1>0, <2>1, <2>2, SessionsUnchanged, MemoriesUnchanged DEF StoresInv
<1>5. CASE \/ ToggleCwdFilter \/ PickerUp \/ PickerDown
           \/ UNCHANGED storesVars
  <2>1. UNCHANGED <<sessions, memories, clock, call>>
    BY <1>5 DEF ToggleCwdFilter, PickerUp, PickerDown, PickerMoves, tables, storesVars
  <2>2. CallsInv'
    BY <1>0, <2>1 DEF CallsInv
  <2> QED
    BY <1>0, <2>1, <2>2, SessionsUnchanged, MemoriesUnchanged DEF StoresInv
<1> QED
  BY <1>1, <1>2, <1>3, <1>4, <1>5 DEF StoresNext

\* Two scopes with the same tag are one.
LEMMA TagsDiffer ==
  ASSUME NEW s \in Scopes, NEW t \in Scopes, ToTag(s) = ToTag(t) PROVE s = t
<1>1. \/ s.kind \in {"session", "project"} /\ s = Scope(s.kind, s.id)
      \/ s.kind \in {"user", "global"} /\ s = Scope(s.kind, "")
  BY ScopesAssumption
<1>2. \/ t.kind \in {"session", "project"} /\ t = Scope(t.kind, t.id)
      \/ t.kind \in {"user", "global"} /\ t = Scope(t.kind, "")
  BY ScopesAssumption
<1> QED
  BY <1>1, <1>2 DEF ToTag

\* What a tag is read as is the scope it was made from.
LEMMA TagsRead ==
  ASSUME NEW s \in Scopes PROVE FromTag(ToTag(s)) = s
<1>1. \/ s.kind \in {"session", "project"} /\ s = Scope(s.kind, s.id)
      \/ s.kind \in {"user", "global"} /\ s = Scope(s.kind, "")
  BY ScopesAssumption
<1>2. CASE s.kind \in {"session", "project"} /\ s = Scope(s.kind, s.id)
  <2>1. ToTag(s) = <<s.kind, ":", s.id>>
    BY <1>2 DEF ToTag
  <2>2. PICK k, i : k = s.kind /\ i = s.id
    OBVIOUS
  <2>3. PICK tag : tag = <<k, ":", i>>
    OBVIOUS
  <2>4. Len(tag) = 3 /\ tag[1] = k /\ tag[3] = i
    BY <2>3
  <2>5. FromTag(tag) = Scope(k, i)
    BY <1>2, <2>2, <2>4 DEF FromTag
  <2> QED
    BY <1>2, <2>1, <2>2, <2>3, <2>5
<1>3. CASE s.kind \in {"user", "global"} /\ s = Scope(s.kind, "")
  <2>1. ToTag(s) = <<s.kind>>
    BY <1>3 DEF ToTag
  <2>2. PICK k : k = s.kind
    OBVIOUS
  <2>3. PICK tag : tag = <<k>>
    OBVIOUS
  <2>4. Len(tag) = 1 /\ tag[1] = k
    BY <2>3
  <2>5. FromTag(tag) = Scope(k, "")
    BY <1>3, <2>2, <2>4 DEF FromTag
  <2> QED
    BY <1>3, <2>1, <2>2, <2>3, <2>5
<1> QED
  BY <1>1, <1>2, <1>3

\* Every memory is found by its own scope alone and counts its touches, for all
\* texts of session and project ids and any number of callers.  (memories:
\* store.rs, scope.rs.)
THEOREM MemoriesAreKept == StoresSpec => []MemoriesKept
<1>1. StoresInv => MemoriesKept
  <2> SUFFICES ASSUME StoresInv, NEW m \in MemoryIds, memories[m] # NoRow
               PROVE  /\ FromTag(memories[m].tag) = memories[m].scope
                      /\ \A s \in Scopes : m \in Found(s) <=> memories[m].scope = s
                      /\ memories[m].count = memories[m].touches
    BY DEF MemoriesKept
  <2>1. PICK s \in Scopes, n \in Nat : MemoryIs(memories[m], s, n)
    BY DEF StoresInv, MemoriesInv
  <2>2. /\ memories[m].tag = ToTag(s) /\ memories[m].scope = s
        /\ memories[m].count = n /\ memories[m].touches = n
    BY <2>1 DEF MemoryIs
  <2>3. FromTag(memories[m].tag) = memories[m].scope
    BY <2>2, TagsRead
  <2>4. ASSUME NEW t \in Scopes PROVE m \in Found(t) <=> memories[m].scope = t
    <3>1. m \in Found(t) <=> ToTag(s) = ToTag(t)
      BY <2>2 DEF Found
    <3>2. ToTag(s) = ToTag(t) <=> s = t
      BY TagsDiffer
    <3> QED
      BY <2>2, <3>1, <3>2
  <2> QED
    BY <2>2, <2>3, <2>4
<1> QED
  BY <1>1, StoresInvInit, StoresInvNext, PTL DEF StoresSpec

\* What SetToSeqs has are the ways to write a finite set down.
LEMMA Enumerated ==
  ASSUME NEW S, IsFiniteSet(S), NEW s \in SetToSeqs(S)
  PROVE  /\ s \in Seq(S) /\ Len(s) \in Nat
         /\ \A i, j \in 1 .. Len(s) : s[i] = s[j] => i = j
         /\ \A x \in S : \E i \in 1 .. Len(s) : s[i] = x
<1>1. PICK n \in Nat : n = Cardinality(S)
  BY FS_CardinalityType
<1>2. s \in [1 .. n -> S] /\ \A i, j \in 1 .. n : i # j => s[i] # s[j]
  BY <1>1 DEF SetToSeqs
<1>3. s \in Injection(1 .. n, S)
  BY <1>2 DEF Injection, IsInjective
<1>4. Cardinality(1 .. n) = n
  BY FS_Interval
<1>5. s \in Surjection(1 .. n, S)
  BY <1>1, <1>3, <1>4, FS_Injection
<1>6. \A x \in S : \E i \in 1 .. n : s[i] = x
  BY <1>5 DEF Surjection
<1>7. s \in Seq(S) /\ Len(s) = n
  BY <1>2
<1> QED
  BY <1>2, <1>6, <1>7

LEMMA LimitedIs ==
  ASSUME NEW S, NEW s \in Seq(S)
  PROVE  /\ Limited(s) \in Seq(S)
         /\ Len(Limited(s)) \in Nat
         /\ Len(Limited(s)) = Len(s) \/ (Len(Limited(s)) = ListLimit /\ ListLimit < Len(s))
         /\ \A i \in 1 .. Len(Limited(s)) : i \in 1 .. Len(s) /\ Limited(s)[i] = s[i]
<1>1. PICK n \in Nat : n = IF Len(s) < ListLimit THEN Len(s) ELSE ListLimit
  BY RowsAssumption
<1>2. n <= Len(s) /\ (n = Len(s) \/ (n = ListLimit /\ ListLimit < Len(s)))
  BY <1>1, RowsAssumption
<1>3. \A i \in 1 .. n : s[i] \in S
  BY <1>2
<1>4. /\ SubSeq(s, 1, n) \in Seq(S)
      /\ Len(SubSeq(s, 1, n)) = IF 1 <= n THEN n - 1 + 1 ELSE 0
      /\ \A i \in 1 .. n - 1 + 1 : SubSeq(s, 1, n)[i] = s[1 + i - 1]
  BY <1>3, SubSeqProperties
<1>5. Limited(s) = SubSeq(s, 1, n)
  BY <1>1 DEF Limited
<1>6. Len(Limited(s)) = n
  BY <1>4, <1>5
<1>7. \A i \in 1 .. n : Limited(s)[i] = s[i]
  BY <1>4, <1>5
<1> QED
  BY <1>2, <1>4, <1>5, <1>6, <1>7

\* A list in the order of the texts is in the order of the times.
LEMMA TrueOrder ==
  ASSUME SessionsInv, NEW f, NEW s \in Descending(Listed(f)),
         NEW i \in DOMAIN s, NEW j \in DOMAIN s, i < j, s[i] \in Listed(f), s[j] \in Listed(f)
  PROVE  sessions[s[i]].at >= sessions[s[j]].at
<1>1. ~Earlier(sessions[s[i]].updated, sessions[s[j]].updated)
  BY DEF Descending
<1>2. PICK a \in Nat : a = sessions[s[i]].at
  BY DEF SessionsInv, Listed
<1>3. PICK b \in Nat : b = sessions[s[j]].at
  BY DEF SessionsInv, Listed
<1>4. sessions[s[i]].updated = StampOf(a) /\ sessions[s[j]].updated = StampOf(b)
  BY <1>2, <1>3 DEF SessionsInv, Listed
<1>5. ~(a < b)
  BY <1>1, <1>4, StampsInOrder
<1> QED
  BY <1>2, <1>3, <1>5

LEMMA ListShows ==
  ASSUME StoresInv, PickerInv, NEW c \in Callers, List(c) PROVE PickerInv'
<1>1. PICK s \in Descending(Listed(picker.filtered)) :
        picker' = [picker EXCEPT
                     !.entries = Limited(s),
                     !.cursor = IF s = <<>> THEN 0 ELSE 1,
                     !.from = [rows |-> sessions, filtered |-> picker.filtered]]
  BY DEF List
<1> DEFINE S == Listed(picker.filtered)
           e == Limited(s)
<1>2. S \subseteq SessionIds /\ IsFiniteSet(S)
  BY RowsAssumption, FS_Subset DEF Listed
<1>3. s \in SetToSeqs(S)
  BY DEF Descending
<1>4. /\ s \in Seq(S) /\ Len(s) \in Nat
      /\ \A i, j \in 1 .. Len(s) : s[i] = s[j] => i = j
      /\ \A x \in S : \E i \in 1 .. Len(s) : s[i] = x
  <2> HIDE DEF S
  <2> QED
    BY <1>2, <1>3, Enumerated
<1>5. /\ e \in Seq(S) /\ Len(e) \in Nat
      /\ Len(e) = Len(s) \/ (Len(e) = ListLimit /\ ListLimit < Len(s))
      /\ \A i \in 1 .. Len(e) : i \in 1 .. Len(s) /\ e[i] = s[i]
  BY <1>4, LimitedIs
<1>6. PICK rows : rows = sessions
  OBVIOUS
<1>7. PICK f : f = picker.filtered
  OBVIOUS
<1>8. /\ picker'.entries = e /\ picker'.cursor = (IF s = <<>> THEN 0 ELSE 1)
      /\ picker'.from = [rows |-> rows, filtered |-> f]
      /\ picker' = [entries |-> picker'.entries, cursor |-> picker'.cursor,
                    filtered |-> picker'.filtered, from |-> picker'.from]
  BY <1>1, <1>6, <1>7 DEF PickerInv
<1>9. S = {i \in SessionIds : rows[i] # NoRow /\ (f => rows[i].cwd = UiCwd)}
  BY <1>6, <1>7 DEF Listed
<1>10. \A i, j \in 1 .. Len(s) : i < j => rows[s[i]].at >= rows[s[j]].at
  <2>1. DOMAIN s = 1 .. Len(s) /\ \A i \in 1 .. Len(s) : s[i] \in S
    BY <1>4
  <2>2. SessionsInv
    BY DEF StoresInv
  <2> QED
    BY <1>6, <2>1, <2>2, TrueOrder
<1>11. \A i \in 1 .. Len(s) : rows[s[i]].at \in Nat
  <2>1. \A x \in S : x \in SessionIds /\ sessions[x] # NoRow
    BY DEF Listed
  <2>2. \A x \in S : rows[x].at \in Nat
    BY <1>6, <2>1 DEF StoresInv, SessionsInv
  <2> HIDE DEF S
  <2>3. \A i \in 1 .. Len(s) : s[i] \in S
    BY <1>4
  <2> QED
    BY <2>2, <2>3
<1>12. (s = <<>>) <=> (Len(s) = 0)
  BY <1>4
<1>13. (Len(e) = 0) <=> (Len(s) = 0)
  BY <1>5, RowsAssumption
<1> HIDE DEF S, e
<1>14. ToSet(e) = {e[i] : i \in 1 .. Len(e)} /\ DOMAIN e = 1 .. Len(e)
  BY <1>5 DEF ToSet
<1>15. IsInjective(e)
  BY <1>4, <1>5, <1>14 DEF IsInjective
<1>16. ToSet(e) \subseteq S
  BY <1>5, <1>14
<1>17. Len(e) = ListLimit \/ ToSet(e) = S
  <2>1. CASE Len(e) = Len(s)
    <3>1. \A x \in S : \E i \in 1 .. Len(e) : e[i] = x
      BY <1>4, <1>5, <2>1
    <3> QED
      BY <1>14, <1>16, <3>1
  <2> QED
    BY <1>5, <2>1
<1>18. \A i, j \in 1 .. Len(e) : i < j => rows[e[i]].at >= rows[e[j]].at
  BY <1>5, <1>10
<1>19. \A x \in S \ ToSet(e), y \in ToSet(e) : rows[x].at <= rows[y].at
  <2> SUFFICES ASSUME NEW x \in S, x \notin ToSet(e), NEW y \in ToSet(e)
               PROVE  rows[x].at <= rows[y].at
    OBVIOUS
  <2>1. PICK i \in 1 .. Len(e) : e[i] = y
    BY <1>14
  <2>2. PICK j \in 1 .. Len(s) : s[j] = x
    BY <1>4
  <2>3. i \in 1 .. Len(s) /\ s[i] = y
    BY <1>5, <2>1
  <2>4. ~(j \in 1 .. Len(e))
    <3> SUFFICES ASSUME j \in 1 .. Len(e) PROVE FALSE
      OBVIOUS
    <3>1. e[j] = x
      BY <1>5, <2>2
    <3> QED
      BY <1>14, <3>1
  <2>5. i < j
    BY <1>4, <1>5, <2>1, <2>2, <2>3, <2>4
  <2>6. rows[s[i]].at >= rows[s[j]].at /\ rows[s[i]].at \in Nat /\ rows[s[j]].at \in Nat
    BY <1>10, <1>11, <2>2, <2>3, <2>5
  <2> QED
    BY <2>2, <2>3, <2>6
<1>20. picker'.cursor \in (IF ToSet(e) = {} THEN {0} ELSE 1 .. Len(e))
  <2>1. CASE Len(e) = 0
    <3>1. ToSet(e) = {}
      BY <1>14, <2>1
    <3> QED
      BY <1>8, <1>12, <1>13, <2>1, <3>1
  <2>2. CASE Len(e) # 0
    <3>1. 1 \in 1 .. Len(e)
      BY <1>5, <2>2
    <3>2. e[1] \in ToSet(e)
      BY <1>14, <3>1
    <3>3. picker'.cursor = 1
      BY <1>8, <1>12, <1>13, <2>2
    <3> QED
      BY <3>1, <3>2, <3>3
  <2> QED
    BY <2>1, <2>2
<1>21. picker'.from.rows = rows /\ picker'.from.filtered = f
  BY <1>8
<1>22. PickerShowsTable'
  BY <1>8, <1>9, <1>14, <1>15, <1>16, <1>17, <1>18, <1>19, <1>20, <1>21 DEF PickerShowsTable
<1>23. picker'.entries \in Seq(SessionIds) /\ picker'.cursor \in Nat
  BY <1>2, <1>5, <1>8
<1> QED
  BY <1>8, <1>22, <1>23 DEF PickerInv

\* Moving in the list, or turning its filter, leaves what it shows.
LEMMA MovesShow ==
  ASSUME PickerInv, ToggleCwdFilter \/ PickerUp \/ PickerDown PROVE PickerInv'
<1>1. /\ picker'.entries = picker.entries /\ picker'.from = picker.from
      /\ picker' = [entries |-> picker'.entries, cursor |-> picker'.cursor,
                    filtered |-> picker'.filtered, from |-> picker'.from]
      /\ \/ picker'.cursor = picker.cursor
         \/ picker.cursor > 1 /\ picker'.cursor = picker.cursor - 1
         \/ /\ picker.cursor > 0 /\ picker.cursor < Len(picker.entries)
            /\ picker'.cursor = picker.cursor + 1
  BY DEF PickerInv, ToggleCwdFilter, PickerUp, PickerDown, PickerMoves
<1>2. PICK e \in Seq(SessionIds) : e = picker.entries
  BY DEF PickerInv
<1>3. Len(e) \in Nat /\ picker.cursor \in Nat
  BY DEF PickerInv
<1>4. picker'.cursor \in Nat
  BY <1>1, <1>3
<1>5. \A T : picker.cursor \in (IF T = {} THEN {0} ELSE 1 .. Len(e)) =>
             picker'.cursor \in (IF T = {} THEN {0} ELSE 1 .. Len(e))
  <2> SUFFICES ASSUME NEW T, picker.cursor \in (IF T = {} THEN {0} ELSE 1 .. Len(e))
               PROVE  picker'.cursor \in (IF T = {} THEN {0} ELSE 1 .. Len(e))
    OBVIOUS
  <2>1. CASE T = {}
    BY <1>1, <2>1
  <2>2. CASE T # {}
    BY <1>1, <1>2, <1>3, <2>2
  <2> QED
    BY <2>1, <2>2
<1>6. PickerShowsTable'
  BY <1>1, <1>2, <1>5 DEF PickerInv, PickerShowsTable
<1> QED
  BY <1>1, <1>2, <1>4, <1>6 DEF PickerInv

LEMMA PickerInvNext ==
  StoresInv /\ PickerInv /\ [StoresNext]_storesVars => PickerInv'
<1> SUFFICES ASSUME StoresInv, PickerInv, [StoresNext]_storesVars PROVE PickerInv'
  OBVIOUS
<1>1. CASE \E c \in Callers : List(c)
  BY <1>1, ListShows
<1>2. CASE ToggleCwdFilter \/ PickerUp \/ PickerDown
  BY <1>2, MovesShow
<1>3. CASE UNCHANGED picker
  BY <1>3 DEF PickerInv, PickerShowsTable
<1>4. CASE \E c \in Callers : Begin(c) \/ Acquire(c) \/ Timeout(c) \/ StatementFails(c)
  BY <1>3, <1>4 DEF Begin, Acquire, Timeout, StatementFails
<1>5. CASE \E c \in Callers : Step(c)
  BY <1>1, <1>3, <1>5 DEF Step, Create, UpdateSummary, Delete, ResolveExact, ResolvePrefix, GetById,
                          CreateMemory, TouchOrUpdate, DeleteMemory, Query
<1>6. CASE Tick \/ UNCHANGED storesVars
  BY <1>3, <1>6 DEF Tick, storesVars
<1> QED
  BY <1>2, <1>4, <1>5, <1>6 DEF StoresNext

\* The session list shows the table as it was loaded, and in the order of the
\* times the rows were stored with though the table orders texts, for all times
\* the clock shows or callers of create give, any rows and any number of callers.
\* (thread-store: store.rs, create, list; tui: session_list.rs.)
THEOREM PickerIsTrue == StoresSpec => []PickerShowsTable
<1>1. StoresInit => PickerInv
  BY DEF StoresInit, PickerInv, PickerShowsTable
<1>2. PickerInv => PickerShowsTable
  BY DEF PickerInv
<1> QED
  BY <1>1, <1>2, StoresInvInit, StoresInvNext, PickerInvNext, PTL DEF StoresSpec

=============================================================================
