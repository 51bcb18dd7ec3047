------------------------------ MODULE SessionLog ------------------------------
(***************************************************************************)
(* One session's event log and the state rebuilt from it: the JSONL file   *)
(* written by RolloutWriter, repaired and replayed by RolloutReader, and   *)
(* the Orchestrator that appends an event and applies it to SessionState.  *)
(*                                                                         *)
(* A line is three tokens, so that a kill or a failed write may stop       *)
(* inside the JSON text or between the text and its newline:               *)
(*     <<head of e, rest of e, newline>>                                   *)
(* A handle is one open Orchestrator (in one process, or in several).      *)
(* Process death loses a handle's BufWriter; power loss also loses a       *)
(* suffix of what was not fsynced (the file system keeps a prefix).        *)
(***************************************************************************)
EXTENDS Naturals, SequencesExt

CONSTANTS
  Handles,   \* Orchestrator instances that may be open on the session
  Kinds,     \* event kinds callers emit
  NoEvent,   \* payload of the newline token
  MaxEmits   \* bound: calls of emit

AllKinds == {"SessionStarted", "MessageAdded", "ToolCall", "CheckpointCreated",
             "SessionPaused", "SessionResumed", "SessionEnded", "Unknown"}

ASSUME KindsAssumption == Kinds \subseteq AllKinds
ASSUME MaxEmitsAssumption == MaxEmits \in Nat

VARIABLES
  file,     \* contents of <session>.jsonl, in tokens
  synced,   \* length of the prefix known to be on disk
  mode,     \* where each handle is in open / emit
  cut,      \* length the repair of a handle's open decided on
  buf,      \* unwritten bytes of each handle's BufWriter
  event,    \* event each handle is emitting
  state,    \* SessionState of each handle
  emits,    \* emit calls so far; also names the next event
  acked,    \* history: events whose emit returned Ok, in that order
  durable,  \* history: acked at the last successful fsync
  damage    \* history: what went wrong so far, see Damage

handleVars == <<mode, cut, buf, event, state>>
history == <<acked, durable, damage>>
vars == <<file, synced, handleVars, emits, history>>

\* "io": an append returned an error.  "dropped": besides, what was left of its
\* line was forgotten.  "apply": an event was handed to append that the handle's
\* SessionState refuses, or that a replay refuses after the events in the log.
\* "torn": a log whose last event has lost its newline was opened.
Damage == {"io", "dropped", "apply", "torn"}

-----------------------------------------------------------------------------
(* Events, lines and the reducer *)

\* The payload of an event (ids, text, timestamps) is its number.
Event == [kind : AllKinds, n : 1 .. MaxEmits]

Newline == [part |-> "newline", of |-> NoEvent]
Zero == [part |-> "zero", of |-> NoEvent]
Line(e) == <<[part |-> "head", of |-> e], [part |-> "rest", of |-> e], Newline>>

\* Text that serde_json accepts: one whole event and nothing else.
IsEventText(text) ==
  /\ Len(text) = 2
  /\ text[1].part = "head"
  /\ text = SubSeq(Line(text[1].of), 1, 2)

NewState == [status |-> "New", started |-> 0, cwd |-> 0, messages |-> <<>>,
             checkpoint |-> 0, ended |-> 0, count |-> 0]

Applies(s, e) == ~(e.kind = "SessionStarted" /\ s.status = "Active")

\* Mutant: events are counted twice.
AppliedCountedTwice(s, e) ==
  LET t == [s EXCEPT !.count = @ + 2] IN
  IF e.kind = "MessageAdded" THEN [t EXCEPT !.messages = Append(@, e.n)] ELSE t

\* SessionState::apply on an event it accepts.
Applied(s, e) ==
  LET t == [s EXCEPT !.count = @ + 1] IN
  CASE e.kind = "SessionStarted" ->
         [t EXCEPT !.status = "Active", !.started = e.n, !.cwd = e.n]
    [] e.kind = "MessageAdded" -> [t EXCEPT !.messages = Append(@, e.n)]
    [] e.kind = "CheckpointCreated" -> [t EXCEPT !.checkpoint = e.n]
    [] e.kind = "SessionPaused" -> [t EXCEPT !.status = "Paused"]
    [] e.kind = "SessionResumed" -> [t EXCEPT !.status = "Active", !.cwd = e.n]
    [] e.kind = "SessionEnded" -> [t EXCEPT !.status = "Ended", !.ended = e.n]
    [] e.kind \in {"ToolCall", "Unknown"} -> t

-----------------------------------------------------------------------------
(* The reader *)

\* End of a line: blank lines are skipped, anything else must parse and apply.
EndLine(acc) ==
  LET text == acc.line
      e == text[1].of
  IN  IF ~acc.ok \/ text = <<>> THEN acc
      ELSE IF IsEventText(text) /\ Applies(acc.state, e)
           THEN [acc EXCEPT !.line = <<>>, !.state = Applied(@, e),
                            !.events = Append(@, e)]
           ELSE [acc EXCEPT !.ok = FALSE]

ReadToken(acc, token) ==
  IF token = Newline THEN EndLine(acc)
  ELSE [acc EXCEPT !.line = Append(@, token)]

\* What has been read after each number of tokens.
Reading(f) ==
  LET acc[n \in 0 .. Len(f)] ==
        IF n = 0
        THEN [ok |-> TRUE, line |-> <<>>, state |-> NewState, events |-> <<>>]
        ELSE ReadToken(acc[n - 1], f[n])
  IN  acc

\* Replaying a whole file; its last line may lack the newline.
Replay(f) == EndLine(Reading(f)[Len(f)])

LastNewline(f) == LET at == {i \in DOMAIN f : f[i] = Newline}
                  IN  IF at = {} THEN 0 ELSE Max(at)

\* Mutant: the tail is never cut.
NeverRepaired(f) == Len(f)

\* Length repair_truncated_tail leaves: an unterminated tail that is not JSON
\* goes, one that is JSON stays.
RepairedLength(f) ==
  IF IsEventText(SubSeq(f, LastNewline(f) + 1, Len(f))) THEN Len(f)
  ELSE LastNewline(f)

\* File::set_len: a longer length is filled with zeros.
SetLen(f, n) == [i \in 1 .. n |-> IF i <= Len(f) THEN f[i] ELSE Zero]

-----------------------------------------------------------------------------
Init ==
  /\ file = <<>>
  /\ synced = 0
  /\ mode = [h \in Handles |-> "closed"]
  /\ cut = [h \in Handles |-> 0]
  /\ buf = [h \in Handles |-> <<>>]
  /\ event = [h \in Handles |-> NoEvent]
  /\ state = [h \in Handles |-> NewState]
  /\ emits = 0
  /\ acked = <<>>
  /\ durable = <<>>
  /\ damage = {}

\* The handle is gone: closed, or its process dead.
Gone(h) ==
  /\ mode' = [mode EXCEPT ![h] = "closed"]
  /\ cut' = [cut EXCEPT ![h] = 0]
  /\ buf' = [buf EXCEPT ![h] = <<>>]
  /\ event' = [event EXCEPT ![h] = NoEvent]
  /\ state' = [state EXCEPT ![h] = NewState]

(* Orchestrator::open: read and judge the tail, cut it, replay. *)

OpenRead(h) ==
  /\ mode[h] = "closed"
  /\ cut' = [cut EXCEPT ![h] = RepairedLength(file)]
  /\ mode' = [mode EXCEPT ![h] =
                IF RepairedLength(file) = Len(file) THEN "repaired" ELSE "cutting"]
  /\ UNCHANGED <<file, synced, buf, event, state, emits, history>>

\* The file is cut to the length judged earlier, whatever it holds by now.
OpenCut(h) ==
  /\ mode[h] = "cutting"
  /\ file' = SetLen(file, cut[h])
  /\ synced' = IF synced > cut[h] THEN cut[h] ELSE synced
  /\ mode' = [mode EXCEPT ![h] = "repaired"]
  /\ UNCHANGED <<cut, buf, event, state, emits, history>>

\* Mutant: the log is not replayed into the new handle's state.
OpenWithoutReplay(h) ==
  /\ mode[h] = "repaired"
  /\ mode' = [mode EXCEPT ![h] = "idle"]
  /\ UNCHANGED <<file, synced, cut, buf, event, state, emits, history>>

OpenReplay(h) ==
  /\ mode[h] = "repaired"
  /\ LET r == Replay(file) IN
       IF r.ok
       THEN /\ mode' = [mode EXCEPT ![h] = "idle"]
            /\ state' = [state EXCEPT ![h] = r.state]
            /\ damage' = IF file # <<>> /\ Last(file) # Newline
                         THEN damage \cup {"torn"} ELSE damage
            /\ UNCHANGED <<cut, buf, event>>
       ELSE Gone(h) /\ UNCHANGED damage
  /\ UNCHANGED <<file, synced, emits, acked, durable>>

(* Orchestrator::emit: RolloutWriter::append, then SessionState::apply. *)

EmitBegin(h, k) ==
  /\ mode[h] = "idle"
  /\ emits < MaxEmits
  /\ emits' = emits + 1
  /\ LET e == [kind |-> k, n |-> emits + 1] IN
       /\ event' = [event EXCEPT ![h] = e]
       /\ buf' = [buf EXCEPT ![h] = @ \o Line(e)]
       /\ damage' = IF Applies(state[h], e) /\ Applies(Replay(file \o buf[h]).state, e)
                    THEN damage ELSE damage \cup {"apply"}
  /\ mode' = [mode EXCEPT ![h] = "emitting"]
  /\ UNCHANGED <<file, synced, cut, state, acked, durable>>

\* A write system call may take any part of what is left.
Write(h) ==
  /\ mode[h] = "emitting"
  /\ \E k \in 1 .. Len(buf[h]) :
       /\ file' = file \o SubSeq(buf[h], 1, k)
       /\ buf' = [buf EXCEPT ![h] = SubSeq(@, k + 1, Len(@))]
  /\ UNCHANGED <<synced, mode, cut, event, state, emits, history>>

\* Mutant: the writer starts afresh after an error.
AppendFailsAfresh(h) ==
  /\ mode[h] = "emitting"
  /\ buf[h] # <<>>
  /\ mode' = [mode EXCEPT ![h] = "idle"]
  /\ event' = [event EXCEPT ![h] = NoEvent]
  /\ damage' = damage \cup {"io"}
  /\ buf' = [buf EXCEPT ![h] = <<>>]
  /\ UNCHANGED <<file, synced, cut, state, emits, acked, durable>>

\* The append failed and the error went to the caller.  What had not been
\* written stays in the BufWriter; a line larger than the BufWriter was being
\* written past it and is forgotten, or was not taken at all when older bytes
\* could not be written first.
AppendFails(h) ==
  /\ mode[h] = "emitting"
  /\ buf[h] # <<>>
  /\ mode' = [mode EXCEPT ![h] = "idle"]
  /\ event' = [event EXCEPT ![h] = NoEvent]
  /\ LET own == Len(Line(event[h])) IN
       \/ /\ UNCHANGED buf
          /\ damage' = damage \cup {"io"}
       \/ /\ Len(buf[h]) <= own
          /\ buf' = [buf EXCEPT ![h] = <<>>]
          /\ damage' = damage \cup {"dropped"}
       \/ /\ Len(buf[h]) > own
          /\ buf' = [buf EXCEPT ![h] = SubSeq(@, 1, Len(@) - own)]
          /\ damage' = damage \cup {"io"}
  /\ UNCHANGED <<file, synced, cut, state, emits, acked, durable>>

\* Mutant: Ok is returned once the line is in the BufWriter.
EmitEndUnflushed(h) ==
  /\ mode[h] = "emitting"
  /\ Applies(state[h], event[h])
  /\ state' = [state EXCEPT ![h] = Applied(@, event[h])]
  /\ acked' = Append(acked, event[h])
  /\ mode' = [mode EXCEPT ![h] = "idle"]
  /\ event' = [event EXCEPT ![h] = NoEvent]
  /\ UNCHANGED <<file, synced, cut, buf, emits, durable, damage>>

EmitEnd(h) ==
  /\ mode[h] = "emitting"
  /\ buf[h] = <<>>
  /\ IF Applies(state[h], event[h])
     THEN /\ state' = [state EXCEPT ![h] = Applied(@, event[h])]
          /\ acked' = Append(acked, event[h])
     ELSE UNCHANGED <<state, acked>>
  /\ mode' = [mode EXCEPT ![h] = "idle"]
  /\ event' = [event EXCEPT ![h] = NoEvent]
  /\ UNCHANGED <<file, synced, cut, buf, emits, durable, damage>>

(* Orchestrator::flush, dropping the handle, and failures of the machine. *)

Flush(h) ==
  /\ mode[h] = "idle"
  /\ file' = file \o buf[h]
  /\ buf' = [buf EXCEPT ![h] = <<>>]
  /\ synced' = Len(file')
  /\ durable' = acked
  /\ UNCHANGED <<mode, cut, event, state, emits, acked, damage>>

\* Dropping the BufWriter writes what an earlier failure left in it.
Close(h) ==
  /\ mode[h] = "idle"
  /\ file' = file \o buf[h]
  /\ Gone(h)
  /\ UNCHANGED <<synced, emits, history>>

Crash(h) ==
  /\ mode[h] # "closed"
  /\ Gone(h)
  /\ UNCHANGED <<file, synced, emits, history>>

PowerLoss ==
  /\ \E n \in synced .. Len(file) : file' = SubSeq(file, 1, n)
  /\ synced' = Len(file')
  /\ mode' = [h \in Handles |-> "closed"]
  /\ cut' = [h \in Handles |-> 0]
  /\ buf' = [h \in Handles |-> <<>>]
  /\ event' = [h \in Handles |-> NoEvent]
  /\ state' = [h \in Handles |-> NewState]
  /\ acked' = durable
  /\ UNCHANGED <<emits, durable, damage>>

Next ==
  \/ \E h \in Handles :
       \/ OpenRead(h) \/ OpenCut(h) \/ OpenReplay(h)
       \/ \E k \in Kinds : EmitBegin(h, k)
       \/ Write(h) \/ AppendFails(h) \/ EmitEnd(h)
       \/ Flush(h) \/ Close(h) \/ Crash(h)
  \/ PowerLoss

Spec == Init /\ [][Next]_vars

-----------------------------------------------------------------------------
(* Properties *)

Token == [part : {"head", "rest"}, of : Event] \cup {Newline, Zero}

TypeOK ==
  /\ file \in Seq(Token)
  /\ synced \in 0 .. Len(file)
  /\ mode \in [Handles -> {"closed", "cutting", "repaired", "idle", "emitting"}]
  /\ cut \in [Handles -> Nat]
  /\ buf \in [Handles -> Seq(Token)]
  /\ event \in [Handles -> Event \cup {NoEvent}]
  /\ \A h \in Handles : state[h].count \in 0 .. MaxEmits
  /\ emits \in 0 .. MaxEmits
  /\ acked \in Seq(Event)
  /\ durable \in Seq(Event)
  /\ damage \subseteq Damage

IsSubsequence(s, t) ==
  \E at \in [DOMAIN s -> DOMAIN t] :
    \A i, j \in DOMAIN s : s[i] = t[at[i]] /\ (i < j => at[i] < at[j])

\* Until an emit has failed or a torn log was opened, an idle handle's state
\* is exactly what a restart would rebuild from the file.
\* (orchestrator.rs emit, open; reader.rs replay.)
StateMatchesLog ==
  damage = {} =>
    \A h \in Handles : mode[h] = "idle" =>
      Replay(file).ok /\ Replay(file).state = state[h]

\* Whatever instant a process dies or the power fails, the next open succeeds:
\* the repaired file parses and replays.  (reader.rs repair_truncated_tail.)
Reopenable ==
  damage = {} => Replay(SubSeq(file, 1, RepairedLength(file))).ok

\* Every event whose emit returned Ok is replayed by the next open, in order;
\* after a power loss this is owed for the events fsynced before it.
\* (writer.rs append, flush; reader.rs repair_truncated_tail.)
AckedSurvive ==
  damage = {} =>
    IsSubsequence(acked, Replay(SubSeq(file, 1, RepairedLength(file))).events)

\* An append that failed costs the log nothing but order among what failed:
\* what the BufWriter kept of its line is finished by a later write, so the log
\* still opens and has every event whose emit returned Ok, though the event of
\* the failed emit may be in it as well.  (writer.rs append, orchestrator.rs emit.)
FailedAppendsContained ==
  damage = {"io"} =>
    LET r == Replay(SubSeq(file, 1, RepairedLength(file)))
    IN  r.ok /\ IsSubsequence(acked, r.events)

-----------------------------------------------------------------------------
(* A statement of the crates' docs that the code does not keep *)

\* writer.rs: "an abnormal process termination leaves at most one partial line
\* on disk (which the reader will recover from on next open)".
KilledWriterRecovered ==
  damage \subseteq {"torn"} =>
    Replay(SubSeq(file, 1, RepairedLength(file))).ok
=============================================================================
