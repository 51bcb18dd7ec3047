---------------------------- MODULE ResponseProofs ----------------------------
(***************************************************************************)
(* Proofs about a turn's exchange with the model: the request body, the    *)
(* response that streams back, and the edits that are applied from it.     *)
(*                                                                         *)
(* The first part is about ProviderStream, for any messages, words, number *)
(* of blocks, chunk sizes and order of the server's events: types and      *)
(* recursive functions, the request body (TheConversationIsKept), what the *)
(* parser may lose and what it may not, the inductive invariant StreamInv, *)
(* its preservation by every step, and TheAnswerIsWhatWasSaid.             *)
(*                                                                         *)
(* The second part is about EditApply, for texts over any characters,      *)
(* files of any length and edits of any size: lines and windows of lines,  *)
(* the distances as numbers, the scan over the windows, find_block, and    *)
(* the theorems EditsLandOnTheBest and BlocksAreReadAsWritten.  Recursive  *)
(* functions first get the values their bodies say (the ...Steps lemmas,   *)
(* from RecursionExists).                                                  *)
(***************************************************************************)
EXTENDS ProviderStream, EditApply, NumberLemmas, FiniteSetTheorems, FunctionTheorems, SequenceTheorems, TLAPS

-----------------------------------------------------------------------------
(* ProviderStream: types.  The blocks the server has described are counted by
   n; what is on the way speaks of these. *)

Apis == {"anthropic", "openai", "ollama"}
Types == {"message", "text", "tool_use", "text_delta", "input_json_delta", "garbled"}
Names == {Empty, "garbled", "message", "content_block_start", "content_block_delta",
          "message_delta"}
Stops == {Empty, "Stop", "ToolUse"}
Ids == Nat \cup {NoId}
Fragments == Frags \cup {Empty}

Entries(n) ==
  {c \in [index : 1 .. n, args : Fragments, id : Ids] : c.id \in {NoId, c.index - 1}}

Events(n) ==
  {e \in [type : Types, index : 0 .. n, id : Ids, text : Texts \cup {Empty},
          args : Fragments, calls : Seq(Entries(n)), stop : Stops] :
     /\ e.type \in {"tool_use", "input_json_delta"} => e.index >= 1
     /\ e.type = "tool_use" => e.id = e.index - 1}

Symbols(n) ==
  [k : {"data", "first", "second"}, of : Events(n)] \cup [k : {"name"}, of : Names]
    \cup {Newline}

Buffer == [id : Ids, marker : BOOLEAN, args : Seq(Frags)]
Buffers(n) ==
  {b \in Seq(Buffer) : Len(b) <= n /\ \A i \in 1 .. Len(b) : b[i].id \in {NoId, i - 1}}

Assembled(n) == [text : Seq(Texts), buffers : Buffers(n), stop : Stops]

TextDeltas == [type : {"ContentDelta"}, text : Texts]
CallDeltas == [type : {"ToolCallDelta"}, id : Ids, args : Fragments]
Streamed == [type : {"MessageStart"}] \cup TextDeltas \cup CallDeltas

States(n) ==
  [rest : Seq(Symbols(n)), name : Names, data : Seq(Events(n)), asm : Assembled(n),
   sent : Seq(Streamed)]

\* A state with another response and other deltas.
With(st, asm1, sent1) ==
  [rest |-> st.rest, name |-> st.name, data |-> st.data, asm |-> asm1, sent |-> sent1]

\* To send one more delta.
LEMMA EmitWith ==
  ASSUME NEW st, NEW a, NEW s, NEW d
  PROVE  Emit(With(st, a, s), d) = With(st, a, Append(s, d))
BY DEF With, Emit

\* Typed parts make a typed state.
LEMMA WithIs ==
  ASSUME NEW n \in Nat, NEW st \in States(n), NEW asm1 \in Assembled(n),
         NEW sent1 \in Seq(Streamed)
  PROVE  With(st, asm1, sent1) \in States(n)
BY DEF States, With

\* With another list of buffers.
Buffered(asm1, b) == [text |-> asm1.text, buffers |-> b, stop |-> asm1.stop]

\* What text_delta does: nothing for an empty text, else the text is kept and sent.
LEMMA TextDeltaIs ==
  ASSUME NEW n \in Nat, NEW st \in States(n), NEW t \in Texts \cup {Empty}
  PROVE  /\ TextDelta(st, t) =
              IF t = Empty THEN st
              ELSE With(st, [text |-> Append(st.asm.text, t), buffers |-> st.asm.buffers,
                             stop |-> st.asm.stop],
                        Append(st.sent, [type |-> "ContentDelta", text |-> t]))
         /\ TextDelta(st, t) \in States(n)
<1>1. CASE t = Empty
  BY <1>1 DEF TextDelta
<1>2. CASE t # Empty
  <2>1. /\ st = With(st, st.asm, st.sent)
        /\ st.asm = [text |-> st.asm.text, buffers |-> st.asm.buffers, stop |-> st.asm.stop]
        /\ st.asm.text \in Seq(Texts) /\ st.asm \in Assembled(n) /\ st.sent \in Seq(Streamed)
    BY DEF States, With, Assembled
  <2>2. TextDelta(st, t) =
          With(st, [text |-> Append(st.asm.text, t), buffers |-> st.asm.buffers,
                    stop |-> st.asm.stop],
               Append(st.sent, [type |-> "ContentDelta", text |-> t]))
    BY <1>2, <2>1 DEF TextDelta, Emit, With
  <2>3. [text |-> Append(st.asm.text, t), buffers |-> st.asm.buffers,
         stop |-> st.asm.stop] \in Assembled(n)
    BY <1>2, <2>1 DEF Assembled
  <2>4. Append(st.sent, [type |-> "ContentDelta", text |-> t]) \in Seq(Streamed)
    BY <1>2, <2>1 DEF Streamed, TextDeltas
  <2> QED
    BY <1>2, <2>2, <2>3, <2>4, WithIs
<1> QED
  BY <1>1, <1>2

\* Buffers are added up to index i, and those there were stay.
LEMMA GrownIs ==
  ASSUME NEW n \in Nat, NEW b \in Buffers(n), NEW i \in 0 .. n
  PROVE  /\ Grown(b, i) \in Buffers(n)
         /\ Len(Grown(b, i)) = IF i > Len(b) THEN i ELSE Len(b)
         /\ \A j \in 1 .. Len(Grown(b, i)) :
              Grown(b, i)[j] = IF j <= Len(b) THEN b[j] ELSE NoBuffer
<1>1. b \in Seq(Buffer) /\ Len(b) \in Nat /\ Len(b) <= n
  BY DEF Buffers
<1>2. NoBuffer \in Buffer
  BY DEF NoBuffer, Buffer, Ids
<1>3. PICK more \in Nat : more = IF i > Len(b) THEN i - Len(b) ELSE 0
  <2>1. i > Len(b) => i - Len(b) \in Nat
    BY <1>1
  <2>2. (IF i > Len(b) THEN i - Len(b) ELSE 0) \in Nat
    BY <2>1
  <2> QED
    BY <2>2
<1>4. PICK a : a = [k \in 1 .. more |-> NoBuffer]
  OBVIOUS
<1>5. a \in Seq(Buffer) /\ Len(a) = more /\ \A k \in 1 .. more : a[k] = NoBuffer
  BY <1>2, <1>3, <1>4
<1>6. Grown(b, i) = b \o a
  BY <1>3, <1>4 DEF Grown
<1>7. /\ b \o a \in Seq(Buffer) /\ Len(b \o a) = Len(b) + more
      /\ \A j \in 1 .. Len(b \o a) : (b \o a)[j] = IF j <= Len(b) THEN b[j] ELSE NoBuffer
  <2>1. b \o a \in Seq(Buffer) /\ Len(b \o a) = Len(b) + Len(a)
    BY <1>1, <1>5
  <2>2. ASSUME NEW j \in 1 .. Len(b) + more
        PROVE  (b \o a)[j] = IF j <= Len(b) THEN b[j] ELSE NoBuffer
    BY <1>1, <1>3, <1>5, <2>2
  <2> QED
    BY <1>5, <2>1, <2>2
<1>8. Len(b \o a) = IF i > Len(b) THEN i ELSE Len(b)
  BY <1>1, <1>3, <1>7
<1>9. \A j \in 1 .. Len(b \o a) : (b \o a)[j].id \in {NoId, j - 1}
  BY <1>7 DEF Buffers, NoBuffer
<1>10. Len(b \o a) <= n
  BY <1>1, <1>8
<1>11. b \o a \in Buffers(n)
  BY <1>7, <1>9, <1>10 DEF Buffers
<1> HIDE DEF Grown
<1> QED
  BY <1>6, <1>7, <1>8, <1>11

\* One buffer is replaced.
LEMMA BufferSet ==
  ASSUME NEW n \in Nat, NEW b \in Buffers(n), NEW i \in 1 .. Len(b), NEW v \in Buffer,
         v.id \in {NoId, i - 1}
  PROVE  [b EXCEPT ![i] = v] \in Buffers(n) /\ Len([b EXCEPT ![i] = v]) = Len(b)
<1>1. b \in Seq(Buffer) /\ Len(b) \in Nat /\ Len(b) <= n
  BY DEF Buffers
<1>2. [b EXCEPT ![i] = v] \in Seq(Buffer) /\ Len([b EXCEPT ![i] = v]) = Len(b)
  BY <1>1
<1>3. \A j \in 1 .. Len(b) : [b EXCEPT ![i] = v][j] = IF j = i THEN v ELSE b[j]
  BY <1>1
<1> QED
  BY <1>1, <1>2, <1>3 DEF Buffers

\* A fragment of arguments is a sequence of at most one word.
LEMMA FragmentIs ==
  ASSUME NEW f \in Fragments PROVE Fragment(f) \in Seq(Frags)
BY DEF Fragment, Fragments

\* A state is made of its parts.
LEMMA StateParts ==
  ASSUME NEW n \in Nat, NEW st \in States(n)
  PROVE  /\ st = With(st, st.asm, st.sent)
         /\ st.asm = Buffered(st.asm, st.asm.buffers)
         /\ st.asm \in Assembled(n) /\ st.asm.text \in Seq(Texts)
         /\ st.asm.buffers \in Buffers(n) /\ st.asm.buffers \in Seq(Buffer)
         /\ Len(st.asm.buffers) \in Nat /\ Len(st.asm.buffers) <= n
         /\ st.sent \in Seq(Streamed) /\ st.asm.stop \in Stops
         /\ st.rest \in Seq(Symbols(n)) /\ st.name \in Names /\ st.data \in Seq(Events(n))
BY DEF States, With, Assembled, Buffered, Buffers

\* To set the buffers of a state.
LEMMA SetBuffers ==
  ASSUME NEW n \in Nat, NEW st \in States(n), NEW b
  PROVE  [st EXCEPT !.asm.buffers = b] = With(st, Buffered(st.asm, b), st.sent)
<1>1. PICK a : a = st.asm
  OBVIOUS
<1>2. [a EXCEPT !.buffers = b] = Buffered(a, b)
  BY <1>1 DEF States, Assembled, Buffered
<1>3. \A x : [st EXCEPT !.asm = x] = With(st, x, st.sent)
  BY SMTT(30) DEF States, With
<1> QED
  BY <1>1, <1>2, <1>3

\* Typed buffers make a typed response.
LEMMA BufferedIs ==
  ASSUME NEW n \in Nat, NEW a \in Assembled(n), NEW b \in Buffers(n)
  PROVE  Buffered(a, b) \in Assembled(n)
BY DEF Buffered, Assembled

\* What content_block_start leaves: the buffers grown, a tool's one set anew.
LEMMA BlockStartIs ==
  ASSUME NEW n \in Nat, NEW st \in States(n), NEW e \in Events(n)
  PROVE  LET g == Grown(st.asm.buffers, e.index)
             b == IF e.type = "tool_use"
                  THEN [g EXCEPT ![e.index] = [id |-> e.id, marker |-> TRUE, args |-> <<>>]]
                  ELSE g
         IN  /\ BlockStart(st, e) = With(st, Buffered(st.asm, b), st.sent)
             /\ b \in Buffers(n) /\ BlockStart(st, e) \in States(n)
<1> DEFINE g == Grown(st.asm.buffers, e.index)
           v == [id |-> e.id, marker |-> TRUE, args |-> <<>>]
           b == IF e.type = "tool_use" THEN [g EXCEPT ![e.index] = v] ELSE g
<1>1. /\ e.index \in 0 .. n /\ e.id \in Ids
      /\ e.type = "tool_use" => e.index >= 1 /\ e.id = e.index - 1
  BY DEF Events
<1>2. g \in Buffers(n) /\ Len(g) \in Nat /\ e.index <= Len(g)
  <2>1. g \in Buffers(n) /\ Len(g) = IF e.index > Len(st.asm.buffers) THEN e.index
                                     ELSE Len(st.asm.buffers)
    BY <1>1, StateParts, GrownIs
  <2> HIDE DEF g
  <2> QED
    BY <1>1, <2>1, StateParts DEF Buffers
<1>3. b \in Buffers(n)
  <2>1. CASE e.type = "tool_use"
    <3>1. v \in Buffer /\ v.id \in {NoId, e.index - 1} /\ e.index \in 1 .. Len(g)
      BY <1>1, <1>2, <2>1 DEF Buffer
    <3> HIDE DEF v, g
    <3>2. [g EXCEPT ![e.index] = v] \in Buffers(n)
      BY <1>2, <3>1, BufferSet
    <3> QED
      BY <2>1, <3>2
  <2>2. CASE e.type # "tool_use"
    BY <1>2, <2>2
  <2> QED
    BY <2>1, <2>2
<1>4. BlockStart(st, e) = With(st, Buffered(st.asm, b), st.sent)
  <2>1. CASE e.type = "tool_use"
    <3> HIDE DEF g, v
    <3>1. BlockStart(st, e) =
            [[st EXCEPT !.asm.buffers = g] EXCEPT !.asm.buffers[e.index] = v]
      BY <2>1 DEF BlockStart, g, v
    <3>2. [st EXCEPT !.asm.buffers = g] = With(st, Buffered(st.asm, g), st.sent)
      BY SetBuffers
    <3>3. [With(st, Buffered(st.asm, g), st.sent) EXCEPT !.asm.buffers[e.index] = v]
            = With(st, Buffered(st.asm, [g EXCEPT ![e.index] = v]), st.sent)
      BY DEF With, Buffered
    <3> QED
      BY <2>1, <3>1, <3>2, <3>3
  <2>2. CASE e.type # "tool_use"
    <3> HIDE DEF g, v
    <3>1. BlockStart(st, e) = [st EXCEPT !.asm.buffers = g]
      BY <2>2 DEF BlockStart, g
    <3>2. [st EXCEPT !.asm.buffers = g] = With(st, Buffered(st.asm, g), st.sent)
      BY SetBuffers
    <3> QED
      BY <2>2, <3>1, <3>2
  <2> QED
    BY <2>1, <2>2
<1>5. BlockStart(st, e) \in States(n)
  <2> HIDE DEF b
  <2> QED
    BY <1>3, <1>4, StateParts, BufferedIs, WithIs
<1> QED
  BY <1>3, <1>4, <1>5

\* What input_json_delta leaves: its fragment in a buffer that is there, or nothing.
LEMMA ArgsDeltaIs ==
  ASSUME NEW n \in Nat, NEW st \in States(n), NEW e \in Events(n),
         e.type = "input_json_delta"
  PROVE  LET b == st.asm.buffers
             i == e.index
             v == [id |-> NoId, marker |-> FALSE, args |-> b[i].args \o Fragment(e.args)]
             d == Delta(IF b[i].marker THEN b[i].id ELSE NoId, e.args)
         IN  /\ ArgsDelta(st, e) =
                  IF i > Len(b) THEN st
                  ELSE With(st, Buffered(st.asm, [b EXCEPT ![i] = v]), Append(st.sent, d))
             /\ i \in 1 .. n /\ i <= Len(b) => [b EXCEPT ![i] = v] \in Buffers(n) /\ d \in Streamed
             /\ ArgsDelta(st, e) \in States(n)
<1> DEFINE b == st.asm.buffers
           i == e.index
           v == [id |-> NoId, marker |-> FALSE, args |-> b[i].args \o Fragment(e.args)]
           d == Delta(IF b[i].marker THEN b[i].id ELSE NoId, e.args)
<1>1. i \in 1 .. n /\ e.args \in Fragments
  BY DEF Events
<1>2. ArgsDelta(st, e) =
        IF i > Len(b) THEN st
        ELSE With(st, Buffered(st.asm, [b EXCEPT ![i] = v]), Append(st.sent, d))
  <2>1. CASE i > Len(b)
    BY <2>1 DEF ArgsDelta
  <2>2. CASE ~(i > Len(b))
    <3> HIDE DEF v, d
    <3>1. ArgsDelta(st, e) = Emit([st EXCEPT !.asm.buffers[i] = v], d)
      BY <2>2 DEF ArgsDelta, v, d
    <3>2. [st EXCEPT !.asm.buffers[i] = v] = With(st, Buffered(st.asm, [b EXCEPT ![i] = v]), st.sent)
      BY SetBuffers
    <3>3. Emit(With(st, Buffered(st.asm, [b EXCEPT ![i] = v]), st.sent), d)
            = With(st, Buffered(st.asm, [b EXCEPT ![i] = v]), Append(st.sent, d))
      BY EmitWith
    <3> QED
      BY <2>2, <3>1, <3>2, <3>3
  <2> QED
    BY <2>1, <2>2
<1>3. ASSUME i <= Len(b) PROVE [b EXCEPT ![i] = v] \in Buffers(n) /\ d \in Streamed
  <2>1. i \in 1 .. Len(b) /\ b[i] \in Buffer
    BY <1>1, <1>3, StateParts
  <2>2. v \in Buffer /\ v.id \in {NoId, i - 1}
    <3>1. b[i].args \in Seq(Frags) /\ Fragment(e.args) \in Seq(Frags)
      BY <1>1, <2>1, FragmentIs DEF Buffer
    <3>2. b[i].args \o Fragment(e.args) \in Seq(Frags)
      BY <3>1
    <3> QED
      BY <3>2 DEF Buffer, Ids
  <2>3. d \in Streamed
    BY <1>1, <2>1 DEF Streamed, CallDeltas, Delta, Buffer, Ids
  <2> HIDE DEF v, d
  <2>4. [b EXCEPT ![i] = v] \in Buffers(n)
    BY <2>1, <2>2, StateParts, BufferSet
  <2> QED
    BY <2>3, <2>4
<1>4. ArgsDelta(st, e) \in States(n)
  <2>1. CASE i > Len(b)
    BY <1>2, <2>1
  <2>2. CASE ~(i > Len(b))
    <3>1. i <= Len(b)
      BY <1>1, <2>2, StateParts
    <3> HIDE DEF v, d
    <3>2. Append(st.sent, d) \in Seq(Streamed)
      BY <1>3, <3>1, StateParts
    <3>3. Buffered(st.asm, [b EXCEPT ![i] = v]) \in Assembled(n)
      BY <1>3, <3>1, StateParts, BufferedIs
    <3>4. With(st, Buffered(st.asm, [b EXCEPT ![i] = v]), Append(st.sent, d)) \in States(n)
      BY <3>2, <3>3, WithIs
    <3> QED
      BY <1>2, <2>2, <3>4
  <2> QED
    BY <2>1, <2>2
<1> HIDE DEF v, d
<1>5. i \in 1 .. n /\ i <= Len(b) => [b EXCEPT ![i] = v] \in Buffers(n) /\ d \in Streamed
  BY <1>3
<1> QED
  BY <1>2, <1>4, <1>5 DEF v, d

\* What the first entry of tool_calls leaves: its fragment in its buffer, and a delta.
LEMMA CallDeltaIs ==
  ASSUME NEW n \in Nat, NEW st \in States(n), NEW c \in Entries(n)
  PROVE  LET g == Grown(st.asm.buffers, c.index)
             i == c.index
             id == IF c.id = NoId THEN g[i].id ELSE c.id
             v == [id |-> id, marker |-> g[i].marker, args |-> g[i].args \o Fragment(c.args)]
         IN  /\ CallDelta(st, c) =
                  With(st, Buffered(st.asm, [g EXCEPT ![i] = v]), Append(st.sent, Delta(id, c.args)))
             /\ i \in 1 .. n /\ g \in Buffers(n) /\ i \in 1 .. Len(g) /\ g[i] \in Buffer
             /\ [g EXCEPT ![i] = v] \in Buffers(n) /\ Delta(id, c.args) \in Streamed
             /\ CallDelta(st, c) \in States(n)
<1> DEFINE g == Grown(st.asm.buffers, c.index)
           i == c.index
           id == IF c.id = NoId THEN g[i].id ELSE c.id
           v == [id |-> id, marker |-> g[i].marker, args |-> g[i].args \o Fragment(c.args)]
           d == Delta(id, c.args)
<1>1. i \in 1 .. n /\ c.args \in Fragments /\ c.id \in Ids /\ c.id \in {NoId, i - 1}
  BY DEF Entries
<1>2. g \in Buffers(n) /\ i \in 1 .. Len(g) /\ g[i] \in Buffer /\ g[i].id \in {NoId, i - 1}
  <2>1. g \in Buffers(n) /\ Len(g) = IF i > Len(st.asm.buffers) THEN i
                                     ELSE Len(st.asm.buffers)
    <3>1. PICK b, k : b = st.asm.buffers /\ k = i
      OBVIOUS
    <3>2. b \in Buffers(n) /\ k \in 0 .. n
      BY <1>1, <3>1, StateParts
    <3>3. Grown(b, k) \in Buffers(n) /\ Len(Grown(b, k)) = IF k > Len(b) THEN k ELSE Len(b)
      BY <3>2, GrownIs
    <3> QED
      BY <3>1, <3>3
  <2> HIDE DEF g
  <2>2. i \in 1 .. Len(g)
    BY <1>1, <2>1, StateParts
  <2> QED
    BY <2>1, <2>2 DEF Buffers
<1>3. id \in Ids /\ id \in {NoId, i - 1}
  BY <1>1, <1>2 DEF Buffer
<1>4. v \in Buffer /\ v.id \in {NoId, i - 1}
  <2> HIDE DEF g, id
  <2>1. g[i].args \in Seq(Frags) /\ Fragment(c.args) \in Seq(Frags)
    BY <1>1, <1>2, FragmentIs DEF Buffer
  <2>2. g[i].args \o Fragment(c.args) \in Seq(Frags)
    BY <2>1
  <2> QED
    BY <1>2, <1>3, <2>2 DEF Buffer
<1>5. d \in Streamed
  <2> HIDE DEF id
  <2> QED
    BY <1>1, <1>3 DEF Streamed, CallDeltas, Delta
<1>6. CallDelta(st, c) = With(st, Buffered(st.asm, [g EXCEPT ![i] = v]), Append(st.sent, d))
  <2> DEFINE b == [g EXCEPT ![i] = v]
  <2>1. CallDelta(st, c) = Emit([st EXCEPT !.asm.buffers = b], d)
    BY DEF CallDelta
  <2> HIDE DEF b, d
  <2>2. [st EXCEPT !.asm.buffers = b] = With(st, Buffered(st.asm, b), st.sent)
    BY SetBuffers
  <2>3. Emit(With(st, Buffered(st.asm, b), st.sent), d)
          = With(st, Buffered(st.asm, b), Append(st.sent, d))
    BY EmitWith
  <2> QED
    BY <2>1, <2>2, <2>3 DEF b
<1> HIDE DEF g, v, d
<1>7. [g EXCEPT ![i] = v] \in Buffers(n)
  BY <1>2, <1>4, BufferSet
<1>8. CallDelta(st, c) \in States(n)
  <2>1. Append(st.sent, d) \in Seq(Streamed)
    BY <1>5, StateParts
  <2>2. Buffered(st.asm, [g EXCEPT ![i] = v]) \in Assembled(n)
    BY <1>7, StateParts, BufferedIs
  <2> QED
    BY <1>6, <2>1, <2>2, WithIs
<1> QED
  BY <1>1, <1>2, <1>5, <1>6, <1>7, <1>8 DEF g, v, d

\* The same with another reason to stop.
StoppedBy(a, s) == [text |-> a.text, buffers |-> a.buffers, stop |-> s]

\* What a reason to stop leaves.
LEMMA SetStop ==
  ASSUME NEW n \in Nat, NEW st \in States(n), NEW s \in Stops
  PROVE  /\ [st EXCEPT !.asm.stop = s] = With(st, StoppedBy(st.asm, s), st.sent)
         /\ [st EXCEPT !.asm.stop = s] \in States(n)
<1>1. PICK a : a = st.asm
  OBVIOUS
<1>2. [a EXCEPT !.stop = s] = StoppedBy(a, s)
  BY <1>1 DEF States, Assembled, StoppedBy
<1>3. \A x : [st EXCEPT !.asm = x] = With(st, x, st.sent)
  BY SMTT(30) DEF States, With
<1>4. [st EXCEPT !.asm.stop = s] = With(st, StoppedBy(st.asm, s), st.sent)
  BY <1>1, <1>2, <1>3
<1>5. StoppedBy(st.asm, s) \in Assembled(n)
  BY StateParts DEF StoppedBy, Assembled
<1> QED
  BY <1>4, <1>5, StateParts, WithIs

\* The fields of an event.
LEMMA EventIs ==
  ASSUME NEW n \in Nat, NEW e \in Events(n)
  PROVE  /\ e.type \in Types /\ e.index \in 0 .. n /\ e.index \in Nat /\ e.id \in Ids
         /\ e.text \in Texts \cup {Empty} /\ e.args \in Fragments
         /\ e.calls \in Seq(Entries(n)) /\ e.stop \in Stops
         /\ e.calls # <<>> => Head(e.calls) \in Entries(n)
BY DEF Events

\* The Anthropic decoder keeps the types.
LEMMA DecodeAnthropicTyped ==
  ASSUME NEW n \in Nat, NEW st \in States(n), NEW name \in Names, NEW e \in Events(n)
  PROVE  DecodeAnthropic(st, name, e) \in States(n)
<1>1. CASE name = "content_block_start"
  BY <1>1, BlockStartIs DEF DecodeAnthropic
<1>2. CASE name = "content_block_delta" /\ e.type = "text_delta"
  BY <1>2, EventIs, TextDeltaIs DEF DecodeAnthropic
<1>3. CASE name = "content_block_delta" /\ e.type = "input_json_delta"
  BY <1>3, ArgsDeltaIs DEF DecodeAnthropic
<1>4. CASE name = "message_delta" /\ e.stop # Empty
  BY <1>4, EventIs, SetStop DEF DecodeAnthropic
<1>5. CASE /\ name # "content_block_start"
           /\ ~(name = "content_block_delta" /\ e.type = "text_delta")
           /\ ~(name = "content_block_delta" /\ e.type = "input_json_delta")
           /\ ~(name = "message_delta" /\ e.stop # Empty)
  BY <1>5 DEF DecodeAnthropic
<1> QED
  BY <1>1, <1>2, <1>3, <1>4, <1>5

\* So does the one of OpenAI.
LEMMA DecodeOpenAiTyped ==
  ASSUME NEW n \in Nat, NEW st \in States(n), NEW e \in Events(n)
  PROVE  DecodeOpenAi(st, e) \in States(n)
<1>1. CASE e.text # Empty
  BY <1>1, EventIs, TextDeltaIs DEF DecodeOpenAi
<1>2. CASE e.text = Empty /\ e.calls # <<>>
  BY <1>2, EventIs, CallDeltaIs DEF DecodeOpenAi
<1>3. CASE e.text = Empty /\ e.calls = <<>> /\ e.stop # Empty
  BY <1>3, EventIs, SetStop DEF DecodeOpenAi
<1>4. CASE e.text = Empty /\ e.calls = <<>> /\ e.stop = Empty
  BY <1>4 DEF DecodeOpenAi
<1> QED
  BY <1>1, <1>2, <1>3, <1>4

\* And the dispatch of a whole event, whatever was read of it.
LEMMA DecodeTyped ==
  ASSUME NEW n \in Nat, NEW api, NEW st \in States(n), NEW name \in Names,
         NEW data \in Seq(Events(n))
  PROVE  Decode(api, st, name, data) \in States(n)
<1>1. Len(data) = 1 => Head(data) \in Events(n)
  <2>1. Len(data) = 1 => data # <<>>
    OBVIOUS
  <2> QED
    BY <2>1
<1> QED
  BY <1>1, DecodeAnthropicTyped, DecodeOpenAiTyped DEF Decode

\* The fields of a symbol on the wire.
LEMMA SymbolIs ==
  ASSUME NEW n \in Nat, NEW x \in Symbols(n)
  PROVE  /\ x = [k |-> x.k, of |-> x.of]
         /\ x.k \in {"data", "first", "second", "name", "newline"}
         /\ x.k \in {"data", "first", "second"} => x.of \in Events(n)
         /\ x.k = "name" => x.of \in Names
         /\ x = Newline <=> x.k = "newline"
BY DEF Symbols, Newline

\* What cannot be parsed is an event that brings nothing.
LEMMA GarbledIs ==
  ASSUME NEW n \in Nat PROVE Garbled \in Events(n) /\ Event \in Events(n)
<1>1. /\ "message" \in Types /\ "garbled" \in Types /\ Empty \in Stops
      /\ <<>> \in Seq(Entries(n)) /\ 0 \in 0 .. n /\ NoId \in Ids /\ Empty \in Fragments
  BY DEF Types, Stops, Ids, Fragments
<1>2. Garbled = [type |-> "garbled", index |-> 0, id |-> NoId, text |-> Empty,
                 args |-> Empty, calls |-> <<>>, stop |-> Empty]
  BY DEF Garbled, Event
<1> QED
  BY <1>1, <1>2 DEF Event, Events

\* A line of data gives an event.
LEMMA PayloadIs ==
  ASSUME NEW n \in Nat, NEW line \in Seq(Symbols(n)) PROVE Payload(line) \in Events(n)
<1>1. CASE /\ \/ Len(line) = 1 /\ line[1].k = "data"
              \/ Len(line) = 2 /\ line[1].k = "first" /\ line[2] = Half("second", line[1].of)
  <2>1. line[1] \in Symbols(n)
    BY <1>1
  <2>2. line[1].of \in Events(n)
    BY <1>1, <2>1, SymbolIs
  <2> QED
    BY <1>1, <2>2 DEF Payload
<1>2. CASE ~(\/ Len(line) = 1 /\ line[1].k = "data"
             \/ Len(line) = 2 /\ line[1].k = "first" /\ line[2] = Half("second", line[1].of))
  BY <1>2, GarbledIs DEF Payload
<1> QED
  BY <1>1, <1>2

\* A line read keeps the types.
LEMMA TakeLineTyped ==
  ASSUME NEW n \in Nat, NEW api, NEW st \in States(n), NEW line \in Seq(Symbols(n))
  PROVE  TakeLine(api, st, line) \in States(n)
<1>1. CASE api = "ollama"
  <2>1. Payload(line).text \in Texts \cup {Empty}
    BY PayloadIs, EventIs
  <2> QED
    BY <1>1, <2>1, TextDeltaIs DEF TakeLine, TakeJsonLine
<1>2. CASE api # "ollama" /\ line = <<>>
  <2>1. PICK s \in States(n) : s = Decode(api, st, st.name, st.data)
    BY DecodeTyped, StateParts
  <2>2. [s EXCEPT !.name = Empty, !.data = <<>>] \in States(n)
    <3>1. Empty \in Names /\ <<>> \in Seq(Events(n))
      BY DEF Names
    <3>2. \A f \in Names, d \in Seq(Events(n)) : [s EXCEPT !.name = f, !.data = d] \in States(n)
      BY DEF States
    <3> QED
      BY <3>1, <3>2
  <2> QED
    BY <1>2, <2>1, <2>2 DEF TakeLine, TakeSseLine
<1>3. CASE api # "ollama" /\ line # <<>> /\ line[1].k = "name"
  <2>1. line[1] \in Symbols(n)
    BY <1>3
  <2>2. FieldName(line) \in Names
    <3>1. line[1].of \in Names /\ "garbled" \in Names
      BY <1>3, <2>1, SymbolIs DEF Names
    <3> QED
      BY <3>1 DEF FieldName
  <2>3. \A f \in Names : [st EXCEPT !.name = f] \in States(n)
    BY DEF States
  <2> QED
    BY <1>3, <2>2, <2>3 DEF TakeLine, TakeSseLine
<1>4. CASE api # "ollama" /\ line # <<>> /\ ~(line[1].k = "name")
  <2>1. Append(st.data, Payload(line)) \in Seq(Events(n))
    BY PayloadIs, StateParts
  <2>2. \A d \in Seq(Events(n)) : [st EXCEPT !.data = d] \in States(n)
    BY DEF States
  <2>3. TakeLine(api, st, line) = [st EXCEPT !.data = Append(st.data, Payload(line))]
    BY <1>4 DEF TakeLine, TakeSseLine
  <2> QED
    BY <2>1, <2>2, <2>3
<1> QED
  BY <1>1, <1>2, <1>3, <1>4

\* A symbol read keeps the types.
LEMMA ReadTyped ==
  ASSUME NEW n \in Nat, NEW api, NEW st \in States(n), NEW x \in Symbols(n)
  PROVE  Read(api, st, x) \in States(n)
<1>1. CASE x = Newline
  <2>1. PICK s \in States(n) : s = TakeLine(api, st, st.rest)
    BY TakeLineTyped, StateParts
  <2>2. \A r \in Seq(Symbols(n)) : [s EXCEPT !.rest = r] \in States(n)
    BY DEF States
  <2>3. <<>> \in Seq(Symbols(n))
    OBVIOUS
  <2> QED
    BY <1>1, <2>1, <2>2, <2>3 DEF Read
<1>2. CASE x # Newline
  <2>1. Append(st.rest, x) \in Seq(Symbols(n))
    BY StateParts
  <2>2. \A r \in Seq(Symbols(n)) : [st EXCEPT !.rest = r] \in States(n)
    BY DEF States
  <2>3. Read(api, st, x) = [st EXCEPT !.rest = Append(st.rest, x)]
    BY <1>2 DEF Read
  <2> QED
    BY <2>1, <2>2, <2>3
<1> QED
  BY <1>1, <1>2

-----------------------------------------------------------------------------
(* ProviderStream: recursive functions.  Each has the values its body says, and
   takes one step more for one element more. *)

\* What a symbol brings for the text (p = 0) or the arguments of block p.
PartOf(p, e) ==
  IF p = 0 THEN Fragment(e.text)
  ELSE (IF e.index = p THEN Fragment(e.args) ELSE <<>>)
         \o (IF e.calls # <<>> /\ Head(e.calls).index = p THEN Fragment(Head(e.calls).args)
             ELSE <<>>)
Weight(p, x) == IF x.k \in {"data", "second"} THEN PartOf(p, x.of) ELSE <<>>

\* What some symbols bring.
Flow(p, symbols) ==
  LET upTo[n \in 0..Len(symbols)] ==
        IF n = 0 THEN <<>> ELSE upTo[n - 1] \o Weight(p, symbols[n])
  IN  upTo[Len(symbols)]

Pieces == Texts \cup Frags

\* A fragment brings itself, or nothing.
LEMMA FragmentTyped ==
  ASSUME NEW S, NEW f \in S \cup {Empty} PROVE Fragment(f) \in Seq(S)
BY DEF Fragment

\* What an event brings of part p.
LEMMA PartIs ==
  ASSUME NEW n \in Nat, NEW p \in Nat, NEW e \in Events(n)
  PROVE  PartOf(p, e) \in Seq(Pieces)
<1>1. ASSUME NEW f \in Texts \cup {Empty} PROVE Fragment(f) \in Seq(Pieces)
  <2>1. f \in Pieces \cup {Empty}
    BY DEF Pieces
  <2> QED
    BY <2>1, FragmentTyped
<1>2. ASSUME NEW f \in Fragments PROVE Fragment(f) \in Seq(Pieces)
  <2>1. f \in Pieces \cup {Empty}
    BY DEF Pieces, Fragments
  <2> QED
    BY <2>1, FragmentTyped
<1>3. <<>> \in Seq(Pieces)
  OBVIOUS
<1>4. e.calls # <<>> => Head(e.calls).args \in Fragments
  BY EventIs DEF Entries
<1>5. PICK a, b : /\ a = IF e.index = p THEN Fragment(e.args) ELSE <<>>
                  /\ b = IF e.calls # <<>> /\ Head(e.calls).index = p
                         THEN Fragment(Head(e.calls).args) ELSE <<>>
  OBVIOUS
<1>6. a \in Seq(Pieces) /\ b \in Seq(Pieces)
  BY <1>2, <1>3, <1>4, <1>5, EventIs
<1>7. a \o b \in Seq(Pieces)
  BY <1>6
<1> QED
  BY <1>1, <1>5, <1>7, EventIs DEF PartOf

\* What a symbol brings of part p.
LEMMA WeightIs ==
  ASSUME NEW n \in Nat, NEW p \in Nat, NEW x \in Symbols(n)
  PROVE  Weight(p, x) \in Seq(Pieces)
<1>1. <<>> \in Seq(Pieces)
  OBVIOUS
<1> QED
  BY <1>1, PartIs, SymbolIs DEF Weight

\* What CapturingStreamSink holds.
Captures == [text : Seq(Texts), calls : Seq([id : Ids, args : Seq(Frags)])]

\* The sink keeps the types of what it captured.
LEMMA SinkSendTyped ==
  ASSUME NEW k \in Captures, NEW e, e \in Streamed \/ e.type = "MessageStop"
  PROVE  SinkSend(k, e) \in Captures
<1>1. CASE e.type # "ContentDelta" /\ e.type # "ToolCallDelta"
  BY <1>1 DEF SinkSend
<1>2. CASE e.type = "ContentDelta"
  <2>1. e.text \in Texts
    BY <1>2 DEF Streamed, TextDeltas, CallDeltas
  <2>2. Append(k.text, e.text) \in Seq(Texts)
    BY <2>1 DEF Captures
  <2>3. \A t \in Seq(Texts) : [k EXCEPT !.text = t] \in Captures
    BY DEF Captures
  <2>4. SinkSend(k, e) = [k EXCEPT !.text = Append(k.text, e.text)]
    BY <1>2 DEF SinkSend
  <2> QED
    BY <2>2, <2>3, <2>4
<1>3. CASE e.type = "ToolCallDelta"
  <2>1. e.id \in Ids /\ e.args \in Fragments
    BY <1>3 DEF Streamed, TextDeltas, CallDeltas
  <2> DEFINE known == {i \in DOMAIN k.calls : k.calls[i].id = e.id}
             calls == IF e.id # NoId /\ known = {}
                      THEN Append(k.calls, [id |-> e.id, args |-> <<>>]) ELSE k.calls
             i == IF e.id # NoId /\ known # {} THEN Min(known) ELSE Len(calls)
             Call == [id : Ids, args : Seq(Frags)]
             more == [calls EXCEPT ![i].args = calls[i].args \o Fragment(e.args)]
  <2>2. SinkSend(k, e) = IF i = 0 THEN k ELSE [k EXCEPT !.calls = more]
    BY <1>3 DEF SinkSend
  <2>3. k.calls \in Seq(Call) /\ Len(k.calls) \in Nat /\ DOMAIN k.calls = 1 .. Len(k.calls)
    BY DEF Captures
  <2>4. calls \in Seq(Call) /\ Len(calls) \in Nat
    <3>1. [id |-> e.id, args |-> <<>>] \in Call
      BY <2>1
    <3> HIDE DEF Call, known
    <3> QED
      BY <2>3, <3>1
  <2>5. i \in 0 .. Len(calls)
    <3>1. CASE e.id # NoId /\ known # {}
      <4>1. known \subseteq Nat
        BY <2>3
      <4>2. Min(known) \in known
        <5> HIDE DEF known
        <5> QED
          BY <3>1, <4>1, LeastIsMin
      <4> QED
        BY <2>3, <3>1, <4>2
    <3>2. CASE ~(e.id # NoId /\ known # {})
      <4> HIDE DEF known, calls
      <4> QED
        BY <2>4, <3>2
    <3> QED
      BY <3>1, <3>2
  <2>6. i # 0 => more \in Seq(Call)
    <3> SUFFICES ASSUME i # 0 PROVE more \in Seq(Call)
      OBVIOUS
    <3> HIDE DEF i, calls
    <3>1. i \in 1 .. Len(calls) /\ calls[i] \in Call
      <4> HIDE DEF Call
      <4> QED
        BY <2>4, <2>5
    <3>2. Fragment(e.args) \in Seq(Frags)
      BY <2>1, FragmentIs
    <3>3. calls[i].args \o Fragment(e.args) \in Seq(Frags)
      BY <3>1, <3>2
    <3>4. PICK c : c = [calls[i] EXCEPT !.args = calls[i].args \o Fragment(e.args)]
      OBVIOUS
    <3>5. c \in Call
      BY <3>1, <3>3, <3>4
    <3>6. more = [calls EXCEPT ![i] = c]
      BY <3>4
    <3> HIDE DEF Call, more
    <3> QED
      BY <2>4, <3>1, <3>5, <3>6
  <2>7. \A c \in Seq(Call) : [k EXCEPT !.calls = c] \in Captures
    BY DEF Captures
  <2> HIDE DEF i, more, Call
  <2> QED
    BY <2>2, <2>6, <2>7
<1> QED
  BY <1>1, <1>2, <1>3

\* The elements chosen so far.
ChosenRun(s, I, V, g) ==
  /\ g \in [0 .. Len(s) -> V]
  /\ Chosen(s, I) = g[Len(s)] /\ g[0] = <<>>
  /\ \A n \in 1 .. Len(s) : g[n] = IF n \in I THEN Append(g[n - 1], s[n]) ELSE g[n - 1]

\* The elements chosen so far.
LEMMA ChosenSteps ==
  ASSUME NEW V,
         NEW s \in Seq(V),
         NEW I
  PROVE  \E g : ChosenRun(s, I, Seq(V), g)
<1> DEFINE k == Len(s)
           S == Seq(V)
           step(n, x) == IF n \in I THEN Append(x, s[n]) ELSE x
           next == [n \in 1 .. k |-> [x \in S |-> step(n, x)]]
           Fits(f) == f = [n \in 0 .. k |-> CASE n = 0 -> <<>> [] n # 0 /\ n \in I -> Append(f[n - 1], s[n])
                  [] OTHER -> f[n - 1]]
<1>1. k \in Nat /\ <<>> \in S
  OBVIOUS
<1>2. \A n \in 1 .. k, x \in S : step(n, x) \in S
  OBVIOUS
<1>3. Chosen(s, I) = (CHOOSE f : Fits(f))[k]
  BY DEF Chosen
<1>4. next \in [1 .. k -> [S -> S]] /\ \A n \in 1 .. k, x \in S : next[n][x] = step(n, x)
  <2> HIDE DEF k, S, step
  <2> QED
    BY <1>2
<1>5. PICK g \in [0 .. k -> S] : g[0] = <<>> /\ \A n \in 1 .. k : g[n] = step(n, g[n - 1])
  <2> HIDE DEF step, k, S, next
  <2>1. PICK g : Recursion(g, k, S, <<>>, next)
    BY <1>1, <1>4, RecursionExists
  <2>2. \A n \in 1 .. k : n - 1 \in 0 .. k
    BY <1>1
  <2> QED
    BY <1>4, <2>1, <2>2 DEF Recursion
<1>6. Fits(g)
  <2> DEFINE value(n) == CASE n = 0 -> <<>> [] n # 0 /\ n \in I -> Append(g[n - 1], s[n])
                  [] OTHER -> g[n - 1]
  <2>1. \A n \in 0 .. k : n = 0 \/ (n # 0 /\ n \in 1 .. k)
    BY <1>1
  <2>2. \A n \in 0 .. k : g[n] = value(n)
    <3> HIDE DEF k, S
    <3> QED
      BY <1>5, <2>1
  <2>3. g = [n \in 0 .. k |-> value(n)]
    <3> HIDE DEF value, k, S
    <3> QED
      BY <1>5, <2>2
  <2> QED
    BY <2>3
<1>7. PICK f : f = CHOOSE h : Fits(h)
  OBVIOUS
<1>8. Fits(f)
  <2> HIDE DEF Fits
  <2> QED
    BY <1>6, <1>7
<1>9. f[0] = <<>> /\ \A n \in 1 .. k : f[n] = step(n, f[n - 1])
  <2>1. \A n \in 1 .. k : n # 0 /\ n \in 0 .. k
    BY <1>1
  <2>2. 0 \in 0 .. k
    BY <1>1
  <2> HIDE DEF k, S
  <2> QED
    BY <1>8, <2>1, <2>2
<1>10. f[k] = g[k]
  <2> HIDE DEF step, next, k, S, Fits
  <2>0. k \in Nat /\ <<>> \in S /\ next \in [1 .. k -> [S -> S]]
    BY <1>1, <1>4
  <2>1. Stepwise(f, k, S, <<>>, next)
    BY <1>4, <1>9 DEF Stepwise
  <2>2. Stepwise(g, k, S, <<>>, next)
    BY <1>4, <1>5 DEF Stepwise
  <2>3. Agree(f, g, k, S)
    BY <2>0, <2>1, <2>2, SameRecursion
  <2> QED
    BY <1>1, <2>3 DEF Agree
<1> QED
  BY <1>3, <1>5, <1>7, <1>10 DEF k, S, ChosenRun

\* One element more.
LEMMA ChosenAppend ==
  ASSUME NEW V,
         NEW s \in Seq(V),
         NEW I,
         NEW x \in V
  PROVE  Chosen(s, I) \in Seq(V) /\ Chosen(Append(s, x), I) = IF Len(s) + 1 \in I THEN Append(Chosen(s, I), x) ELSE Chosen(s, I)
<1> DEFINE k == Len(s)
           S == Seq(V)
           step(n, y) == IF n \in I THEN Append(y, s[n]) ELSE y
           next == [n \in 1 .. k |-> [y \in S |-> step(n, y)]]
<1>0. PICK t : t = Append(s, x)
  OBVIOUS
<1>1. k \in Nat /\ <<>> \in S /\ Len(t) = k + 1 /\ t[k + 1] = x /\ \A n \in 1 .. k : t[n] = s[n]
  BY <1>0
<1>2. \A n \in 1 .. k, y \in S : step(n, y) \in S
  OBVIOUS
<1>3. next \in [1 .. k -> [S -> S]] /\ \A n \in 1 .. k, y \in S : next[n][y] = step(n, y)
  <2> HIDE DEF k, S, step
  <2> QED
    BY <1>2
<1>4. PICK g \in [0 .. k -> S] : /\ Chosen(s, I) = g[k] /\ g[0] = <<>>
                                /\ \A n \in 1 .. k : g[n] = step(n, g[n - 1])
  <2>1. PICK g : ChosenRun(s, I, Seq(V), g)
    BY ChosenSteps
  <2> QED
    BY <2>1 DEF ChosenRun
<1>5. PICK h \in [0 .. k + 1 -> S] : /\ Chosen(t, I) = h[k + 1] /\ h[0] = <<>>
                                    /\ \A n \in 1 .. k + 1 : h[n] = IF n \in I THEN Append(h[n - 1], t[n]) ELSE h[n - 1]
  <2>1. t \in Seq(V) /\ Len(t) = k + 1
    BY <1>0, <1>1
  <2>2. PICK h : ChosenRun(t, I, Seq(V), h)
    BY <2>1, ChosenSteps
  <2> QED
    BY <2>1, <2>2 DEF ChosenRun
<1>6. \A n \in 1 .. k : h[n] = step(n, h[n - 1])
  <2>1. \A n \in 1 .. k : n \in 1 .. k + 1
    BY <1>1
  <2> HIDE DEF k, S
  <2> QED
    BY <1>1, <1>5, <2>1
<1>7. \A n \in 0 .. k : g[n] \in S /\ g[n] = h[n]
  <2> HIDE DEF step, next, k, S
  <2>0. k \in Nat /\ <<>> \in S /\ next \in [1 .. k -> [S -> S]]
    BY <1>1, <1>3
  <2>1. Stepwise(g, k, S, <<>>, next)
    BY <1>3, <1>4 DEF Stepwise
  <2>2. Stepwise(h, k, S, <<>>, next)
    BY <1>3, <1>5, <1>6 DEF Stepwise
  <2>3. Agree(g, h, k, S)
    BY <2>0, <2>1, <2>2, SameRecursion
  <2> QED
    BY <2>3 DEF Agree
<1>8. h[k + 1] = IF k + 1 \in I THEN Append(h[k], x) ELSE h[k]
  <2>1. PICK j \in 1 .. k + 1 : j = k + 1 /\ j - 1 = k
    BY <1>1
  <2> HIDE DEF k, S
  <2>2. h[j] = IF j \in I THEN Append(h[j - 1], t[j]) ELSE h[j - 1]
    BY <1>5
  <2> QED
    BY <1>1, <2>1, <2>2
<1>9. h[k] = Chosen(s, I) /\ Chosen(s, I) \in S
  BY <1>1, <1>4, <1>7
<1> QED
  BY <1>0, <1>5, <1>8, <1>9 DEF k

\* The states while symbols are read.
ReadingRun(api, st, s, V, g) ==
  /\ g \in [0 .. Len(s) -> V]
  /\ Reading(api, st, s) = g[Len(s)] /\ g[0] = st
  /\ \A n \in 1 .. Len(s) : g[n] = Read(api, g[n - 1], s[n])

\* The parser after each symbol.
LEMMA ReadingSteps ==
  ASSUME NEW m \in Nat,
         NEW api,
         NEW st \in States(m),
         NEW s \in Seq(Symbols(m))
  PROVE  \E g : ReadingRun(api, st, s, States(m), g)
<1> DEFINE k == Len(s)
           S == States(m)
           step(n, x) == Read(api, x, s[n])
           next == [n \in 1 .. k |-> [x \in S |-> step(n, x)]]
           Fits(f) == f = [n \in 0 .. k |-> IF n = 0 THEN st ELSE Read(api, f[n - 1], s[n])]
<1>1. k \in Nat /\ st \in S
  OBVIOUS
<1>2. \A n \in 1 .. k, x \in S : step(n, x) \in S
  <2>1. \A n \in 1 .. k : s[n] \in Symbols(m)
    OBVIOUS
  <2> QED
    BY <2>1, ReadTyped
<1>3. Reading(api, st, s) = (CHOOSE f : Fits(f))[k]
  BY DEF Reading
<1>4. next \in [1 .. k -> [S -> S]] /\ \A n \in 1 .. k, x \in S : next[n][x] = step(n, x)
  <2> HIDE DEF k, S, step
  <2> QED
    BY <1>2
<1>5. PICK g \in [0 .. k -> S] : g[0] = st /\ \A n \in 1 .. k : g[n] = step(n, g[n - 1])
  <2> HIDE DEF step, k, S, next
  <2>1. PICK g : Recursion(g, k, S, st, next)
    BY <1>1, <1>4, RecursionExists
  <2>2. \A n \in 1 .. k : n - 1 \in 0 .. k
    BY <1>1
  <2> QED
    BY <1>4, <2>1, <2>2 DEF Recursion
<1>6. Fits(g)
  <2> DEFINE value(n) == IF n = 0 THEN st ELSE Read(api, g[n - 1], s[n])
  <2>1. \A n \in 0 .. k : n = 0 \/ (n # 0 /\ n \in 1 .. k)
    BY <1>1
  <2>2. \A n \in 0 .. k : g[n] = value(n)
    <3> HIDE DEF k, S
    <3> QED
      BY <1>5, <2>1
  <2>3. g = [n \in 0 .. k |-> value(n)]
    <3> HIDE DEF value, k, S
    <3> QED
      BY <1>5, <2>2
  <2> QED
    BY <2>3
<1>7. PICK f : f = CHOOSE h : Fits(h)
  OBVIOUS
<1>8. Fits(f)
  <2> HIDE DEF Fits
  <2> QED
    BY <1>6, <1>7
<1>9. f[0] = st /\ \A n \in 1 .. k : f[n] = step(n, f[n - 1])
  <2>1. \A n \in 1 .. k : n # 0 /\ n \in 0 .. k
    BY <1>1
  <2>2. 0 \in 0 .. k
    BY <1>1
  <2> HIDE DEF k, S
  <2> QED
    BY <1>8, <2>1, <2>2
<1>10. f[k] = g[k]
  <2> HIDE DEF step, next, k, S, Fits
  <2>0. k \in Nat /\ st \in S /\ next \in [1 .. k -> [S -> S]]
    BY <1>1, <1>4
  <2>1. Stepwise(f, k, S, st, next)
    BY <1>4, <1>9 DEF Stepwise
  <2>2. Stepwise(g, k, S, st, next)
    BY <1>4, <1>5 DEF Stepwise
  <2>3. Agree(f, g, k, S)
    BY <2>0, <2>1, <2>2, SameRecursion
  <2> QED
    BY <1>1, <2>3 DEF Agree
<1> QED
  BY <1>3, <1>5, <1>7, <1>10 DEF k, S, ReadingRun

\* One symbol more.
LEMMA ReadingAppend ==
  ASSUME NEW m \in Nat,
         NEW api,
         NEW st \in States(m),
         NEW s \in Seq(Symbols(m)),
         NEW x \in Symbols(m)
  PROVE  Reading(api, st, s) \in States(m) /\ Reading(api, st, Append(s, x)) = Read(api, Reading(api, st, s), x)
<1> DEFINE k == Len(s)
           S == States(m)
           step(n, y) == Read(api, y, s[n])
           next == [n \in 1 .. k |-> [y \in S |-> step(n, y)]]
<1>0. PICK t : t = Append(s, x)
  OBVIOUS
<1>1. k \in Nat /\ st \in S /\ Len(t) = k + 1 /\ t[k + 1] = x /\ \A n \in 1 .. k : t[n] = s[n]
  BY <1>0
<1>2. \A n \in 1 .. k, y \in S : step(n, y) \in S
  <2>1. \A n \in 1 .. k : s[n] \in Symbols(m)
    OBVIOUS
  <2> QED
    BY <2>1, ReadTyped
<1>3. next \in [1 .. k -> [S -> S]] /\ \A n \in 1 .. k, y \in S : next[n][y] = step(n, y)
  <2> HIDE DEF k, S, step
  <2> QED
    BY <1>2
<1>4. PICK g \in [0 .. k -> S] : /\ Reading(api, st, s) = g[k] /\ g[0] = st
                                /\ \A n \in 1 .. k : g[n] = step(n, g[n - 1])
  <2>1. PICK g : ReadingRun(api, st, s, States(m), g)
    BY ReadingSteps
  <2> QED
    BY <2>1 DEF ReadingRun
<1>5. PICK h \in [0 .. k + 1 -> S] : /\ Reading(api, st, t) = h[k + 1] /\ h[0] = st
                                    /\ \A n \in 1 .. k + 1 : h[n] = Read(api, h[n - 1], t[n])
  <2>1. t \in Seq(Symbols(m)) /\ Len(t) = k + 1
    BY <1>0, <1>1
  <2>2. PICK h : ReadingRun(api, st, t, States(m), h)
    BY <2>1, ReadingSteps
  <2> QED
    BY <2>1, <2>2 DEF ReadingRun
<1>6. \A n \in 1 .. k : h[n] = step(n, h[n - 1])
  <2>1. \A n \in 1 .. k : n \in 1 .. k + 1
    BY <1>1
  <2> HIDE DEF k, S
  <2> QED
    BY <1>1, <1>5, <2>1
<1>7. \A n \in 0 .. k : g[n] \in S /\ g[n] = h[n]
  <2> HIDE DEF step, next, k, S
  <2>0. k \in Nat /\ st \in S /\ next \in [1 .. k -> [S -> S]]
    BY <1>1, <1>3
  <2>1. Stepwise(g, k, S, st, next)
    BY <1>3, <1>4 DEF Stepwise
  <2>2. Stepwise(h, k, S, st, next)
    BY <1>3, <1>5, <1>6 DEF Stepwise
  <2>3. Agree(g, h, k, S)
    BY <2>0, <2>1, <2>2, SameRecursion
  <2> QED
    BY <2>3 DEF Agree
<1>8. h[k + 1] = Read(api, h[k], x)
  <2>1. PICK j \in 1 .. k + 1 : j = k + 1 /\ j - 1 = k
    BY <1>1
  <2> HIDE DEF k, S
  <2>2. h[j] = Read(api, h[j - 1], t[j])
    BY <1>5
  <2> QED
    BY <1>1, <2>1, <2>2
<1>9. h[k] = Reading(api, st, s) /\ Reading(api, st, s) \in S
  BY <1>1, <1>4, <1>7
<1> QED
  BY <1>0, <1>5, <1>8, <1>9 DEF k

\* What the sink holds after each event.
CapturedRun(s, V, g) ==
  /\ g \in [0 .. Len(s) -> V]
  /\ Captured(s) = g[Len(s)] /\ g[0] = [text |-> <<>>, calls |-> <<>>]
  /\ \A n \in 1 .. Len(s) : g[n] = SinkSend(g[n - 1], s[n])

\* The sink after each delta.
LEMMA CapturedSteps ==
  ASSUME NEW V,
         \A e \in V : e \in Streamed \/ e.type = "MessageStop",
         NEW s \in Seq(V)
  PROVE  \E g : CapturedRun(s, Captures, g)
<1> DEFINE k == Len(s)
           S == Captures
           step(n, x) == SinkSend(x, s[n])
           next == [n \in 1 .. k |-> [x \in S |-> step(n, x)]]
           Fits(f) == f = [n \in 0 .. k |-> IF n = 0 THEN [text |-> <<>>, calls |-> <<>>] ELSE SinkSend(f[n - 1], s[n])]
<1>1. k \in Nat /\ [text |-> <<>>, calls |-> <<>>] \in S
  BY DEF Captures
<1>2. \A n \in 1 .. k, x \in S : step(n, x) \in S
  <2>1. \A n \in 1 .. k : s[n] \in V
    OBVIOUS
  <2> QED
    BY <2>1, SinkSendTyped
<1>3. Captured(s) = (CHOOSE f : Fits(f))[k]
  BY DEF Captured
<1>4. next \in [1 .. k -> [S -> S]] /\ \A n \in 1 .. k, x \in S : next[n][x] = step(n, x)
  <2> HIDE DEF k, S, step
  <2> QED
    BY <1>2
<1>5. PICK g \in [0 .. k -> S] : g[0] = [text |-> <<>>, calls |-> <<>>] /\ \A n \in 1 .. k : g[n] = step(n, g[n - 1])
  <2> HIDE DEF step, k, S, next
  <2>1. PICK g : Recursion(g, k, S, [text |-> <<>>, calls |-> <<>>], next)
    BY <1>1, <1>4, RecursionExists
  <2>2. \A n \in 1 .. k : n - 1 \in 0 .. k
    BY <1>1
  <2> QED
    BY <1>4, <2>1, <2>2 DEF Recursion
<1>6. Fits(g)
  <2> DEFINE value(n) == IF n = 0 THEN [text |-> <<>>, calls |-> <<>>] ELSE SinkSend(g[n - 1], s[n])
  <2>1. \A n \in 0 .. k : n = 0 \/ (n # 0 /\ n \in 1 .. k)
    BY <1>1
  <2>2. \A n \in 0 .. k : g[n] = value(n)
    <3> HIDE DEF k, S
    <3> QED
      BY <1>5, <2>1
  <2>3. g = [n \in 0 .. k |-> value(n)]
    <3> HIDE DEF value, k, S
    <3> QED
      BY <1>5, <2>2
  <2> QED
    BY <2>3
<1>7. PICK f : f = CHOOSE h : Fits(h)
  OBVIOUS
<1>8. Fits(f)
  <2> HIDE DEF Fits
  <2> QED
    BY <1>6, <1>7
<1>9. f[0] = [text |-> <<>>, calls |-> <<>>] /\ \A n \in 1 .. k : f[n] = step(n, f[n - 1])
  <2>1. \A n \in 1 .. k : n # 0 /\ n \in 0 .. k
    BY <1>1
  <2>2. 0 \in 0 .. k
    BY <1>1
  <2> HIDE DEF k, S
  <2> QED
    BY <1>8, <2>1, <2>2
<1>10. f[k] = g[k]
  <2> HIDE DEF step, next, k, S, Fits
  <2>0. k \in Nat /\ [text |-> <<>>, calls |-> <<>>] \in S /\ next \in [1 .. k -> [S -> S]]
    BY <1>1, <1>4
  <2>1. Stepwise(f, k, S, [text |-> <<>>, calls |-> <<>>], next)
    BY <1>4, <1>9 DEF Stepwise
  <2>2. Stepwise(g, k, S, [text |-> <<>>, calls |-> <<>>], next)
    BY <1>4, <1>5 DEF Stepwise
  <2>3. Agree(f, g, k, S)
    BY <2>0, <2>1, <2>2, SameRecursion
  <2> QED
    BY <1>1, <2>3 DEF Agree
<1> QED
  BY <1>3, <1>5, <1>7, <1>10 DEF k, S, CapturedRun

\* One event more.
LEMMA CapturedAppend ==
  ASSUME NEW V,
         \A e \in V : e \in Streamed \/ e.type = "MessageStop",
         NEW s \in Seq(V),
         NEW x \in V
  PROVE  Captured(s) \in Captures /\ Captured(Append(s, x)) = SinkSend(Captured(s), x)
<1> DEFINE k == Len(s)
           S == Captures
           step(n, y) == SinkSend(y, s[n])
           next == [n \in 1 .. k |-> [y \in S |-> step(n, y)]]
<1>0. PICK t : t = Append(s, x)
  OBVIOUS
<1>1. k \in Nat /\ [text |-> <<>>, calls |-> <<>>] \in S /\ Len(t) = k + 1 /\ t[k + 1] = x /\ \A n \in 1 .. k : t[n] = s[n]
  BY <1>0 DEF Captures
<1>2. \A n \in 1 .. k, y \in S : step(n, y) \in S
  <2>1. \A n \in 1 .. k : s[n] \in V
    OBVIOUS
  <2> QED
    BY <2>1, SinkSendTyped
<1>3. next \in [1 .. k -> [S -> S]] /\ \A n \in 1 .. k, y \in S : next[n][y] = step(n, y)
  <2> HIDE DEF k, S, step
  <2> QED
    BY <1>2
<1>4. PICK g \in [0 .. k -> S] : /\ Captured(s) = g[k] /\ g[0] = [text |-> <<>>, calls |-> <<>>]
                                /\ \A n \in 1 .. k : g[n] = step(n, g[n - 1])
  <2>1. PICK g : CapturedRun(s, Captures, g)
    BY CapturedSteps
  <2> QED
    BY <2>1 DEF CapturedRun
<1>5. PICK h \in [0 .. k + 1 -> S] : /\ Captured(t) = h[k + 1] /\ h[0] = [text |-> <<>>, calls |-> <<>>]
                                    /\ \A n \in 1 .. k + 1 : h[n] = SinkSend(h[n - 1], t[n])
  <2>1. t \in Seq(V) /\ Len(t) = k + 1
    BY <1>0, <1>1
  <2>2. PICK h : CapturedRun(t, Captures, h)
    BY <2>1, CapturedSteps
  <2> QED
    BY <2>1, <2>2 DEF CapturedRun
<1>6. \A n \in 1 .. k : h[n] = step(n, h[n - 1])
  <2>1. \A n \in 1 .. k : n \in 1 .. k + 1
    BY <1>1
  <2> HIDE DEF k, S
  <2> QED
    BY <1>1, <1>5, <2>1
<1>7. \A n \in 0 .. k : g[n] \in S /\ g[n] = h[n]
  <2> HIDE DEF step, next, k, S
  <2>0. k \in Nat /\ [text |-> <<>>, calls |-> <<>>] \in S /\ next \in [1 .. k -> [S -> S]]
    BY <1>1, <1>3
  <2>1. Stepwise(g, k, S, [text |-> <<>>, calls |-> <<>>], next)
    BY <1>3, <1>4 DEF Stepwise
  <2>2. Stepwise(h, k, S, [text |-> <<>>, calls |-> <<>>], next)
    BY <1>3, <1>5, <1>6 DEF Stepwise
  <2>3. Agree(g, h, k, S)
    BY <2>0, <2>1, <2>2, SameRecursion
  <2> QED
    BY <2>3 DEF Agree
<1>8. h[k + 1] = SinkSend(h[k], x)
  <2>1. PICK j \in 1 .. k + 1 : j = k + 1 /\ j - 1 = k
    BY <1>1
  <2> HIDE DEF k, S
  <2>2. h[j] = SinkSend(h[j - 1], t[j])
    BY <1>5
  <2> QED
    BY <1>1, <2>1, <2>2
<1>9. h[k] = Captured(s) /\ Captured(s) \in S
  BY <1>1, <1>4, <1>7
<1> QED
  BY <1>0, <1>5, <1>8, <1>9 DEF k

\* What the first symbols bring.
FlowRun(p, s, V, g) ==
  /\ g \in [0 .. Len(s) -> V]
  /\ Flow(p, s) = g[Len(s)] /\ g[0] = <<>>
  /\ \A n \in 1 .. Len(s) : g[n] = g[n - 1] \o Weight(p, s[n])

\* What the symbols so far bring of part p.
LEMMA FlowSteps ==
  ASSUME NEW m \in Nat,
         NEW p \in Nat,
         NEW s \in Seq(Symbols(m))
  PROVE  \E g : FlowRun(p, s, Seq(Pieces), g)
<1> DEFINE k == Len(s)
           S == Seq(Pieces)
           step(n, x) == x \o Weight(p, s[n])
           next == [n \in 1 .. k |-> [x \in S |-> step(n, x)]]
           Fits(f) == f = [n \in 0 .. k |-> IF n = 0 THEN <<>> ELSE f[n - 1] \o Weight(p, s[n])]
<1>1. k \in Nat /\ <<>> \in S
  OBVIOUS
<1>2. \A n \in 1 .. k, x \in S : step(n, x) \in S
  <2>1. \A n \in 1 .. k : s[n] \in Symbols(m)
    OBVIOUS
  <2>2. \A n \in 1 .. k : Weight(p, s[n]) \in Seq(Pieces)
    BY <2>1, WeightIs
  <2> HIDE DEF k
  <2> QED
    BY <2>2
<1>3. Flow(p, s) = (CHOOSE f : Fits(f))[k]
  BY DEF Flow
<1>4. next \in [1 .. k -> [S -> S]] /\ \A n \in 1 .. k, x \in S : next[n][x] = step(n, x)
  <2> HIDE DEF k, S, step
  <2> QED
    BY <1>2
<1>5. PICK g \in [0 .. k -> S] : g[0] = <<>> /\ \A n \in 1 .. k : g[n] = step(n, g[n - 1])
  <2> HIDE DEF step, k, S, next
  <2>1. PICK g : Recursion(g, k, S, <<>>, next)
    BY <1>1, <1>4, RecursionExists
  <2>2. \A n \in 1 .. k : n - 1 \in 0 .. k
    BY <1>1
  <2> QED
    BY <1>4, <2>1, <2>2 DEF Recursion
<1>6. Fits(g)
  <2> DEFINE value(n) == IF n = 0 THEN <<>> ELSE g[n - 1] \o Weight(p, s[n])
  <2>1. \A n \in 0 .. k : n = 0 \/ (n # 0 /\ n \in 1 .. k)
    BY <1>1
  <2>2. \A n \in 0 .. k : g[n] = value(n)
    <3> HIDE DEF k, S
    <3> QED
      BY <1>5, <2>1
  <2>3. g = [n \in 0 .. k |-> value(n)]
    <3> HIDE DEF value, k, S
    <3> QED
      BY <1>5, <2>2
  <2> QED
    BY <2>3
<1>7. PICK f : f = CHOOSE h : Fits(h)
  OBVIOUS
<1>8. Fits(f)
  <2> HIDE DEF Fits
  <2> QED
    BY <1>6, <1>7
<1>9. f[0] = <<>> /\ \A n \in 1 .. k : f[n] = step(n, f[n - 1])
  <2>1. \A n \in 1 .. k : n # 0 /\ n \in 0 .. k
    BY <1>1
  <2>2. 0 \in 0 .. k
    BY <1>1
  <2> HIDE DEF k, S
  <2> QED
    BY <1>8, <2>1, <2>2
<1>10. f[k] = g[k]
  <2> HIDE DEF step, next, k, S, Fits
  <2>0. k \in Nat /\ <<>> \in S /\ next \in [1 .. k -> [S -> S]]
    BY <1>1, <1>4
  <2>1. Stepwise(f, k, S, <<>>, next)
    BY <1>4, <1>9 DEF Stepwise
  <2>2. Stepwise(g, k, S, <<>>, next)
    BY <1>4, <1>5 DEF Stepwise
  <2>3. Agree(f, g, k, S)
    BY <2>0, <2>1, <2>2, SameRecursion
  <2> QED
    BY <1>1, <2>3 DEF Agree
<1> QED
  BY <1>3, <1>5, <1>7, <1>10 DEF k, S, FlowRun

\* One symbol more.
LEMMA FlowAppend ==
  ASSUME NEW m \in Nat,
         NEW p \in Nat,
         NEW s \in Seq(Symbols(m)),
         NEW x \in Symbols(m)
  PROVE  Flow(p, s) \in Seq(Pieces) /\ Flow(p, Append(s, x)) = Flow(p, s) \o Weight(p, x)
<1> DEFINE k == Len(s)
           S == Seq(Pieces)
           step(n, y) == y \o Weight(p, s[n])
           next == [n \in 1 .. k |-> [y \in S |-> step(n, y)]]
<1>0. PICK t : t = Append(s, x)
  OBVIOUS
<1>1. k \in Nat /\ <<>> \in S /\ Len(t) = k + 1 /\ t[k + 1] = x /\ \A n \in 1 .. k : t[n] = s[n]
  BY <1>0
<1>2. \A n \in 1 .. k, y \in S : step(n, y) \in S
  <2>1. \A n \in 1 .. k : s[n] \in Symbols(m)
    OBVIOUS
  <2>2. \A n \in 1 .. k : Weight(p, s[n]) \in Seq(Pieces)
    BY <2>1, WeightIs
  <2> HIDE DEF k
  <2> QED
    BY <2>2
<1>3. next \in [1 .. k -> [S -> S]] /\ \A n \in 1 .. k, y \in S : next[n][y] = step(n, y)
  <2> HIDE DEF k, S, step
  <2> QED
    BY <1>2
<1>4. PICK g \in [0 .. k -> S] : /\ Flow(p, s) = g[k] /\ g[0] = <<>>
                                /\ \A n \in 1 .. k : g[n] = step(n, g[n - 1])
  <2>1. PICK g : FlowRun(p, s, Seq(Pieces), g)
    BY FlowSteps
  <2> QED
    BY <2>1 DEF FlowRun
<1>5. PICK h \in [0 .. k + 1 -> S] : /\ Flow(p, t) = h[k + 1] /\ h[0] = <<>>
                                    /\ \A n \in 1 .. k + 1 : h[n] = h[n - 1] \o Weight(p, t[n])
  <2>1. t \in Seq(Symbols(m)) /\ Len(t) = k + 1
    BY <1>0, <1>1
  <2>2. PICK h : FlowRun(p, t, Seq(Pieces), h)
    BY <2>1, FlowSteps
  <2> QED
    BY <2>1, <2>2 DEF FlowRun
<1>6. \A n \in 1 .. k : h[n] = step(n, h[n - 1])
  <2>1. \A n \in 1 .. k : n \in 1 .. k + 1
    BY <1>1
  <2> HIDE DEF k, S
  <2> QED
    BY <1>1, <1>5, <2>1
<1>7. \A n \in 0 .. k : g[n] \in S /\ g[n] = h[n]
  <2> HIDE DEF step, next, k, S
  <2>0. k \in Nat /\ <<>> \in S /\ next \in [1 .. k -> [S -> S]]
    BY <1>1, <1>3
  <2>1. Stepwise(g, k, S, <<>>, next)
    BY <1>3, <1>4 DEF Stepwise
  <2>2. Stepwise(h, k, S, <<>>, next)
    BY <1>3, <1>5, <1>6 DEF Stepwise
  <2>3. Agree(g, h, k, S)
    BY <2>0, <2>1, <2>2, SameRecursion
  <2> QED
    BY <2>3 DEF Agree
<1>8. h[k + 1] = h[k] \o Weight(p, x)
  <2>1. PICK j \in 1 .. k + 1 : j = k + 1 /\ j - 1 = k
    BY <1>1
  <2> HIDE DEF k, S
  <2>2. h[j] = h[j - 1] \o Weight(p, t[j])
    BY <1>5
  <2> QED
    BY <1>1, <2>1, <2>2
<1>9. h[k] = Flow(p, s) /\ Flow(p, s) \in S
  BY <1>1, <1>4, <1>7
<1> QED
  BY <1>0, <1>5, <1>8, <1>9 DEF k

-----------------------------------------------------------------------------
(* ProviderApi: the elements chosen, and the request body. *)

\* Nothing is chosen from nothing.
LEMMA ChosenNone ==
  ASSUME NEW I PROVE Chosen(<<>>, I) = <<>>
<1>1. <<>> \in Seq({}) /\ Len(<<>>) = 0
  OBVIOUS
<1>2. PICK g : ChosenRun(<<>>, I, Seq({}), g)
  BY <1>1, ChosenSteps
<1> QED
  BY <1>1, <1>2 DEF ChosenRun

\* What is chosen is there, in a place that was asked for.
LEMMA ChosenFrom ==
  ASSUME NEW V, NEW s \in Seq(V), NEW I
  PROVE  /\ Chosen(s, I) \in Seq(V)
         /\ \A j \in 1 .. Len(Chosen(s, I)) : \E i \in 1 .. Len(s) \cap I : Chosen(s, I)[j] = s[i]
<1> DEFINE from(t) == \A j \in 1 .. Len(Chosen(t, I)) :
                        \E i \in 1 .. Len(t) \cap I : Chosen(t, I)[j] = t[i]
           W == {t \in Seq(V) : Chosen(t, I) \in Seq(V) /\ from(t)}
<1>1. <<>> \in W
  <2>1. \A j \in 1 .. Len(<<>>) : FALSE
    OBVIOUS
  <2>2. from(<<>>) /\ Chosen(<<>>, I) \in Seq(V)
    <3>1. PICK c : c = Chosen(<<>>, I)
      OBVIOUS
    <3>2. c = <<>>
      BY <3>1, ChosenNone
    <3>3. \A j \in 1 .. Len(c) : FALSE
      BY <3>2
    <3>4. \A j \in 1 .. Len(Chosen(<<>>, I)) : FALSE
      BY <3>1, <3>3, Zenon
    <3>5. Chosen(<<>>, I) \in Seq(V)
      <4>1. <<>> \in Seq(V)
        OBVIOUS
      <4> QED
        BY <4>1, ChosenNone, Zenon
    <3> QED
      BY <3>4, <3>5, Zenon
  <2> QED
    BY <2>2
<1>2. ASSUME NEW t \in Seq(V), NEW x \in V, t \in W PROVE Append(t, x) \in W
  <2>1. PICK c : c = Chosen(t, I)
    OBVIOUS
  <2>2. PICK u : u = Append(t, x)
    OBVIOUS
  <2>3. /\ u \in Seq(V) /\ Len(u) = Len(t) + 1 /\ u[Len(u)] = x /\ Len(t) \in Nat
        /\ \A i \in 1 .. Len(t) : u[i] = t[i]
    BY <2>2
  <2>4. Chosen(u, I) = IF Len(u) \in I THEN Append(c, x) ELSE c
    BY <2>1, <2>2, <2>3, ChosenAppend
  <2>5. c \in Seq(V) /\ \A j \in 1 .. Len(c) : \E i \in 1 .. Len(t) \cap I : c[j] = t[i]
    BY <1>2, <2>1
  <2>6. \A j \in 1 .. Len(c) : \E i \in 1 .. Len(u) \cap I : c[j] = u[i]
    BY <2>3, <2>5
  <2>7. CASE Len(u) \in I
    <3>1. /\ Append(c, x) \in Seq(V) /\ Len(Append(c, x)) = Len(c) + 1 /\ Len(c) \in Nat
          /\ \A j \in 1 .. Len(c) : Append(c, x)[j] = c[j]
          /\ Append(c, x)[Len(c) + 1] = x
      BY <2>5
    <3>2. Len(u) \in 1 .. Len(u) \cap I
      BY <2>3, <2>7
    <3>3. \A j \in 1 .. Len(c) + 1 : j \in 1 .. Len(c) \/ j = Len(c) + 1
      BY <3>1
    <3>4. from(u)
      BY <2>3, <2>4, <2>6, <2>7, <3>1, <3>2, <3>3
    <3> QED
      BY <2>2, <2>3, <2>4, <2>7, <3>1, <3>4
  <2>8. CASE Len(u) \notin I
    BY <2>2, <2>3, <2>4, <2>5, <2>6, <2>8, ZenonT(60)
  <2> QED
    BY <2>7, <2>8
<1>3. s \in W
  <2> HIDE DEF W
  <2>1. Seq(V) \subseteq W
    BY <1>1, <1>2, SequencesGrow
  <2> QED
    BY <2>1
<1> QED
  BY <1>3

\* To choose every element.
LEMMA ChosenAll ==
  ASSUME NEW V, NEW s \in Seq(V), NEW I, 1 .. Len(s) \subseteq I
  PROVE  Chosen(s, I) = s
<1> DEFINE W == {t \in Seq(V) : 1 .. Len(t) \subseteq I => Chosen(t, I) = t}
<1>1. <<>> \in W
  BY ChosenNone
<1>2. ASSUME NEW t \in Seq(V), NEW x \in V, t \in W PROVE Append(t, x) \in W
  <2>1. PICK u : u = Append(t, x)
    OBVIOUS
  <2>2. u \in Seq(V) /\ Len(u) = Len(t) + 1 /\ Len(t) \in Nat
    BY <2>1
  <2>3. 1 .. Len(u) \subseteq I => Len(u) \in I /\ 1 .. Len(t) \subseteq I
    BY <2>2
  <2>4. Chosen(u, I) = IF Len(u) \in I THEN Append(Chosen(t, I), x) ELSE Chosen(t, I)
    BY <2>1, <2>2, ChosenAppend
  <2> QED
    BY <1>2, <2>1, <2>2, <2>3, <2>4
<1>3. s \in W
  <2> HIDE DEF W
  <2>1. Seq(V) \subseteq W
    BY <1>1, <1>2, SequencesGrow
  <2> QED
    BY <2>1
<1> QED
  BY <1>3

Image(f, s) == [i \in 1 .. Len(s) |-> f[s[i]]]

\* The choice of the images is the image of the choice.
LEMMA ChosenImage ==
  ASSUME NEW V, NEW f, NEW s \in Seq(V), NEW I
  PROVE  Chosen(Image(f, s), I) = Image(f, Chosen(s, I))
<1>u. PICK U : U = {f[x] : x \in V}
  OBVIOUS
<1>v. \A x \in V : f[x] \in U
  BY <1>u
<1> DEFINE image(t) == [i \in 1 .. Len(t) |-> f[t[i]]]
           W == {t \in Seq(V) : Chosen(image(t), I) = image(Chosen(t, I))}
<1>0. ASSUME NEW t \in Seq(V) PROVE image(t) \in Seq(U) /\ Len(image(t)) = Len(t)
  BY <1>v
<1>1. <<>> \in W
  <2>1. image(<<>>) = <<>>
    OBVIOUS
  <2> HIDE DEF image
  <2> QED
    BY <2>1, ChosenNone
<1>2. ASSUME NEW t \in Seq(V), NEW x \in V PROVE image(Append(t, x)) = Append(image(t), f[x])
  <2>1. PICK u : u = Append(t, x)
    OBVIOUS
  <2>2. /\ u \in Seq(V) /\ Len(u) = Len(t) + 1 /\ Len(t) \in Nat /\ u[Len(t) + 1] = x
        /\ \A i \in 1 .. Len(t) : u[i] = t[i]
    BY <2>1
  <2>3. PICK v : v = Append(image(t), f[x])
    OBVIOUS
  <2>4. v \in Seq(U) /\ Len(v) = Len(t) + 1 /\ v[Len(t) + 1] = f[x]
    BY <1>0, <1>v, <2>2, <2>3
  <2>5. \A i \in 1 .. Len(t) : v[i] = f[t[i]]
    BY <1>0, <2>2, <2>3
  <2>6. image(u) \in Seq(U) /\ Len(image(u)) = Len(u)
    BY <1>0, <2>2
  <2>7. \A i \in 1 .. Len(t) + 1 : image(u)[i] = v[i]
    <3>1. \A i \in 1 .. Len(t) + 1 : i \in 1 .. Len(t) \/ i = Len(t) + 1
      BY <2>2
    <3>2. \A i \in 1 .. Len(t) + 1 : image(u)[i] = f[u[i]]
      BY <2>2
    <3> HIDE DEF image
    <3> QED
      BY <2>2, <2>4, <2>5, <3>1, <3>2
  <2>8. image(u) = v
    <3> HIDE DEF image
    <3> QED
      BY <2>2, <2>4, <2>6, <2>7
  <2> QED
    BY <2>1, <2>3, <2>8
<1>3. ASSUME NEW t \in Seq(V), NEW x \in V, t \in W PROVE Append(t, x) \in W
  <2>1. Append(t, x) \in Seq(V) /\ f[x] \in U
    BY <1>v
  <2>2. image(Append(t, x)) = Append(image(t), f[x])
    BY <1>2
  <2>3. image(t) \in Seq(U) /\ Len(image(t)) = Len(t)
    BY <1>0
  <2>4. Chosen(Append(t, x), I) = IF Len(t) + 1 \in I THEN Append(Chosen(t, I), x) ELSE Chosen(t, I)
    BY ChosenAppend
  <2>5. Chosen(t, I) \in Seq(V)
    BY ChosenAppend
  <2>6. Chosen(image(t), I) = image(Chosen(t, I))
    BY <1>3
  <2>7. image(Append(Chosen(t, I), x)) = Append(image(Chosen(t, I)), f[x])
    BY <1>2, <2>5
  <2> HIDE DEF image
  <2>8. Chosen(Append(image(t), f[x]), I) =
          IF Len(t) + 1 \in I THEN Append(Chosen(image(t), I), f[x]) ELSE Chosen(image(t), I)
    <3>1. PICK v, y : v = image(t) /\ y = f[x]
      OBVIOUS
    <3>2. v \in Seq(U) /\ Len(v) = Len(t) /\ y \in U
      BY <2>1, <2>3, <3>1
    <3>3. Chosen(Append(v, y), I) = IF Len(v) + 1 \in I THEN Append(Chosen(v, I), y) ELSE Chosen(v, I)
      BY <3>2, ChosenAppend
    <3> QED
      BY <3>1, <3>2, <3>3
  <2>9. Chosen(image(Append(t, x)), I) = image(Chosen(Append(t, x), I))
    BY <2>2, <2>4, <2>6, <2>7, <2>8
  <2> QED
    BY <2>1, <2>9
<1>4. s \in W
  <2> HIDE DEF W
  <2>1. Seq(V) \subseteq W
    BY <1>1, <1>3, SequencesGrow
  <2> QED
    BY <2>1
<1> QED
  BY <1>0, <1>4 DEF Image


(* What BodyKeepsText says of some messages and the body made of them. *)
TextsOf(ms) == [i \in DOMAIN ms |-> TextBlocks(ms[i])]
Users(ms) == Chosen(ms, DOMAIN ms \ Systems(ms))

Kept(api, ms, prompt, sentBody) ==
  /\ TextsOf(Users(sentBody.messages)) = TextsOf(Users(ms))
  /\ api = "anthropic" =>
       /\ \A i \in DOMAIN sentBody.messages : sentBody.messages[i].role # "system"
       /\ sentBody.system = NoSystem =>
            /\ prompt = NoSystem
            /\ \A i \in DOMAIN ms : ms[i].role # "system"

IsMessage(m) ==
  m = [role |-> m.role, blocks |-> m.blocks] /\ m.blocks \in Seq(ToSet(m.blocks))

\* The text blocks of text blocks are all of them.
LEMMA TextTwice ==
  ASSUME NEW m, IsMessage(m)
  PROVE  Flattened(m).role = m.role /\ TextBlocks(Flattened(m)) = TextBlocks(m)
<1> DEFINE V == ToSet(m.blocks)
           I == {i \in DOMAIN m.blocks : m.blocks[i].kind = "text"}
<1>1. PICK t : t = TextBlocks(m)
  OBVIOUS
<1>2. t = Chosen(m.blocks, I) /\ m.blocks \in Seq(V)
  BY <1>1 DEF TextBlocks, IsMessage
<1>3. /\ t \in Seq(V)
      /\ \A j \in 1 .. Len(t) : \E i \in 1 .. Len(m.blocks) \cap I : t[j] = m.blocks[i]
  <2> HIDE DEF I, V
  <2> QED
    BY <1>2, ChosenFrom
<1>4. PICK J : J = {j \in DOMAIN t : t[j].kind = "text"}
  OBVIOUS
<1>5. 1 .. Len(t) \subseteq J
  BY <1>3, <1>4
<1>6. Chosen(t, J) = t
  <2> HIDE DEF I, V
  <2> QED
    BY <1>3, <1>5, ChosenAll
<1>7. Flattened(m) = [role |-> m.role, blocks |-> t]
  <2>1. PICK r, b : r = m.role /\ b = m.blocks
    OBVIOUS
  <2>2. m = [role |-> r, blocks |-> b]
    BY <2>1 DEF IsMessage
  <2>3. [m EXCEPT !.blocks = t] = [role |-> r, blocks |-> t]
    BY <2>2
  <2> QED
    BY <1>1, <2>1, <2>3 DEF Flattened
<1>8. TextBlocks([role |-> m.role, blocks |-> t]) = Chosen(t, J)
  BY <1>4 DEF TextBlocks
<1> QED
  BY <1>1, <1>6, <1>7, <1>8

\* One string per message keeps the text of each.
LEMMA FlatKeeps ==
  ASSUME NEW V, \A m \in V : IsMessage(m), NEW ms \in Seq(V)
  PROVE  LET flat == [i \in DOMAIN ms |-> Flattened(ms[i])]
         IN  TextsOf(Users(flat)) = TextsOf(Users(ms))
<1>1. PICK flat : flat = [i \in DOMAIN ms |-> Flattened(ms[i])]
  OBVIOUS
<1>2. PICK f : \A m \in V : f[m] = Flattened(m)
  <2>1. PICK f : f = [m \in V |-> Flattened(m)]
    OBVIOUS
  <2>2. \A m \in V : f[m] = Flattened(m)
    BY <2>1
  <2> QED
    BY <2>2
<1>3. flat = Image(f, ms)
  <2>1. DOMAIN ms = 1 .. Len(ms) /\ \A i \in DOMAIN ms : Flattened(ms[i]) = f[ms[i]]
    BY <1>2
  <2> QED
    BY <1>1, <2>1 DEF Image
<1>4. DOMAIN flat = DOMAIN ms /\ DOMAIN ms = 1 .. Len(ms)
  BY <1>1
<1>5. Systems(flat) = Systems(ms)
  <2>1. \A i \in DOMAIN ms : flat[i].role = ms[i].role
    BY <1>1, TextTwice
  <2> QED
    BY <1>4, <2>1 DEF Systems
<1>6. PICK I : I = DOMAIN ms \ Systems(ms)
  OBVIOUS
<1>7. PICK users : users = Chosen(ms, I)
  OBVIOUS
<1>8. users \in Seq(V)
  BY <1>7, ChosenFrom
<1>9. Chosen(flat, I) = [i \in 1 .. Len(users) |-> f[users[i]]]
  <2>1. Chosen(Image(f, ms), I) = Image(f, Chosen(ms, I))
    BY <1>2, ChosenImage
  <2> QED
    BY <1>3, <1>7, <2>1 DEF Image
<1>10. TextsOf(Chosen(flat, I)) = TextsOf(users)
  <2>1. \A i \in 1 .. Len(users) : users[i] \in V
    BY <1>8
  <2>2. \A i \in 1 .. Len(users) : TextBlocks(f[users[i]]) = TextBlocks(users[i])
    BY <1>2, <2>1, TextTwice
  <2>3. PICK c : c = Chosen(flat, I)
    OBVIOUS
  <2>4. DOMAIN c = 1 .. Len(users) /\ \A i \in 1 .. Len(users) : c[i] = f[users[i]]
    BY <1>9, <2>3
  <2>5. DOMAIN users = 1 .. Len(users)
    BY <1>8
  <2> QED
    BY <2>2, <2>3, <2>4, <2>5 DEF TextsOf
<1>11. Users(flat) = Chosen(flat, I) /\ Users(ms) = users
  BY <1>4, <1>5, <1>6, <1>7 DEF Users
<1> QED
  BY <1>1, <1>10, <1>11

\* Anthropic's messages.
InUsersName(m) == [m EXCEPT !.role = IF @ = "tool" THEN "user" ELSE @]

\* anthropic_messages keeps what the users said, in order, and no system message.
LEMMA AnthropicKeeps ==
  ASSUME NEW V, \A m \in V : IsMessage(m), NEW ms \in Seq(V)
  PROVE  /\ TextsOf(Users(AnthropicMessages(ms))) = TextsOf(Users(ms))
         /\ \A i \in DOMAIN AnthropicMessages(ms) : AnthropicMessages(ms)[i].role # "system"
<1> DEFINE U == {InUsersName(m) : m \in V}
<1>1. PICK rest : rest = Users(ms)
  OBVIOUS
<1>2. PICK out : out = AnthropicMessages(ms)
  OBVIOUS
<1>3. out = [i \in DOMAIN rest |-> InUsersName(rest[i])]
  BY <1>1, <1>2 DEF AnthropicMessages, Users, InUsersName
<1>4. /\ rest \in Seq(V)
      /\ \A j \in 1 .. Len(rest) : \E i \in 1 .. Len(ms) \cap (DOMAIN ms \ Systems(ms)) : rest[j] = ms[i]
  <2>1. PICK I : I = DOMAIN ms \ Systems(ms)
    OBVIOUS
  <2>2. rest = Chosen(ms, I)
    BY <1>1, <2>1 DEF Users
  <2>3. rest \in Seq(V) /\ \A j \in 1 .. Len(rest) : \E i \in 1 .. Len(ms) \cap I : rest[j] = ms[i]
    BY <2>2, ChosenFrom
  <2> QED
    BY <2>1, <2>3
<1>5. \A j \in 1 .. Len(rest) : rest[j].role # "system" /\ rest[j] \in V
  BY <1>4 DEF Systems
<1>6. ASSUME NEW m \in V, m.role # "system"
      PROVE  InUsersName(m).role # "system" /\ TextBlocks(InUsersName(m)) = TextBlocks(m)
  <2>1. PICK r, b : r = m.role /\ b = m.blocks
    OBVIOUS
  <2>2. m = [role |-> r, blocks |-> b]
    BY <2>1 DEF IsMessage
  <2>3. InUsersName(m) = [role |-> IF r = "tool" THEN "user" ELSE r, blocks |-> b]
    BY <2>2 DEF InUsersName
  <2>4. InUsersName(m).blocks = m.blocks
    BY <2>1, <2>3
  <2>5. InUsersName(m).role # "system"
    BY <1>6, <2>1, <2>3
  <2> QED
    BY <2>4, <2>5 DEF TextBlocks
<1>7. out \in Seq(U) /\ Len(out) = Len(rest) /\ \A i \in 1 .. Len(out) : out[i] = InUsersName(rest[i])
  BY <1>3, <1>4
<1>8. \A i \in 1 .. Len(out) : out[i].role # "system" /\ TextBlocks(out[i]) = TextBlocks(rest[i])
  BY <1>5, <1>6, <1>7
<1>9. DOMAIN out = 1 .. Len(out) /\ DOMAIN rest = 1 .. Len(out)
  BY <1>4, <1>7
<1>10. Users(out) = out
  <2>1. 1 .. Len(out) \subseteq DOMAIN out \ Systems(out)
    BY <1>8, <1>9 DEF Systems
  <2> HIDE DEF U
  <2> QED
    BY <1>7, <2>1, ChosenAll DEF Users
<1>11. TextsOf(out) = TextsOf(rest)
  BY <1>8, <1>9 DEF TextsOf
<1> QED
  BY <1>1, <1>2, <1>8, <1>9, <1>10, <1>11

\* The body any of the adapters builds keeps the conversation.
LEMMA BodyKeeps ==
  ASSUME NEW api \in Apis, NEW r \in Requests
  PROVE  Kept(api, r.messages, r.prompt, Body(api, r.messages, r.prompt))
<1> DEFINE V == ToSet(r.messages)
<1>1. r.messages \in Seq(V) /\ \A m \in V : IsMessage(m)
  BY RequestsAssumption DEF IsMessage
<1>2. PICK ms : ms = r.messages
  OBVIOUS
<1>3. ms \in Seq(V)
  BY <1>1, <1>2
<1> HIDE DEF V
<1>4. CASE api = "anthropic"
  <2>1. Body(api, ms, r.prompt) = AnthropicBody(ms, r.prompt)
    BY <1>4 DEF Body
  <2>2. SystemOf(ms, r.prompt) = NoSystem => r.prompt = NoSystem /\ Systems(ms) = {}
    BY DEF SystemOf, NoSystem
  <2>3. Systems(ms) = {} => \A i \in DOMAIN ms : ms[i].role # "system"
    BY DEF Systems
  <2>4. /\ TextsOf(Users(AnthropicMessages(ms))) = TextsOf(Users(ms))
        /\ \A i \in DOMAIN AnthropicMessages(ms) : AnthropicMessages(ms)[i].role # "system"
    BY <1>1, <1>3, AnthropicKeeps
  <2>5. PICK out, sys : out = AnthropicMessages(ms) /\ sys = SystemOf(ms, r.prompt)
    OBVIOUS
  <2>6. Body(api, ms, r.prompt) = [system |-> sys, messages |-> out]
    BY <2>1, <2>5 DEF AnthropicBody
  <2> QED
    BY <1>2, <2>2, <2>3, <2>4, <2>5, <2>6 DEF Kept
<1>5. CASE api # "anthropic"
  <2>1. PICK flat : flat = [i \in DOMAIN ms |-> Flattened(ms[i])]
    OBVIOUS
  <2>2. Body(api, ms, r.prompt) = [system |-> NoSystem, messages |-> flat]
    BY <1>5, <2>1 DEF Body, Apis, OpenAiBody, OllamaBody, OpenAiMessages, OllamaMessages
  <2>3. TextsOf(Users(flat)) = TextsOf(Users(ms))
    BY <1>1, <1>3, <2>1, FlatKeeps
  <2> QED
    BY <1>2, <1>5, <2>2, <2>3 DEF Kept
<1> QED
  BY <1>4, <1>5

RequestAndBody ==
  /\ adapter \in Apis
  /\ request # NoRequest =>
       request \in Requests /\ body = Body(adapter, request.messages, request.prompt)

(* Before it is sent, the body holds every message but the system's with all
   its text.  (build_body, split_system, message_to_json) *)
THEOREM TheConversationIsKept == StreamSpec => []BodyKeepsText
<1>1. StreamInit => RequestAndBody
  BY ServerAssumption DEF StreamInit, RequestAndBody, Apis
<1>2. RequestAndBody /\ [StreamNext]_streamVars => RequestAndBody'
  <2> SUFFICES ASSUME RequestAndBody, [StreamNext]_streamVars PROVE RequestAndBody'
    OBVIOUS
  <2>1. CASE Respond
    BY <2>1 DEF RequestAndBody, Respond
  <2>2. UNCHANGED <<adapter, request, body>> => RequestAndBody'
    BY DEF RequestAndBody
  <2>3. CASE AnthropicServer
    <3>1. UNCHANGED <<adapter, request, body>>
      BY <2>3 DEF AnthropicServer, Says
    <3> QED
      BY <2>2, <3>1
  <2>4. CASE OpenAiServer
    <3>1. UNCHANGED <<adapter, request, body>>
      BY <2>4 DEF OpenAiServer, Says
    <3> QED
      BY <2>2, <3>1
  <2>5. CASE OllamaServer \/ ServerCloses
    <3>1. UNCHANGED <<adapter, request, body>>
      BY <2>5 DEF OllamaServer, ServerCloses, Says
    <3> QED
      BY <2>2, <3>1
  <2>6. CASE Receive
    <3>1. UNCHANGED <<adapter, request, body>>
      BY <2>6 DEF Receive, ReceiveCut, ReceiveWhole, Fail
    <3> QED
      BY <2>2, <3>1
  <2>7. CASE TransportError \/ Stop \/ UNCHANGED streamVars
    BY <2>2, <2>7 DEF TransportError, Fail, Stop, streamVars
  <2> QED
    BY <2>1, <2>3, <2>4, <2>5, <2>6, <2>7 DEF StreamNext
<1>3. RequestAndBody => BodyKeepsText
  <2> SUFFICES ASSUME RequestAndBody, request # NoRequest
               PROVE  Kept(adapter, request.messages, request.prompt, body)
    BY DEF BodyKeepsText, Kept, TextsOf, Users
  <2> QED
    BY BodyKeeps DEF RequestAndBody
<1> QED
  BY <1>1, <1>2, <1>3, PTL DEF StreamSpec

-----------------------------------------------------------------------------
(* ProviderStream: parts of sequences. *)

\* at says where the elements of a are in b.
Embeds(at, a, b) ==
  /\ at \in [1 .. Len(a) -> 1 .. Len(b)]
  /\ \A i, j \in 1 .. Len(a) : i < j => at[i] < at[j]
  /\ \A i \in 1 .. Len(a) : a[i] = b[at[i]]

\* To follow is to be embedded.
LEMMA FollowsIs ==
  ASSUME NEW V, NEW a \in Seq(V), NEW b \in Seq(V)
  PROVE  Follows(a, b) <=> \E at : Embeds(at, a, b)
<1>1. DOMAIN a = 1 .. Len(a) /\ DOMAIN b = 1 .. Len(b)
  OBVIOUS
<1> QED
  BY <1>1 DEF Follows, Embeds

\* A sequence follows itself.
LEMMA FollowsItself ==
  ASSUME NEW V, NEW a \in Seq(V) PROVE Follows(a, a)
<1>1. Embeds([i \in 1 .. Len(a) |-> i], a, a)
  BY DEF Embeds
<1> QED
  BY <1>1, FollowsIs

\* The empty sequence follows every one, and nothing else follows it.
LEMMA NothingFollows ==
  ASSUME NEW V, NEW a \in Seq(V)
  PROVE  Follows(<<>>, a) /\ (Follows(a, <<>>) => a = <<>>)
<1>1. <<>> \in Seq(V) /\ Len(<<>>) = 0 /\ Len(a) \in Nat
  OBVIOUS
<1>2. \A i \in 1 .. 0 : FALSE
  OBVIOUS
<1>3. PICK none : none = <<>>
  OBVIOUS
<1>4. none \in Seq(V) /\ Len(none) = 0
  BY <1>1, <1>3
<1>5. Embeds([i \in 1 .. 0 |-> i], none, a)
  BY <1>2, <1>4 DEF Embeds
<1>6. ASSUME NEW at, Embeds(at, a, none) PROVE a = <<>>
  <2>1. Len(a) >= 1 => 1 \in 1 .. Len(a) /\ at[1] \in 1 .. 0
    BY <1>1, <1>4, <1>6 DEF Embeds
  <2>2. Len(a) = 0
    BY <1>1, <2>1
  <2> QED
    BY <2>2
<1> QED
  BY <1>3, <1>4, <1>5, <1>6, FollowsIs

\* Following is transitive.
LEMMA FollowsThrough ==
  ASSUME NEW V, NEW a \in Seq(V), NEW b \in Seq(V), NEW c \in Seq(V), Follows(a, b), Follows(b, c)
  PROVE  Follows(a, c)
<1>1. PICK f : Embeds(f, a, b)
  BY FollowsIs
<1>2. PICK g : Embeds(g, b, c)
  BY FollowsIs
<1>3. PICK h : h = [i \in 1 .. Len(a) |-> g[f[i]]]
  OBVIOUS
<1>4. \A i \in 1 .. Len(a) : f[i] \in 1 .. Len(b) /\ h[i] = g[f[i]] /\ h[i] \in 1 .. Len(c)
  BY <1>1, <1>2, <1>3 DEF Embeds
<1>5. \A i, j \in 1 .. Len(a) : i < j => h[i] < h[j]
  BY <1>1, <1>2, <1>4 DEF Embeds
<1>6. \A i \in 1 .. Len(a) : a[i] = c[h[i]]
  BY <1>1, <1>2, <1>4 DEF Embeds
<1>7. h \in [1 .. Len(a) -> 1 .. Len(c)]
  BY <1>3, <1>4
<1>8. Embeds(h, a, c)
  BY <1>5, <1>6, <1>7 DEF Embeds
<1> QED
  BY <1>8, FollowsIs

\* What follows the parts follows the whole.
LEMMA FollowsJoined ==
  ASSUME NEW V, NEW a \in Seq(V), NEW b \in Seq(V), NEW c \in Seq(V), NEW d \in Seq(V),
         Follows(a, b), Follows(c, d)
  PROVE  Follows(a \o c, b \o d)
<1>1. PICK f : Embeds(f, a, b)
  BY FollowsIs
<1>2. PICK g : Embeds(g, c, d)
  BY FollowsIs
<1>3. PICK p \in Nat, q \in Nat, m \in Nat, n \in Nat :
         p = Len(a) /\ q = Len(b) /\ m = Len(c) /\ n = Len(d)
  OBVIOUS
<1>4. PICK x, y : x = a \o c /\ y = b \o d
  OBVIOUS
<1>5. /\ x \in Seq(V) /\ Len(x) = p + m /\ y \in Seq(V) /\ Len(y) = q + n
      /\ \A i \in 1 .. p + m : x[i] = IF i <= p THEN a[i] ELSE c[i - p]
      /\ \A i \in 1 .. q + n : y[i] = IF i <= q THEN b[i] ELSE d[i - q]
  BY <1>3, <1>4
<1>6. PICK h : h = [i \in 1 .. p + m |-> IF i <= p THEN f[i] ELSE q + g[i - p]]
  OBVIOUS
<1>7. \A i \in 1 .. p : f[i] \in 1 .. q /\ a[i] = b[f[i]]
  BY <1>1, <1>3 DEF Embeds
<1>8. \A i \in 1 .. m : g[i] \in 1 .. n /\ c[i] = d[g[i]]
  BY <1>2, <1>3 DEF Embeds
<1>9. ASSUME NEW i \in 1 .. p + m
      PROVE  h[i] \in 1 .. q + n /\ x[i] = y[h[i]]
  <2>1. CASE i <= p
    <3>1. i \in 1 .. p /\ h[i] = f[i]
      BY <1>6, <2>1
    <3>2. h[i] \in 1 .. q /\ h[i] \in 1 .. q + n
      BY <1>7, <3>1
    <3> QED
      BY <1>5, <1>7, <2>1, <3>1, <3>2
  <2>2. CASE ~(i <= p)
    <3>1. i - p \in 1 .. m /\ h[i] = q + g[i - p]
      BY <1>6, <2>2
    <3>2. g[i - p] \in 1 .. n /\ c[i - p] = d[g[i - p]]
      BY <1>8, <3>1
    <3>3. h[i] \in 1 .. q + n /\ ~(h[i] <= q) /\ h[i] - q = g[i - p]
      BY <3>1, <3>2, SMTT(30)
    <3>4. x[i] = c[i - p] /\ y[h[i]] = d[h[i] - q]
      BY <1>5, <2>2, <3>3
    <3> QED
      BY <3>2, <3>3, <3>4
  <2> QED
    BY <2>1, <2>2
<1>10. ASSUME NEW i \in 1 .. p + m, NEW j \in 1 .. p + m, i < j PROVE h[i] < h[j]
  <2>1. CASE j <= p
    <3>1. i \in 1 .. p /\ j \in 1 .. p /\ h[i] = f[i] /\ h[j] = f[j]
      BY <1>6, <1>10, <2>1
    <3> QED
      BY <1>1, <1>3, <1>10, <3>1 DEF Embeds
  <2>2. CASE i <= p /\ ~(j <= p)
    <3>1. i \in 1 .. p /\ h[i] = f[i] /\ j - p \in 1 .. m /\ h[j] = q + g[j - p]
      BY <1>6, <2>2
    <3>2. f[i] \in 1 .. q /\ g[j - p] \in 1 .. n
      BY <1>7, <1>8, <3>1
    <3> QED
      BY <3>1, <3>2
  <2>3. CASE ~(i <= p)
    <3>1. /\ i - p \in 1 .. m /\ h[i] = q + g[i - p]
          /\ j - p \in 1 .. m /\ h[j] = q + g[j - p] /\ i - p < j - p
      BY <1>6, <1>10, <2>3
    <3>2. PICK u \in 1 .. m, v \in 1 .. m : u = i - p /\ v = j - p
      BY <3>1
    <3>3. g[u] < g[v] /\ g[u] \in 1 .. n /\ g[v] \in 1 .. n
      BY <1>2, <1>3, <1>8, <3>1, <3>2 DEF Embeds
    <3> QED
      BY <3>1, <3>2, <3>3
  <2> QED
    BY <1>10, <2>1, <2>2, <2>3
<1>11. h \in [1 .. p + m -> 1 .. q + n]
  BY <1>6, <1>9
<1>12. Embeds(h, x, y)
  BY <1>5, <1>9, <1>10, <1>11 DEF Embeds
<1> QED
  BY <1>4, <1>5, <1>12, FollowsIs

\* What comes before or after may be left out on the left and added on the right.
LEMMA FollowsEnds ==
  ASSUME NEW V, NEW a \in Seq(V), NEW b \in Seq(V), Follows(a, b), NEW c \in Seq(V)
  PROVE  Follows(a, b \o c) /\ Follows(a, c \o b)
<1>1. Follows(<<>>, c) /\ <<>> \in Seq(V)
  BY NothingFollows
<1>2. a \o <<>> = a /\ <<>> \o a = a
  OBVIOUS
<1>3. Follows(a \o <<>>, b \o c) /\ Follows(<<>> \o a, c \o b)
  BY <1>1, FollowsJoined
<1> QED
  BY <1>2, <1>3, Zenon

-----------------------------------------------------------------------------
(* Recursive functions of joined sequences. *)

\* One element more after two sequences joined.
LEMMA JoinedAppend ==
  ASSUME NEW V, NEW s \in Seq(V), NEW t \in Seq(V), NEW x \in V
  PROVE  s \o Append(t, x) = Append(s \o t, x) /\ s \o t \in Seq(V)
<1>1. PICK u, v : u = s \o Append(t, x) /\ v = Append(s \o t, x)
  OBVIOUS
<1>2. /\ u \in Seq(V) /\ v \in Seq(V) /\ Len(u) = Len(s) + Len(t) + 1 /\ Len(v) = Len(u)
      /\ Len(s) \in Nat /\ Len(t) \in Nat
  BY <1>1
<1>3. \A i \in 1 .. Len(u) : u[i] = v[i]
  BY <1>1, <1>2
<1> QED
  BY <1>1, <1>2, <1>3

\* Nothing read changes nothing.
LEMMA ReadingNone ==
  ASSUME NEW m \in Nat, NEW api, NEW st \in States(m) PROVE Reading(api, st, <<>>) = st
<1>1. <<>> \in Seq(Symbols(m)) /\ Len(<<>>) = 0
  OBVIOUS
<1>2. PICK g : ReadingRun(api, st, <<>>, States(m), g)
  BY <1>1, ReadingSteps
<1> QED
  BY <1>1, <1>2 DEF ReadingRun

\* To read two pieces is to read the one after the other: where the wire is cut is no matter.
LEMMA ReadingJoined ==
  ASSUME NEW m \in Nat, NEW api, NEW st \in States(m), NEW s \in Seq(Symbols(m)),
         NEW t \in Seq(Symbols(m))
  PROVE  Reading(api, st, s \o t) = Reading(api, Reading(api, st, s), t)
<1> DEFINE W == {u \in Seq(Symbols(m)) : Reading(api, st, s \o u) = Reading(api, Reading(api, st, s), u)}
<1>1. PICK mid : mid = Reading(api, st, s)
  OBVIOUS
<1>2. mid \in States(m)
  <2>1. PICK g : ReadingRun(api, st, s, States(m), g)
    BY ReadingSteps
  <2>2. Len(s) \in 0 .. Len(s)
    OBVIOUS
  <2> QED
    BY <1>1, <2>1, <2>2 DEF ReadingRun
<1>3. <<>> \in W
  <2>1. s \o <<>> = s /\ <<>> \in Seq(Symbols(m))
    OBVIOUS
  <2>2. Reading(api, mid, <<>>) = mid
    BY <1>2, ReadingNone
  <2> QED
    BY <1>1, <2>1, <2>2
<1>4. ASSUME NEW u \in Seq(Symbols(m)), NEW x \in Symbols(m), u \in W PROVE Append(u, x) \in W
  <2>1. s \o Append(u, x) = Append(s \o u, x) /\ s \o u \in Seq(Symbols(m))
    BY JoinedAppend
  <2>2. Reading(api, st, Append(s \o u, x)) = Read(api, Reading(api, st, s \o u), x)
    BY <2>1, ReadingAppend
  <2>3. Reading(api, mid, Append(u, x)) = Read(api, Reading(api, mid, u), x)
    BY <1>2, ReadingAppend
  <2>4. Reading(api, st, s \o u) = Reading(api, mid, u) /\ Append(u, x) \in Seq(Symbols(m))
    BY <1>1, <1>4
  <2> QED
    BY <1>1, <2>1, <2>2, <2>3, <2>4
<1>5. t \in W
  <2> HIDE DEF W
  <2>1. Seq(Symbols(m)) \subseteq W
    BY <1>3, <1>4, SequencesGrow
  <2> QED
    BY <2>1
<1> QED
  BY <1>5

\* Nothing brings nothing.
LEMMA FlowNone ==
  ASSUME NEW m \in Nat, NEW p \in Nat PROVE Flow(p, <<>>) = <<>>
<1>1. <<>> \in Seq(Symbols(m)) /\ Len(<<>>) = 0
  OBVIOUS
<1>2. PICK g : FlowRun(p, <<>>, Seq(Pieces), g)
  BY <1>1, FlowSteps
<1> QED
  BY <1>1, <1>2 DEF FlowRun

\* What symbols bring is a sequence of words.
LEMMA FlowTyped ==
  ASSUME NEW m \in Nat, NEW p \in Nat, NEW s \in Seq(Symbols(m))
  PROVE  Flow(p, s) \in Seq(Pieces)
<1>1. PICK g : FlowRun(p, s, Seq(Pieces), g)
  BY FlowSteps
<1>2. Len(s) \in 0 .. Len(s)
  OBVIOUS
<1> QED
  BY <1>1, <1>2 DEF FlowRun

\* What two pieces bring is what the one brings, then the other.
LEMMA FlowJoined ==
  ASSUME NEW m \in Nat, NEW p \in Nat, NEW s \in Seq(Symbols(m)), NEW t \in Seq(Symbols(m))
  PROVE  Flow(p, s \o t) = Flow(p, s) \o Flow(p, t)
<1> DEFINE W == {u \in Seq(Symbols(m)) : Flow(p, s \o u) = Flow(p, s) \o Flow(p, u)}
<1>1. <<>> \in W
  <2>1. s \o <<>> = s /\ <<>> \in Seq(Symbols(m))
    OBVIOUS
  <2>2. PICK f : f = Flow(p, s)
    OBVIOUS
  <2>3. f \in Seq(Pieces) /\ f \o <<>> = f
    BY <2>2, FlowTyped
  <2> QED
    BY <2>1, <2>2, <2>3, FlowNone
<1>2. ASSUME NEW u \in Seq(Symbols(m)), NEW x \in Symbols(m), u \in W PROVE Append(u, x) \in W
  <2>1. s \o Append(u, x) = Append(s \o u, x) /\ s \o u \in Seq(Symbols(m)) /\ Append(u, x) \in Seq(Symbols(m))
    BY JoinedAppend
  <2>2. PICK a, b, c : a = Flow(p, s) /\ b = Flow(p, u) /\ c = Weight(p, x)
    OBVIOUS
  <2>3. a \in Seq(Pieces) /\ b \in Seq(Pieces) /\ c \in Seq(Pieces)
    BY <2>2, FlowTyped, WeightIs
  <2>4. Flow(p, Append(s \o u, x)) = Flow(p, s \o u) \o c
    BY <2>1, <2>2, FlowAppend
  <2>5. Flow(p, Append(u, x)) = b \o c
    BY <2>2, FlowAppend
  <2>6. Flow(p, s \o u) = a \o b
    BY <1>2, <2>2
  <2>7. (a \o b) \o c = a \o (b \o c)
    BY <2>3
  <2> QED
    BY <2>1, <2>2, <2>4, <2>5, <2>6, <2>7
<1>3. t \in W
  <2> HIDE DEF W
  <2>1. Seq(Symbols(m)) \subseteq W
    BY <1>1, <1>2, SequencesGrow
  <2> QED
    BY <2>1
<1> QED
  BY <1>3

-----------------------------------------------------------------------------
(* ProviderStream: what may be lost.  For the text and for each block the words
   of the response, those of the event and of the line that wait, and those on
   the way are, in this order, words of the server. *)

\* What the response has for p.
Got(p, a) ==
  IF p = 0 THEN a.text ELSE IF p <= Len(a.buffers) THEN a.buffers[p].args ELSE <<>>

\* What a pending event will bring.
Waiting(api, p, data) ==
  IF api # "ollama" /\ Len(data) = 1 THEN PartOf(p, data[1]) ELSE <<>>

Held(api, p, st) ==
  Got(p, st.asm) \o (Waiting(api, p, st.data) \o PartOf(p, Payload(st.rest)))

\* What the server has said for p.
Told(p, s) ==
  IF p = 0 THEN s.text ELSE IF p <= Len(s.blocks) THEN s.blocks[p].args ELSE <<>>

\* Texts and fragments are pieces.
LEMMA PiecesIs ==
  /\ \A s : s \in Seq(Texts) => s \in Seq(Pieces)
  /\ \A s : s \in Seq(Frags) => s \in Seq(Pieces)
  /\ <<>> \in Seq(Pieces)
<1>1. Texts \subseteq Pieces /\ Frags \subseteq Pieces
  BY DEF Pieces
<1>2. ASSUME NEW A, NEW B, A \subseteq B, NEW s \in Seq(A) PROVE s \in Seq(B)
  <2>1. \A i \in 1 .. Len(s) : s[i] \in B
    BY <1>2
  <2> QED
    BY <2>1
<1> QED
  BY <1>1, <1>2

\* The only element of a sequence of one.
LEMMA OneElement ==
  ASSUME NEW V, NEW s \in Seq(V), Len(s) = 1
  PROVE  s # <<>> /\ Head(s) = s[1] /\ s[1] \in V
<1>1. s # <<>>
  OBVIOUS
<1>2. Head(s) = s[1] /\ s[1] \in V
  BY <1>1
<1> QED
  BY <1>1, <1>2

\* What the response holds of part p.
LEMMA GotIs ==
  ASSUME NEW n \in Nat, NEW p \in Nat, NEW a \in Assembled(n)
  PROVE  Got(p, a) \in Seq(Pieces)
<1>1. a.text \in Seq(Texts) /\ a.buffers \in Seq(Buffer)
  BY DEF Assembled, Buffers
<1>2. CASE p = 0
  BY <1>1, <1>2, PiecesIs DEF Got
<1>3. CASE p # 0 /\ p <= Len(a.buffers)
  <2>1. p \in 1 .. Len(a.buffers)
    BY <1>3
  <2>2. a.buffers[p].args \in Seq(Frags)
    <3>1. a.buffers[p] \in Buffer
      BY <1>1, <2>1
    <3> QED
      BY <3>1 DEF Buffer
  <2> QED
    BY <1>3, <2>2, PiecesIs DEF Got
<1>4. CASE p # 0 /\ ~(p <= Len(a.buffers))
  BY <1>4, PiecesIs DEF Got
<1> QED
  BY <1>2, <1>3, <1>4

\* What the lines of the event being read bring of part p.
LEMMA WaitingIs ==
  ASSUME NEW n \in Nat, NEW api, NEW p \in Nat, NEW data \in Seq(Events(n))
  PROVE  Waiting(api, p, data) \in Seq(Pieces)
<1>1. Len(data) = 1 => data[1] \in Events(n)
  OBVIOUS
<1> QED
  BY <1>1, PartIs, PiecesIs DEF Waiting

\* What the parser holds of part p, in the response and before it.
LEMMA HeldIs ==
  ASSUME NEW n \in Nat, NEW api, NEW p \in Nat, NEW st \in States(n)
  PROVE  /\ Held(api, p, st) \in Seq(Pieces)
         /\ Got(p, st.asm) \in Seq(Pieces) /\ Waiting(api, p, st.data) \in Seq(Pieces)
         /\ PartOf(p, Payload(st.rest)) \in Seq(Pieces)
<1>1. /\ Got(p, st.asm) \in Seq(Pieces) /\ Waiting(api, p, st.data) \in Seq(Pieces)
      /\ PartOf(p, Payload(st.rest)) \in Seq(Pieces)
  BY StateParts, GotIs, WaitingIs, PayloadIs, PartIs
<1>2. \A a, b, c \in Seq(Pieces) : a \o (b \o c) \in Seq(Pieces)
  OBVIOUS
<1> QED
  BY <1>1, <1>2 DEF Held

\* What cannot be parsed brings nothing.
LEMMA GarbledBrings ==
  ASSUME NEW p \in Nat PROVE PartOf(p, Garbled) = <<>>
<1>1. Garbled = [type |-> "garbled", index |-> 0, id |-> NoId, text |-> Empty,
                 args |-> Empty, calls |-> <<>>, stop |-> Empty]
  BY DEF Garbled, Event
<1>2. <<>> \o <<>> = <<>>
  OBVIOUS
<1> QED
  BY <1>1, <1>2 DEF PartOf, Fragment

\* The parts of an event, one after the other.
LEMMA PartHas ==
  ASSUME NEW n \in Nat, NEW p \in Nat, NEW e \in Events(n)
  PROVE  /\ p = 0 => PartOf(p, e) = Fragment(e.text)
         /\ p # 0 /\ e.index = p => Follows(Fragment(e.args), PartOf(p, e))
         /\ p # 0 /\ e.calls # <<>> /\ Head(e.calls).index = p =>
              Follows(Fragment(Head(e.calls).args), PartOf(p, e))
<1>1. e.calls # <<>> => Head(e.calls).args \in Fragments
  BY EventIs DEF Entries
<1>2. \A f \in Fragments : Fragment(f) \in Seq(Pieces)
  BY FragmentIs, PiecesIs
<1>3. PICK a, b : /\ a = IF e.index = p THEN Fragment(e.args) ELSE <<>>
                  /\ b = IF e.calls # <<>> /\ Head(e.calls).index = p
                         THEN Fragment(Head(e.calls).args) ELSE <<>>
  OBVIOUS
<1>4. a \in Seq(Pieces) /\ b \in Seq(Pieces)
  BY <1>1, <1>2, <1>3, PiecesIs, EventIs
<1>5. Follows(a, a \o b) /\ Follows(b, a \o b)
  BY <1>4, FollowsItself, FollowsEnds
<1>6. p # 0 => PartOf(p, e) = a \o b
  BY <1>3 DEF PartOf
<1> QED
  BY <1>3, <1>5, <1>6 DEF PartOf


\* Part p of a response whose buffers were set.
LEMMA GotBuffered ==
  ASSUME NEW n \in Nat, NEW p \in Nat, NEW a \in Assembled(n), NEW b \in Buffers(n)
  PROVE  Got(p, Buffered(a, b)) =
           IF p = 0 THEN Got(0, a) ELSE IF p <= Len(b) THEN b[p].args ELSE <<>>
BY DEF Got, Buffered

\* New buffers are empty.
LEMMA GrownHas ==
  ASSUME NEW n \in Nat, NEW p \in Nat \ {0}, NEW a \in Assembled(n), NEW i \in 0 .. n
  PROVE  LET g == Grown(a.buffers, i) IN
         /\ g \in Buffers(n) /\ Len(g) \in Nat /\ i <= Len(g)
         /\ p <= Len(g) => g[p].args = Got(p, a)
         /\ ~(p <= Len(g)) => Got(p, a) = <<>>
<1>1. PICK b : b = a.buffers
  OBVIOUS
<1>2. b \in Buffers(n) /\ Len(b) \in Nat
  BY <1>1 DEF Assembled, Buffers
<1>3. PICK g : g = Grown(b, i)
  OBVIOUS
<1>4. /\ g \in Buffers(n) /\ Len(g) = IF i > Len(b) THEN i ELSE Len(b)
      /\ \A j \in 1 .. Len(g) : g[j] = IF j <= Len(b) THEN b[j] ELSE NoBuffer
  BY <1>2, <1>3, GrownIs
<1>5. Len(g) \in Nat /\ i <= Len(g) /\ Len(b) <= Len(g)
  BY <1>2, <1>4
<1>6. Got(p, a) = IF p <= Len(b) THEN b[p].args ELSE <<>>
  BY <1>1 DEF Got
<1>7. p <= Len(g) => g[p].args = Got(p, a)
  <2>1. NoBuffer.args = <<>>
    BY DEF NoBuffer
  <2>2. p <= Len(g) => p \in 1 .. Len(g)
    BY <1>5
  <2> QED
    BY <1>4, <1>6, <2>1, <2>2
<1>8. ~(p <= Len(g)) => Got(p, a) = <<>>
  BY <1>2, <1>5, <1>6
<1> QED
  BY <1>1, <1>3, <1>4, <1>5, <1>7, <1>8

\* content_block_start adds to no part; it may clear the one of its index.
LEMMA BlockStartFollows ==
  ASSUME NEW n \in Nat, NEW p \in Nat, NEW st \in States(n), NEW e \in Events(n)
  PROVE  Follows(Got(p, BlockStart(st, e).asm), Got(p, st.asm))
<1>1. PICK a : a = st.asm
  OBVIOUS
<1>2. PICK g : g = Grown(a.buffers, e.index)
  OBVIOUS
<1>3. PICK b : b = IF e.type = "tool_use"
                   THEN [g EXCEPT ![e.index] = [id |-> e.id, marker |-> TRUE, args |-> <<>>]]
                   ELSE g
  OBVIOUS
<1>4. a \in Assembled(n) /\ e.index \in 0 .. n /\ e.index \in Nat /\ (e.type = "tool_use" => e.index >= 1)
  BY <1>1, StateParts, EventIs DEF Events
<1>5. BlockStart(st, e) = With(st, Buffered(a, b), st.sent) /\ b \in Buffers(n)
  BY <1>1, <1>2, <1>3, BlockStartIs
<1>6. BlockStart(st, e).asm = Buffered(a, b)
  BY <1>5 DEF With
<1>7. Got(p, a) \in Seq(Pieces) /\ Follows(Got(p, a), Got(p, a)) /\ Follows(<<>>, Got(p, a))
  BY <1>4, GotIs, FollowsItself, NothingFollows
<1>8. CASE p = 0
  BY <1>4, <1>5, <1>6, <1>7, <1>8, <1>1, GotBuffered
<1>9. CASE p # 0
  <2>1. /\ g \in Buffers(n) /\ Len(g) \in Nat /\ e.index <= Len(g)
        /\ p <= Len(g) => g[p].args = Got(p, a)
        /\ ~(p <= Len(g)) => Got(p, a) = <<>>
    <3>1. p \in Nat \ {0}
      BY <1>9
    <3> QED
      <4>1. PICK k : k = e.index
        OBVIOUS
      <4>2. k \in 0 .. n
        BY <1>4, <4>1
      <4>3. /\ Grown(a.buffers, k) \in Buffers(n) /\ Len(Grown(a.buffers, k)) \in Nat
            /\ k <= Len(Grown(a.buffers, k))
            /\ p <= Len(Grown(a.buffers, k)) => Grown(a.buffers, k)[p].args = Got(p, a)
            /\ ~(p <= Len(Grown(a.buffers, k))) => Got(p, a) = <<>>
        BY <1>4, <3>1, <4>2, GrownHas
      <4> QED
        BY <1>2, <4>1, <4>3
  <2>2. g \in Seq(Buffer) /\ DOMAIN g = 1 .. Len(g)
    BY <2>1 DEF Buffers
  <2>3. Len(b) = Len(g) /\ (p <= Len(b) => b[p].args \in {g[p].args, <<>>})
    <3>1. CASE e.type # "tool_use"
      BY <1>3, <3>1
    <3>2. CASE e.type = "tool_use"
      <4>1. b = [g EXCEPT ![e.index] = [id |-> e.id, marker |-> TRUE, args |-> <<>>]]
        BY <1>3, <3>2
      <4>2. PICK v : v = [id |-> e.id, marker |-> TRUE, args |-> <<>>]
        OBVIOUS
      <4>3. e.index \in 1 .. Len(g) /\ v.args = <<>>
        BY <1>4, <2>1, <3>2, <4>2
      <4>4. Len([g EXCEPT ![e.index] = v]) = Len(g)
        BY <2>2, <4>3
      <4>5. \A j \in 1 .. Len(g) : [g EXCEPT ![e.index] = v][j] = IF j = e.index THEN v ELSE g[j]
        BY <2>2
      <4>6. p <= Len(g) => p \in 1 .. Len(g)
        BY <1>9, <2>1
      <4> QED
        BY <4>1, <4>2, <4>3, <4>4, <4>5, <4>6
    <3> QED
      BY <3>1, <3>2
  <2>4. Got(p, Buffered(a, b)) = IF p <= Len(b) THEN b[p].args ELSE <<>>
    BY <1>4, <1>5, <1>9, GotBuffered
  <2> QED
    BY <1>1, <1>6, <1>7, <2>1, <2>3, <2>4
<1> QED
  BY <1>8, <1>9

\* text_delta adds its text to part 0, and to no other.
LEMMA TextDeltaFollows ==
  ASSUME NEW n \in Nat, NEW p \in Nat, NEW st \in States(n), NEW t \in Texts \cup {Empty}
  PROVE  Got(p, TextDelta(st, t).asm) =
           IF p = 0 THEN Got(0, st.asm) \o Fragment(t) ELSE Got(p, st.asm)
<1>1. PICK a : a = st.asm
  OBVIOUS
<1>2. a \in Assembled(n) /\ a.text \in Seq(Texts)
  BY <1>1, StateParts
<1>3. CASE t = Empty
  <2>1. TextDelta(st, t) = st /\ Fragment(t) = <<>>
    BY <1>3, TextDeltaIs DEF Fragment
  <2>2. a.text \o <<>> = a.text
    BY <1>2
  <2> QED
    BY <1>1, <2>1, <2>2 DEF Got
<1>4. CASE t # Empty
  <2>1. PICK x : x = Append(a.text, t)
    OBVIOUS
  <2>2. TextDelta(st, t) =
          With(st, [text |-> x, buffers |-> a.buffers, stop |-> a.stop],
               Append(st.sent, [type |-> "ContentDelta", text |-> t]))
    BY <1>1, <1>4, <2>1, TextDeltaIs
  <2>3. TextDelta(st, t).asm = [text |-> x, buffers |-> a.buffers, stop |-> a.stop]
    BY <2>2 DEF With
  <2>4. Fragment(t) = <<t>>
    BY <1>4 DEF Fragment
  <2>5. a.text \o <<t>> = Append(a.text, t)
    BY <1>2, <1>4
  <2>6. PICK u : u = TextDelta(st, t).asm
    OBVIOUS
  <2>7. u.text = a.text \o Fragment(t) /\ u.buffers = a.buffers
    <3>1. u.text = x /\ u.buffers = a.buffers
      BY <2>3, <2>6
    <3>2. x = a.text \o Fragment(t)
      BY <2>1, <2>4, <2>5
    <3> QED
      BY <3>1, <3>2
  <2>8. Got(p, u) = IF p = 0 THEN Got(0, a) \o Fragment(t) ELSE Got(p, a)
    BY <2>7 DEF Got
  <2> QED
    BY <1>1, <2>6, <2>8
<1> QED
  BY <1>3, <1>4

\* A reason to stop adds to no part.
LEMMA SetStopGot ==
  ASSUME NEW n \in Nat, NEW p \in Nat, NEW st \in States(n), NEW s \in Stops
  PROVE  Got(p, [st EXCEPT !.asm.stop = s].asm) = Got(p, st.asm)
<1>1. PICK x : x = [st EXCEPT !.asm.stop = s]
  OBVIOUS
<1>2. x = With(st, StoppedBy(st.asm, s), st.sent)
  BY <1>1, SetStop
<1>3. x.asm = StoppedBy(st.asm, s)
  BY <1>2 DEF With
<1>4. Got(p, x.asm) = Got(p, st.asm)
  BY <1>3 DEF Got, StoppedBy
<1> QED
  BY <1>1, <1>4

\* To put another buffer at i.
LEMMA GotSet ==
  ASSUME NEW n \in Nat, NEW p \in Nat, NEW a \in Assembled(n), NEW g \in Buffers(n),
         NEW i \in 1 .. Len(g), NEW v, [g EXCEPT ![i] = v] \in Buffers(n)
  PROVE  Got(p, Buffered(a, [g EXCEPT ![i] = v])) =
           IF p = 0 THEN Got(0, a) ELSE IF p = i THEN v.args
           ELSE IF p <= Len(g) THEN g[p].args ELSE <<>>
<1>1. g \in Seq(Buffer) /\ Len(g) \in Nat
  BY DEF Buffers
<1>2. PICK b : b = [g EXCEPT ![i] = v]
  OBVIOUS
<1>3. Len(b) = Len(g) /\ \A j \in 1 .. Len(g) : b[j] = IF j = i THEN v ELSE g[j]
  <2>1. b \in Seq(Buffer) /\ DOMAIN b = DOMAIN g
    BY <1>2 DEF Buffers
  <2> QED
    BY <1>1, <1>2, <2>1
<1>4. Got(p, Buffered(a, b)) = IF p = 0 THEN Got(0, a) ELSE IF p <= Len(b) THEN b[p].args ELSE <<>>
  BY <1>2, GotBuffered
<1>5. p # 0 /\ p <= Len(g) => p \in 1 .. Len(g)
  BY <1>1
<1> QED
  BY <1>1, <1>2, <1>3, <1>4, <1>5

\* input_json_delta adds its fragment to its block's part, if it adds at all.
LEMMA ArgsDeltaGot ==
  ASSUME NEW n \in Nat, NEW p \in Nat, NEW st \in States(n), NEW e \in Events(n),
         e.type = "input_json_delta"
  PROVE  \/ Got(p, ArgsDelta(st, e).asm) = Got(p, st.asm)
         \/ p # 0 /\ p = e.index /\ Got(p, ArgsDelta(st, e).asm) = Got(p, st.asm) \o Fragment(e.args)
<1>1. PICK a, b, i : a = st.asm /\ b = a.buffers /\ i = e.index
  OBVIOUS
<1>2. PICK v : v = [id |-> NoId, marker |-> FALSE, args |-> b[i].args \o Fragment(e.args)]
  OBVIOUS
<1>3. PICK d : d = Delta(IF b[i].marker THEN b[i].id ELSE NoId, e.args)
  OBVIOUS
<1>4. /\ ArgsDelta(st, e) = IF i > Len(b) THEN st
                            ELSE With(st, Buffered(a, [b EXCEPT ![i] = v]), Append(st.sent, d))
      /\ i \in 1 .. n /\ i <= Len(b) => [b EXCEPT ![i] = v] \in Buffers(n)
  BY <1>1, <1>2, <1>3, ArgsDeltaIs
<1>5. i \in 1 .. n /\ a \in Assembled(n) /\ b \in Buffers(n) /\ Len(b) \in Nat
  <2>1. e.index \in 1 .. n
    BY DEF Events
  <2> QED
    BY <1>1, <2>1, StateParts
<1>6. CASE i > Len(b)
  BY <1>1, <1>4, <1>6
<1>7. CASE ~(i > Len(b))
  <2>1. i \in 1 .. Len(b)
    BY <1>5, <1>7
  <2>2. ArgsDelta(st, e).asm = Buffered(a, [b EXCEPT ![i] = v])
    BY <1>4, <1>7 DEF With
  <2>3. [b EXCEPT ![i] = v] \in Buffers(n)
    BY <1>4, <1>5, <2>1
  <2>4. Got(p, Buffered(a, [b EXCEPT ![i] = v])) =
          IF p = 0 THEN Got(0, a) ELSE IF p = i THEN v.args
          ELSE IF p <= Len(b) THEN b[p].args ELSE <<>>
    <3>1. a \in Assembled(n) /\ b \in Buffers(n)
      BY <1>5
    <3> QED
      BY <2>1, <2>3, <3>1, GotSet
  <2>5. v.args = b[i].args \o Fragment(e.args)
    BY <1>2
  <2>6. Got(p, a) = IF p = 0 THEN Got(0, a) ELSE IF p <= Len(b) THEN b[p].args ELSE <<>>
    BY <1>1 DEF Got
  <2>7. i # 0 /\ i <= Len(b)
    BY <2>1
  <2> QED
    BY <1>1, <2>2, <2>4, <2>5, <2>6, <2>7
<1> QED
  BY <1>6, <1>7

\* An entry of tool_calls adds its fragment to its own part, and to no other.
LEMMA CallDeltaGot ==
  ASSUME NEW n \in Nat, NEW p \in Nat, NEW st \in States(n), NEW c \in Entries(n)
  PROVE  \/ p # c.index /\ Got(p, CallDelta(st, c).asm) = Got(p, st.asm)
         \/ p # 0 /\ p = c.index /\ Got(p, CallDelta(st, c).asm) = Got(p, st.asm) \o Fragment(c.args)
<1>1. PICK a, i : a = st.asm /\ i = c.index
  OBVIOUS
<1>2. PICK g : g = Grown(a.buffers, i)
  OBVIOUS
<1>3. PICK id : id = IF c.id = NoId THEN g[i].id ELSE c.id
  OBVIOUS
<1>4. PICK v : v = [id |-> id, marker |-> g[i].marker, args |-> g[i].args \o Fragment(c.args)]
  OBVIOUS
<1>5. /\ CallDelta(st, c) =
           With(st, Buffered(a, [g EXCEPT ![i] = v]), Append(st.sent, Delta(id, c.args)))
      /\ g \in Buffers(n) /\ i \in 1 .. Len(g) /\ [g EXCEPT ![i] = v] \in Buffers(n) /\ i \in 1 .. n
  BY <1>1, <1>2, <1>3, <1>4, CallDeltaIs
<1>6. CallDelta(st, c).asm = Buffered(a, [g EXCEPT ![i] = v])
  BY <1>5 DEF With
<1>7. a \in Assembled(n) /\ i # 0 /\ i <= Len(g) /\ i \in 0 .. n
  BY <1>1, <1>5, StateParts
<1>8. Got(p, Buffered(a, [g EXCEPT ![i] = v])) =
        IF p = 0 THEN Got(0, a) ELSE IF p = i THEN v.args
        ELSE IF p <= Len(g) THEN g[p].args ELSE <<>>
  BY <1>5, <1>7, GotSet
<1>9. p # 0 => /\ p <= Len(g) => g[p].args = Got(p, a)
               /\ ~(p <= Len(g)) => Got(p, a) = <<>>
  BY <1>2, <1>7, GrownHas
<1>10. v.args = g[i].args \o Fragment(c.args)
  BY <1>4
<1> QED
  BY <1>1, <1>6, <1>7, <1>8, <1>9, <1>10

\* An event decoded adds no more to any part than its lines brought.
LEMMA DecodeFollows ==
  ASSUME NEW n \in Nat, NEW p \in Nat, NEW api, NEW st \in States(n), NEW name \in Names,
         NEW data \in Seq(Events(n)), api # "ollama"
  PROVE  Follows(Got(p, Decode(api, st, name, data).asm),
                 Got(p, st.asm) \o Waiting(api, p, data))
<1>1. PICK d : d = Decode(api, st, name, data)
  OBVIOUS
<1>2. PICK got, w : got = Got(p, st.asm) /\ w = Waiting(api, p, data)
  OBVIOUS
<1>3. got \in Seq(Pieces) /\ w \in Seq(Pieces)
  BY <1>2, StateParts, GotIs, WaitingIs
<1>4. Follows(got, got) /\ Follows(got, got \o w) /\ got \o w \in Seq(Pieces)
  <2>1. Follows(got, got)
    BY <1>3, FollowsItself
  <2>2. got \o w \in Seq(Pieces)
    BY <1>3
  <2> QED
    BY <1>3, <2>1, <2>2, FollowsEnds
<1>5. ASSUME NEW f \in Seq(Pieces), Follows(f, w) PROVE Follows(got \o f, got \o w)
  BY <1>3, <1>4, <1>5, FollowsJoined
<1>6. CASE Len(data) # 1 \/ Head(data) = Garbled
  BY <1>2, <1>4, <1>6 DEF Decode
<1>7. CASE ~(Len(data) # 1 \/ Head(data) = Garbled)
  <2>1. PICK e \in Events(n) : e = Head(data) /\ e = data[1]
    <3> QED
      BY <1>7, OneElement
  <2>2. w = PartOf(p, e)
    BY <1>2, <1>7, <2>1 DEF Waiting
  <2>3. \A g \in Fragments : Fragment(g) \in Seq(Pieces)
    BY FragmentIs, PiecesIs
  <2>4. \A t \in Texts \cup {Empty} : (p = 0 /\ Fragment(t) = w) \/ p # 0 \/ t # e.text
    BY <2>1, <2>2, PartHas
  <2>5. ASSUME NEW t, t = e.text
        PROVE  Follows(Got(p, TextDelta(st, t).asm), got \o w)
    <3>1. t \in Texts \cup {Empty}
      BY <2>5, EventIs
    <3>2. Got(p, TextDelta(st, t).asm) = IF p = 0 THEN got \o Fragment(t) ELSE got
      BY <1>2, <3>1, TextDeltaFollows
    <3>3. p = 0 => Fragment(t) = w
      BY <2>4, <2>5, <3>1
    <3>4. Follows(got \o w, got \o w)
      BY <1>4, FollowsItself
    <3> QED
      BY <1>4, <3>2, <3>3, <3>4
  <2>6. ASSUME NEW s \in Stops PROVE Follows(Got(p, [st EXCEPT !.asm.stop = s].asm), got \o w)
    BY <1>2, <1>4, SetStopGot
  <2>7. CASE api = "anthropic"
    <3>1. d = DecodeAnthropic(st, name, e)
      BY <1>1, <1>7, <2>1, <2>7 DEF Decode
    <3>2. CASE name = "content_block_start"
      <4>1. d = BlockStart(st, e) /\ d.asm \in Assembled(n)
        BY <3>1, <3>2, BlockStartIs, StateParts DEF DecodeAnthropic
      <4>2. Follows(Got(p, d.asm), got)
        BY <1>2, <4>1, BlockStartFollows
      <4>3. Got(p, d.asm) \in Seq(Pieces)
        BY <4>1, GotIs
      <4> QED
        BY <1>1, <1>2, <1>3, <4>2, <4>3, FollowsEnds
    <3>3. CASE name = "content_block_delta" /\ e.type = "text_delta"
      BY <1>1, <1>2, <2>5, <3>1, <3>3 DEF DecodeAnthropic
    <3>4. CASE name = "content_block_delta" /\ e.type = "input_json_delta"
      <4>1. d = ArgsDelta(st, e)
        BY <3>1, <3>4 DEF DecodeAnthropic
      <4>2. \/ Got(p, d.asm) = got
            \/ p # 0 /\ p = e.index /\ Got(p, d.asm) = got \o Fragment(e.args)
        BY <1>2, <3>4, <4>1, ArgsDeltaGot
      <4>3. p # 0 /\ p = e.index => Follows(Fragment(e.args), w)
        BY <2>2, PartHas
      <4> QED
        BY <1>1, <1>2, <1>4, <1>5, <2>3, <4>2, <4>3, EventIs
    <3>5. CASE name = "message_delta" /\ e.stop # Empty
      BY <1>1, <1>2, <2>6, <3>1, <3>5, EventIs DEF DecodeAnthropic
    <3>6. CASE /\ name # "content_block_start"
               /\ ~(name = "content_block_delta" /\ e.type = "text_delta")
               /\ ~(name = "content_block_delta" /\ e.type = "input_json_delta")
               /\ ~(name = "message_delta" /\ e.stop # Empty)
      BY <1>1, <1>2, <1>4, <3>1, <3>6 DEF DecodeAnthropic
    <3> QED
      BY <3>2, <3>3, <3>4, <3>5, <3>6
  <2>8. CASE api # "anthropic"
    <3>1. d = DecodeOpenAi(st, e)
      BY <1>1, <1>7, <2>1, <2>8 DEF Decode
    <3>2. CASE e.text # Empty
      BY <1>1, <1>2, <2>5, <3>1, <3>2 DEF DecodeOpenAi
    <3>3. CASE e.text = Empty /\ e.calls # <<>>
      <4>1. PICK c \in Entries(n) : c = Head(e.calls)
        BY <3>3, EventIs
      <4>2. d = CallDelta(st, c)
        BY <3>1, <3>3, <4>1 DEF DecodeOpenAi
      <4>3. \/ Got(p, d.asm) = got
            \/ p # 0 /\ p = c.index /\ Got(p, d.asm) = got \o Fragment(c.args)
        BY <1>2, <4>2, CallDeltaGot
      <4>4. p # 0 /\ p = c.index => Follows(Fragment(c.args), w)
        BY <2>2, <3>3, <4>1, PartHas
      <4>5. c.args \in Fragments
        BY DEF Entries
      <4> QED
        BY <1>1, <1>2, <1>4, <1>5, <2>3, <4>3, <4>4, <4>5
    <3>4. CASE e.text = Empty /\ e.calls = <<>> /\ e.stop # Empty
      BY <1>1, <1>2, <2>6, <3>1, <3>4, EventIs DEF DecodeOpenAi
    <3>5. CASE e.text = Empty /\ e.calls = <<>> /\ e.stop = Empty
      BY <1>1, <1>2, <1>4, <3>1, <3>5 DEF DecodeOpenAi
    <3> QED
      BY <3>2, <3>3, <3>4, <3>5
  <2> QED
    BY <2>7, <2>8
<1> QED
  BY <1>6, <1>7


\* One symbol more in the line.
LEMMA PayloadFollows ==
  ASSUME NEW n \in Nat, NEW p \in Nat, NEW rest \in Seq(Symbols(n)), NEW x \in Symbols(n)
  PROVE  Follows(PartOf(p, Payload(Append(rest, x))), PartOf(p, Payload(rest)) \o Weight(p, x))
<1>1. PICK y : y = Append(rest, x)
  OBVIOUS
<1>2. /\ y \in Seq(Symbols(n)) /\ Len(y) = Len(rest) + 1 /\ y[Len(y)] = x
  BY <1>1
<1>3. PICK a, b : a = PartOf(p, Payload(rest)) /\ b = Weight(p, x)
  OBVIOUS
<1>4. a \in Seq(Pieces) /\ b \in Seq(Pieces)
  BY <1>3, PayloadIs, PartIs, WeightIs
<1>5. Follows(b, a \o b) /\ Follows(<<>>, a \o b)
  <2>1. a \o b \in Seq(Pieces)
    BY <1>4
  <2> QED
    BY <1>4, <2>1, FollowsItself, FollowsEnds, NothingFollows
<1>6. CASE Len(y) = 1 /\ y[1].k = "data"
  <2>1. Payload(y) = x.of /\ x.k = "data"
    BY <1>2, <1>6 DEF Payload
  <2> QED
    BY <1>1, <1>3, <1>5, <2>1 DEF Weight
<1>7. CASE Len(y) = 2 /\ y[1].k = "first" /\ y[2] = Half("second", y[1].of)
  <2>1. Payload(y) = y[1].of /\ x = Half("second", y[1].of)
    BY <1>2, <1>7 DEF Payload
  <2>2. x.k = "second" /\ x.of = Payload(y)
    BY <2>1 DEF Half
  <2> QED
    BY <1>1, <1>3, <1>5, <2>2 DEF Weight
<1>8. CASE /\ ~(Len(y) = 1 /\ y[1].k = "data")
           /\ ~(Len(y) = 2 /\ y[1].k = "first" /\ y[2] = Half("second", y[1].of))
  <2>1. Payload(y) = Garbled
    BY <1>8 DEF Payload
  <2> QED
    BY <1>1, <1>3, <1>5, <2>1, GarbledBrings
<1> QED
  BY <1>6, <1>7, <1>8

\* Each part by itself.
LEMMA ThreeFollow ==
  ASSUME NEW V, NEW a \in Seq(V), NEW b \in Seq(V), NEW c \in Seq(V),
         NEW d \in Seq(V), NEW e \in Seq(V), NEW f \in Seq(V),
         Follows(a, d), Follows(b, e), Follows(c, f)
  PROVE  Follows(a \o (b \o c), d \o (e \o f))
<1>1. b \o c \in Seq(V) /\ e \o f \in Seq(V)
  OBVIOUS
<1>2. Follows(b \o c, e \o f)
  BY FollowsJoined
<1> QED
  BY <1>1, <1>2, FollowsJoined

\* A symbol read leaves no more held than was held and the symbol brings.
LEMMA ReadFollows ==
  ASSUME NEW n \in Nat, NEW p \in Nat, NEW api, NEW st \in States(n), NEW x \in Symbols(n)
  PROVE  Follows(Held(api, p, Read(api, st, x)), Held(api, p, st) \o Weight(p, x))
<1>1. PICK got, w, rs, wt : /\ got = Got(p, st.asm) /\ w = Waiting(api, p, st.data)
                           /\ rs = PartOf(p, Payload(st.rest)) /\ wt = Weight(p, x)
  OBVIOUS
<1>2. got \in Seq(Pieces) /\ w \in Seq(Pieces) /\ rs \in Seq(Pieces) /\ wt \in Seq(Pieces)
  BY <1>1, HeldIs, WeightIs
<1>3. Held(api, p, st) = got \o (w \o rs)
  BY <1>1 DEF Held
<1>4. /\ (got \o (w \o rs)) \o wt = got \o (w \o (rs \o wt)) /\ rs \o wt \in Seq(Pieces)
      /\ (got \o w) \o rs = got \o (w \o rs) /\ got \o w \in Seq(Pieces)
      /\ got \o (w \o rs) \in Seq(Pieces) /\ w \o rs \in Seq(Pieces) /\ <<>> \in Seq(Pieces)
  <2>1. w \o rs \in Seq(Pieces) /\ rs \o wt \in Seq(Pieces) /\ got \o w \in Seq(Pieces)
    BY <1>2
  <2>2. (got \o w) \o rs = got \o (w \o rs) /\ got \o (w \o rs) \in Seq(Pieces)
    BY <1>2
  <2>3. (w \o rs) \o wt = w \o (rs \o wt)
    BY <1>2
  <2>4. \A b \in Seq(Pieces) : (got \o b) \o wt = got \o (b \o wt)
    BY <1>2
  <2>5. (got \o (w \o rs)) \o wt = got \o (w \o (rs \o wt))
    BY <2>1, <2>3, <2>4, Zenon
  <2>6. <<>> \in Seq(Pieces)
    OBVIOUS
  <2> QED
    BY <2>1, <2>2, <2>5, <2>6
<1>5. Follows(got, got) /\ Follows(w, w) /\ Follows(<<>>, rs) /\ Follows(rs, rs) /\ Follows(<<>>, w)
  BY <1>2, FollowsItself, NothingFollows
<1>6. CASE x # Newline
  <2>1. PICK y : y = Append(st.rest, x)
    OBVIOUS
  <2>2. PICK t : t = Read(api, st, x)
    OBVIOUS
  <2>3. t.asm = st.asm /\ t.data = st.data /\ t.rest = y
    BY <1>6, <2>1, <2>2 DEF Read, States
  <2>4. Held(api, p, t) = got \o (w \o PartOf(p, Payload(y)))
    BY <1>1, <2>3 DEF Held
  <2>5. Follows(PartOf(p, Payload(y)), rs \o wt) /\ PartOf(p, Payload(y)) \in Seq(Pieces)
    <3>1. st.rest \in Seq(Symbols(n))
      BY StateParts
    <3>2. y \in Seq(Symbols(n))
      BY <2>1, <3>1
    <3> QED
      BY <1>1, <2>1, <3>1, <3>2, PayloadFollows, PayloadIs, PartIs
  <2>6. Follows(got \o (w \o PartOf(p, Payload(y))), got \o (w \o (rs \o wt)))
    BY <1>2, <1>4, <1>5, <2>5, ThreeFollow
  <2> QED
    BY <1>1, <1>3, <1>4, <2>2, <2>4, <2>6
<1>7. CASE x = Newline
  <2>1. PICK r \in States(n) : r = TakeLine(api, st, st.rest)
    BY TakeLineTyped, StateParts
  <2>2. PICK t : t = Read(api, st, x)
    OBVIOUS
  <2>3. t.asm = r.asm /\ t.data = r.data /\ t.rest = <<>>
    BY <1>7, <2>1, <2>2 DEF Read, States
  <2>4. PICK g, v : g = Got(p, r.asm) /\ v = Waiting(api, p, r.data)
    OBVIOUS
  <2>5. g \in Seq(Pieces) /\ v \in Seq(Pieces)
    BY <2>4, HeldIs
  <2>6. PartOf(p, Payload(<<>>)) = <<>>
    <3>1. Payload(<<>>) = Garbled
      BY DEF Payload
    <3> QED
      BY <3>1, GarbledBrings
  <2>7. Held(api, p, t) = g \o v
    <3>1. Held(api, p, t) = g \o (v \o PartOf(p, Payload(<<>>)))
      BY <2>3, <2>4 DEF Held
    <3>2. v \o <<>> = v
      BY <2>5
    <3> QED
      BY <2>6, <3>1, <3>2
  <2>8. wt = <<>>
    BY <1>1, <1>7 DEF Weight, Newline
  <2>9. Held(api, p, st) \o wt = got \o (w \o rs)
    BY <1>3, <1>4, <2>8
  <2>10. Follows(g \o v, got \o (w \o rs))
    <3>1. CASE api = "ollama"
      <4>1. w = <<>> /\ v = <<>>
        BY <1>1, <2>4, <3>1 DEF Waiting
      <4>2. g \o v = g /\ w \o rs = rs
        BY <1>2, <2>5, <4>1
      <4>3. r = TakeJsonLine(st, st.rest)
        BY <2>1, <3>1 DEF TakeLine
      <4>4. CASE Payload(st.rest) = Garbled
        <5>1. g = got
          BY <1>1, <2>4, <4>3, <4>4 DEF TakeJsonLine
        <5> QED
          BY <1>2, <1>5, <4>2, <5>1, FollowsEnds
      <4>5. CASE Payload(st.rest) # Garbled
        <5>1. PICK e \in Events(n) : e = Payload(st.rest)
          BY PayloadIs, StateParts
        <5>2. r = TextDelta(st, e.text) /\ e.text \in Texts \cup {Empty}
          BY <4>3, <4>5, <5>1, EventIs DEF TakeJsonLine
        <5>3. g = IF p = 0 THEN got \o Fragment(e.text) ELSE got
          BY <1>1, <2>4, <5>2, TextDeltaFollows
        <5>4. p = 0 => Fragment(e.text) = rs
          BY <1>1, <5>1, PartHas
        <5>5. g = got \o rs \/ g = got
          BY <5>3, <5>4
        <5>6. got \o rs \in Seq(Pieces)
          BY <1>2
        <5> QED
          BY <1>2, <1>5, <4>2, <5>5, <5>6, FollowsEnds, FollowsItself
      <4> QED
        BY <4>4, <4>5
    <3>2. CASE api # "ollama" /\ st.rest = <<>>
      <4>1. PICK d \in States(n) : d = Decode(api, st, st.name, st.data)
        BY DecodeTyped, StateParts
      <4>2. r = [d EXCEPT !.name = Empty, !.data = <<>>]
        BY <2>1, <3>2, <4>1 DEF TakeLine, TakeSseLine
      <4>3. r.asm = d.asm /\ r.data = <<>>
        BY <4>2 DEF States
      <4>4. v = <<>>
        BY <2>4, <4>3 DEF Waiting
      <4>5. g \o v = g
        BY <2>5, <4>4
      <4>6. Follows(g, got \o w)
        BY <1>1, <2>4, <3>2, <4>1, <4>3, StateParts, DecodeFollows
      <4> QED
        BY <1>2, <1>4, <2>5, <4>5, <4>6, FollowsEnds
    <3>3. CASE api # "ollama" /\ st.rest # <<>> /\ st.rest[1].k = "name"
      <4>1. r = [st EXCEPT !.name = FieldName(st.rest)]
        BY <2>1, <3>3 DEF TakeLine, TakeSseLine
      <4>2. r.asm = st.asm /\ r.data = st.data
        BY <4>1 DEF States
      <4>3. g = got /\ v = w
        BY <1>1, <2>4, <4>2
      <4>4. Follows(w, w \o rs)
        BY <1>2, <1>5, FollowsEnds
      <4> QED
        BY <1>2, <1>4, <1>5, <4>3, <4>4, FollowsJoined
    <3>4. CASE api # "ollama" /\ st.rest # <<>> /\ ~(st.rest[1].k = "name")
      <4>1. PICK e \in Events(n) : e = Payload(st.rest)
        BY PayloadIs, StateParts
      <4>2. r = [st EXCEPT !.data = Append(st.data, e)]
        BY <2>1, <3>4, <4>1 DEF TakeLine, TakeSseLine
      <4>3. r.asm = st.asm /\ r.data = Append(st.data, e)
        BY <4>2 DEF States
      <4>4. g = got
        BY <1>1, <2>4, <4>3
      <4>5. st.data \in Seq(Events(n)) /\ Len(st.data) \in Nat
        BY StateParts
      <4>6. v = rs \/ v = <<>>
        <5>1. PICK u : u = Append(st.data, e)
          OBVIOUS
        <5>2. Len(u) = Len(st.data) + 1 /\ (Len(st.data) = 0 => u[1] = e)
          BY <4>5, <5>1
        <5>3. v = IF Len(u) = 1 THEN PartOf(p, u[1]) ELSE <<>>
          BY <2>4, <3>4, <4>3, <5>1 DEF Waiting
        <5>4. Len(u) = 1 => Len(st.data) = 0
          <6>1. PICK k \in Nat : k = Len(st.data) /\ Len(u) = k + 1
            BY <4>5, <5>2
          <6>2. k + 1 = 1 => k = 0
            OBVIOUS
          <6> QED
            BY <6>1, <6>2, Zenon
        <5> QED
          BY <1>1, <4>1, <5>2, <5>3, <5>4
      <4>7. Follows(v, rs)
        BY <1>5, <4>6
      <4>8. Follows(v, w \o rs)
        BY <1>2, <2>5, <4>7, FollowsEnds
      <4> QED
        BY <1>2, <1>4, <1>5, <2>5, <4>4, <4>8, FollowsJoined
    <3> QED
      BY <3>1, <3>2, <3>3, <3>4
  <2> QED
    BY <1>1, <2>2, <2>7, <2>9, <2>10
<1> QED
  BY <1>6, <1>7

\* Symbols read keep the types.
LEMMA ReadingTyped ==
  ASSUME NEW m \in Nat, NEW api, NEW st \in States(m), NEW s \in Seq(Symbols(m))
  PROVE  Reading(api, st, s) \in States(m)
<1>1. PICK g : ReadingRun(api, st, s, States(m), g)
  BY ReadingSteps
<1>2. Len(s) \in 0 .. Len(s)
  OBVIOUS
<1> QED
  BY <1>1, <1>2 DEF ReadingRun

\* The same of a chunk.
LEMMA ReadingFollows ==
  ASSUME NEW n \in Nat, NEW p \in Nat, NEW api, NEW st \in States(n), NEW s \in Seq(Symbols(n))
  PROVE  Follows(Held(api, p, Reading(api, st, s)), Held(api, p, st) \o Flow(p, s))
<1> DEFINE held(t) == Held(api, p, t)
           W == {u \in Seq(Symbols(n)) :
                   Follows(held(Reading(api, st, u)), held(st) \o Flow(p, u))}
<1>1. <<>> \in W
  <2>1. PICK h : h = held(st)
    OBVIOUS
  <2>2. h \in Seq(Pieces) /\ h \o <<>> = h
    BY <2>1, HeldIs
  <2>3. Follows(h, h)
    BY <2>2, FollowsItself
  <2>4. <<>> \in Seq(Symbols(n))
    OBVIOUS
  <2>5. Flow(p, <<>>) = <<>> /\ Reading(api, st, <<>>) = st
    BY FlowNone, ReadingNone
  <2> QED
    BY <2>1, <2>2, <2>3, <2>4, <2>5
<1>2. ASSUME NEW u \in Seq(Symbols(n)), NEW x \in Symbols(n), u \in W PROVE Append(u, x) \in W
  <2>1. PICK t \in States(n) : t = Reading(api, st, u)
    BY ReadingTyped
  <2>2. Reading(api, st, Append(u, x)) = Read(api, t, x)
    BY <2>1, ReadingAppend
  <2>3. PICK a, b, c, d, e : /\ a = held(Read(api, t, x)) /\ b = held(t) /\ c = Weight(p, x)
                             /\ d = held(st) /\ e = Flow(p, u)
    OBVIOUS
  <2>4. Read(api, t, x) \in States(n)
    BY ReadTyped
  <2>5. /\ a \in Seq(Pieces) /\ b \in Seq(Pieces) /\ c \in Seq(Pieces) /\ d \in Seq(Pieces)
        /\ e \in Seq(Pieces)
    BY <2>3, <2>4, HeldIs, WeightIs, FlowTyped
  <2>6. Follows(a, b \o c)
    BY <2>3, ReadFollows
  <2>7. Follows(b, d \o e) /\ Follows(c, c)
    BY <1>2, <2>1, <2>3, <2>5, FollowsItself
  <2>8. b \o c \in Seq(Pieces) /\ d \o e \in Seq(Pieces) /\ (d \o e) \o c = d \o (e \o c) /\ (d \o e) \o c \in Seq(Pieces)
    BY <2>5
  <2>9. Follows(b \o c, (d \o e) \o c)
    BY <2>5, <2>7, <2>8, FollowsJoined
  <2>10. Follows(a, (d \o e) \o c)
    BY <2>5, <2>6, <2>8, <2>9, FollowsThrough
  <2>11. Flow(p, Append(u, x)) = e \o c
    BY <2>3, FlowAppend
  <2>12. Append(u, x) \in Seq(Symbols(n))
    OBVIOUS
  <2>13. Follows(held(Reading(api, st, Append(u, x))), held(st) \o Flow(p, Append(u, x)))
    BY <2>2, <2>3, <2>8, <2>10, <2>11
  <2> QED
    BY <2>12, <2>13
<1>3. s \in W
  <2> HIDE DEF W
  <2>1. Seq(Symbols(n)) \subseteq W
    BY <1>1, <1>2, SequencesGrow
  <2> QED
    BY <2>1
<1> QED
  BY <1>3

-----------------------------------------------------------------------------
(* ProviderStream: the invariant. *)

SaidBlock == [kind : {"text", "tool_use"}, id : Nat, args : Seq(Frags)]

\* What a server can have described: the id of a block counts from 0, and only
\* calls have arguments.
Described ==
  {s \in [text : Seq(Texts), blocks : Seq(SaidBlock), stop : {"Stop", "ToolUse"}] :
     \A i \in 1 .. Len(s.blocks) :
       /\ s.blocks[i].id = i - 1
       /\ s.blocks[i].kind = "text" => s.blocks[i].args = <<>>}

\* OpenAI's blocks are the calls.
CallsOnly(s) == \A i \in 1 .. Len(s.blocks) : s.blocks[i].kind = "tool_use"

\* Each block as a call of the sink; the calls some delta told the sink of.
CallOf(blocks) == [i \in 1 .. Len(blocks) |-> [id |-> i - 1, args |-> blocks[i].args]]
Begun(blocks, buffers) ==
  {i \in 1 .. Len(blocks) : blocks[i].kind = "tool_use" /\ ~buffers[i].marker}

\* The parser between two events.
Clean(asm1, sent1) ==
  [rest |-> <<>>, name |-> Empty, data |-> <<>>, asm |-> asm1, sent |-> sent1]

\* Buffer by buffer the decoder, and call by call the sink, have what was said.
Alike(api, blocks, buffers, calls) ==
  CASE api = "ollama" -> blocks = <<>> /\ buffers = <<>> /\ calls = <<>>
    [] api = "openai" ->
         /\ Len(buffers) = Len(blocks)
         /\ \A i \in 1 .. Len(blocks) :
              /\ blocks[i].kind = "tool_use"
              /\ buffers[i] = [id |-> i - 1, marker |-> FALSE, args |-> blocks[i].args]
         /\ calls = CallOf(blocks)
    [] OTHER ->
         /\ Len(buffers) = Len(blocks)
         /\ \A i \in 1 .. Len(blocks) :
              /\ buffers[i].args = blocks[i].args
              /\ buffers[i].marker =>
                   /\ buffers[i] = [id |-> i - 1, marker |-> TRUE, args |-> <<>>]
                   /\ blocks[i].kind = "tool_use"
         /\ calls = Chosen(CallOf(blocks), Begun(blocks, buffers))

\* st is what a client is left with that has read every word of s.
Matches(api, s, st) ==
  /\ st = Clean(st.asm, st.sent)
  /\ st.asm.text = s.text /\ st.asm.stop = s.stop
  /\ Captured(st.sent).text = s.text
  /\ Alike(api, s.blocks, st.asm.buffers, Captured(st.sent).calls)

\* While the response is read: nothing is held or on the way that was not said,
\* and, if nothing was lost, to read what is on the way makes the response whole.
Typed ==
  /\ Connection \in States(Len(said.blocks))
  /\ wire \in Seq(Symbols(Len(said.blocks)))
Spoken ==
  \A p \in Nat : Follows(Held(adapter, p, Connection) \o Flow(p, wire), Told(p, said))
Whole == ~lossy => Matches(adapter, said, Reading(adapter, Connection, wire))
Running == Typed /\ (sent = <<>> => wire = <<>>) /\ Spoken /\ Whole

StreamInv ==
  /\ adapter \in Apis
  /\ said \in Described
  /\ adapter = "openai" => CallsOnly(said)
  /\ outcome \in {"running", "ok", "err"}
  /\ outcome = "running" => Running
  /\ outcome # "running" => FinalIsWhatWasSaid

\* What n blocks can be in, n + 1 can.
LEMMA SeqGrows ==
  ASSUME NEW A, NEW B, A \subseteq B PROVE Seq(A) \subseteq Seq(B)
<1> SUFFICES ASSUME NEW s \in Seq(A) PROVE s \in Seq(B)
  OBVIOUS
<1>1. \A i \in 1 .. Len(s) : s[i] \in B
  OBVIOUS
<1> QED
  BY <1>1

\* The types grow with the number of blocks described.
LEMMA TypesGrow ==
  ASSUME NEW m \in Nat, NEW n \in Nat, m <= n
  PROVE  /\ Events(m) \subseteq Events(n) /\ Symbols(m) \subseteq Symbols(n)
         /\ States(m) \subseteq States(n)
         /\ Seq(Symbols(m)) \subseteq Seq(Symbols(n))
<1>1. 1 .. m \subseteq 1 .. n /\ 0 .. m \subseteq 0 .. n
  OBVIOUS
<1>2. Entries(m) \subseteq Entries(n)
  BY <1>1 DEF Entries
<1>3. Seq(Entries(m)) \subseteq Seq(Entries(n))
  BY <1>2, SeqGrows
<1>4. Events(m) \subseteq Events(n)
  BY <1>1, <1>3 DEF Events
<1>5. Symbols(m) \subseteq Symbols(n)
  BY <1>4 DEF Symbols
<1>6. Seq(Events(m)) \subseteq Seq(Events(n)) /\ Seq(Symbols(m)) \subseteq Seq(Symbols(n))
  BY <1>4, <1>5, SeqGrows
<1>7. Buffers(m) \subseteq Buffers(n)
  <2> SUFFICES ASSUME NEW b \in Buffers(m) PROVE b \in Buffers(n)
    OBVIOUS
  <2>1. Len(b) \in Nat /\ Len(b) <= m
    BY DEF Buffers
  <2>2. Len(b) <= n
    BY <2>1
  <2> QED
    BY <2>2 DEF Buffers
<1>8. Assembled(m) \subseteq Assembled(n)
  BY <1>7 DEF Assembled
<1>9. States(m) \subseteq States(n)
  BY <1>6, <1>8 DEF States
<1> QED
  BY <1>4, <1>5, <1>6, <1>9

\* Short sequences, one element after another.
LEMMA Tuples ==
  ASSUME NEW V, NEW a \in V, NEW b \in V, NEW c \in V
  PROVE  /\ <<a>> = Append(<<>>, a) /\ Append(<<a>>, b) = <<a, b>>
         /\ Append(<<a, b>>, c) = <<a, b, c>>
<1>1. /\ <<a>> \in Seq(V) /\ <<a, b>> \in Seq(V) /\ <<a, b, c>> \in Seq(V)
      /\ Len(<<a>>) = 1 /\ Len(<<a, b>>) = 2 /\ Len(<<a, b, c>>) = 3
  OBVIOUS
<1>2. PICK s, t, u : s = <<a>> /\ t = <<a, b>> /\ u = <<a, b, c>>
  OBVIOUS
<1>3. s[1] = a /\ t[1] = a /\ t[2] = b /\ u[1] = a /\ u[2] = b /\ u[3] = c
  BY <1>2
<1>4. <<a>> = Append(<<>>, a)
  OBVIOUS
<1>5. Append(s, b) = t
  <2>1. PICK v : v = Append(s, b)
    OBVIOUS
  <2>2. v \in Seq(V) /\ Len(v) = 2 /\ v[1] = a /\ v[2] = b
    BY <1>1, <1>2, <1>3, <2>1
  <2>3. t \in Seq(V) /\ Len(t) = 2
    BY <1>1, <1>2
  <2>4. \A i \in 1 .. 2 : v[i] = t[i]
    BY <1>3, <2>2
  <2> QED
    BY <2>1, <2>2, <2>3, <2>4
<1>6. Append(t, c) = u
  <2>1. PICK v : v = Append(t, c)
    OBVIOUS
  <2>2. v \in Seq(V) /\ Len(v) = 3 /\ v[1] = a /\ v[2] = b /\ v[3] = c
    BY <1>1, <1>2, <1>3, <2>1
  <2>3. u \in Seq(V) /\ Len(u) = 3
    BY <1>1, <1>2
  <2>4. \A i \in 1 .. 3 : v[i] = u[i]
    BY <1>3, <2>2
  <2> QED
    BY <2>1, <2>2, <2>3, <2>4
<1> QED
  BY <1>2, <1>4, <1>5, <1>6

\* A symbol that brings nothing changes nothing of what the wire brings.
LEMMA FlowTwo ==
  ASSUME NEW n \in Nat, NEW p \in Nat, NEW s \in Seq(Symbols(n)), NEW x \in Symbols(n),
         Weight(p, x) = <<>>
  PROVE  Flow(p, Append(s, x)) = Flow(p, s)
<1>1. PICK f : f = Flow(p, s)
  OBVIOUS
<1>2. f \in Seq(Pieces) /\ f \o <<>> = f
  BY <1>1, FlowTyped
<1> QED
  BY <1>1, <1>2, FlowAppend

\* A framed event is typed and brings what the event brings.
LEMMA FramedIs ==
  ASSUME NEW n \in Nat, NEW p \in Nat, NEW name \in Names, NEW e \in Events(n), adapter \in Apis
  PROVE  Framed(name, e) \in Seq(Symbols(n)) /\ Flow(p, Framed(name, e)) = PartOf(p, e)
<1>1. PICK nm, d, h1, h2 : /\ nm = Name(name) /\ d = Data(e) /\ h1 = Half("first", e)
                           /\ h2 = Half("second", e)
  OBVIOUS
<1>2. /\ nm \in Symbols(n) /\ d \in Symbols(n) /\ h1 \in Symbols(n) /\ h2 \in Symbols(n)
      /\ Newline \in Symbols(n)
  BY <1>1 DEF Symbols, Name, Data, Half
<1>3. /\ Weight(p, nm) = <<>> /\ Weight(p, h1) = <<>> /\ Weight(p, Newline) = <<>>
      /\ Weight(p, d) = PartOf(p, e) /\ Weight(p, h2) = PartOf(p, e)
  BY <1>1 DEF Weight, Name, Data, Half, Newline
<1>4. PICK w : w = PartOf(p, e)
  OBVIOUS
<1>5. w \in Seq(Pieces) /\ <<>> \o w = w /\ w \o <<>> = w
  BY <1>4, PartIs
<1>6. PICK y : y = DataLine(e)
  OBVIOUS
<1>7. y \in Seq(Symbols(n)) /\ Flow(p, y) = w
  <2>1. PICK u, v, z : u = <<d>> /\ v = <<h1>> /\ z = <<h1, h2>>
    OBVIOUS
  <2>2. <<>> \in Seq(Symbols(n)) /\ Flow(p, <<>>) = <<>>
    BY FlowNone
  <2>3. u = Append(<<>>, d) /\ v = Append(<<>>, h1) /\ z = Append(v, h2)
    BY <2>1
  <2>4. u \in Seq(Symbols(n)) /\ v \in Seq(Symbols(n)) /\ z \in Seq(Symbols(n))
    BY <1>2, <2>1
  <2>5. Flow(p, u) = <<>> \o w
    BY <1>2, <1>3, <1>4, <2>2, <2>3, FlowAppend, ZenonT(60)
  <2>6. Flow(p, v) = <<>>
    BY <1>2, <1>3, <2>2, <2>3, FlowTwo
  <2>7. Flow(p, z) = <<>> \o w
    <3>1. Flow(p, Append(v, h2)) = Flow(p, v) \o Weight(p, h2)
      BY <1>2, <2>4, FlowAppend
    <3> QED
      BY <1>3, <1>4, <2>3, <2>6, <3>1
  <2>8. Append(u, Newline) = <<d, Newline>> /\ Append(z, Newline) = <<h1, h2, Newline>>
    <3>1. PICK nl : nl = Newline
      OBVIOUS
    <3>2. nl \in Symbols(n)
      BY <1>2, <3>1
    <3>3. Append(<<d>>, nl) = <<d, nl>> /\ Append(<<h1, h2>>, nl) = <<h1, h2, nl>>
      BY <1>2, <3>2, Tuples, ZenonT(60)
    <3> QED
      BY <2>1, <3>1, <3>3
  <2>9. y = Append(u, Newline) \/ y = Append(z, Newline)
    BY <1>1, <1>6, <2>8 DEF DataLine
  <2>10. /\ Append(u, Newline) \in Seq(Symbols(n)) /\ Append(z, Newline) \in Seq(Symbols(n))
         /\ Flow(p, Append(u, Newline)) = Flow(p, u) /\ Flow(p, Append(z, Newline)) = Flow(p, z)
    <3>1. Append(u, Newline) \in Seq(Symbols(n)) /\ Append(z, Newline) \in Seq(Symbols(n))
      BY <1>2, <2>4
    <3> QED
      BY <1>2, <1>3, <2>4, <3>1, FlowTwo
  <2> QED
    BY <1>5, <2>5, <2>7, <2>9, <2>10
<1>8. y \o <<Newline>> = Append(y, Newline) /\ Append(y, Newline) \in Seq(Symbols(n))
  BY <1>2, <1>7
<1>9. Flow(p, Append(y, Newline)) = w
  BY <1>2, <1>3, <1>7, FlowTwo
<1>10. CASE adapter = "ollama"
  BY <1>4, <1>6, <1>7, <1>10 DEF Framed
<1>11. CASE adapter = "openai"
  <2>1. Framed(name, e) = Append(y, Newline)
    BY <1>6, <1>8, <1>11 DEF Framed
  <2> QED
    BY <1>4, <1>8, <1>9, <2>1
<1>12. CASE adapter = "anthropic"
  <2>1. PICK u, v : u = <<nm>> /\ v = <<nm, Newline>>
    OBVIOUS
  <2>2. u = Append(<<>>, nm) /\ v = Append(u, Newline) /\ u \in Seq(Symbols(n)) /\ v \in Seq(Symbols(n))
    BY <1>2, <2>1
  <2>3. Flow(p, <<>>) = <<>> /\ <<>> \in Seq(Symbols(n))
    BY FlowNone
  <2>4. Flow(p, u) = <<>>
    BY <1>2, <1>3, <2>2, <2>3, FlowTwo
  <2>5. Flow(p, v) = <<>>
    BY <1>2, <1>3, <2>2, <2>4, FlowTwo
  <2>6. Framed(name, e) = (v \o y) \o <<Newline>>
    BY <1>1, <1>6, <1>12, <2>1 DEF Framed
  <2>7. (v \o y) \o <<Newline>> = v \o Append(y, Newline) /\ v \o Append(y, Newline) \in Seq(Symbols(n))
    <3>1. (v \o y) \o <<Newline>> = v \o (y \o <<Newline>>)
      <4>1. <<Newline>> \in Seq(Symbols(n))
        BY <1>2
      <4> QED
        BY <1>7, <2>2, <4>1
    <3> QED
      BY <1>8, <2>2, <3>1
  <2>8. Flow(p, v \o Append(y, Newline)) = <<>> \o w
    <3>1. PICK z : z = Append(y, Newline)
      OBVIOUS
    <3>2. z \in Seq(Symbols(n)) /\ Flow(p, z) = w
      BY <1>8, <1>9, <3>1
    <3>3. Flow(p, v \o z) = Flow(p, v) \o Flow(p, z)
      BY <2>2, <3>2, FlowJoined
    <3> QED
      BY <2>5, <3>1, <3>2, <3>3
  <2> QED
    BY <1>4, <1>5, <2>6, <2>7, <2>8
<1> QED
  BY <1>10, <1>11, <1>12 DEF Apis

\* What the server said of part p.
LEMMA ToldIs ==
  ASSUME NEW p \in Nat, NEW s \in Described PROVE Told(p, s) \in Seq(Pieces)
<1>1. s.text \in Seq(Texts) /\ s.blocks \in Seq(SaidBlock)
  BY DEF Described
<1>2. CASE p = 0
  BY <1>1, <1>2, PiecesIs DEF Told
<1>3. CASE p # 0 /\ p <= Len(s.blocks)
  <2>1. p \in 1 .. Len(s.blocks)
    BY <1>1, <1>3
  <2>2. s.blocks[p] \in SaidBlock
    BY <1>1, <2>1
  <2>3. s.blocks[p].args \in Seq(Frags)
    BY <2>2 DEF SaidBlock
  <2> QED
    BY <1>3, <2>3, PiecesIs DEF Told
<1>4. CASE p # 0 /\ ~(p <= Len(s.blocks))
  BY <1>4, PiecesIs DEF Told
<1> QED
  BY <1>2, <1>3, <1>4

\* The server says e, and heard is what it has described then.
LEMMA SaysKeeps ==
  ASSUME StreamInv, outcome = "running", sent # <<>>,
         NEW name \in Names, NEW heard \in Described, NEW e \in Events(Len(heard.blocks)),
         Len(said.blocks) <= Len(heard.blocks), adapter = "openai" => CallsOnly(heard),
         \A p \in Nat : Follows(Told(p, said) \o PartOf(p, e), Told(p, heard)),
         Says(name, e, heard), lossy' \in {lossy, TRUE},
         ASSUME ~lossy', Matches(adapter, said, Reading(adapter, Connection, wire)),
                Reading(adapter, Connection, wire) \in States(Len(said.blocks))
         PROVE  Matches(adapter, heard,
                        Reading(adapter, Reading(adapter, Connection, wire), Framed(name, e)))
  PROVE  StreamInv'
<1>1. PICK m, n : m = Len(said.blocks) /\ n = Len(heard.blocks)
  OBVIOUS
<1>2. m \in Nat /\ n \in Nat /\ m <= n
  <2>1. said.blocks \in Seq(SaidBlock) /\ heard.blocks \in Seq(SaidBlock)
    BY DEF StreamInv, Described
  <2> QED
    BY <1>1, <2>1
<1>3. PICK st, w, fr : st = Connection /\ w = wire /\ fr = Framed(name, e)
  OBVIOUS
<1>4. /\ adapter \in Apis /\ st \in States(m) /\ w \in Seq(Symbols(m)) /\ e \in Events(n)
      /\ \A p \in Nat : Follows(Held(adapter, p, st) \o Flow(p, w), Told(p, said))
      /\ ~lossy => Matches(adapter, said, Reading(adapter, st, w))
      /\ said \in Described
  BY <1>1, <1>3 DEF StreamInv, Running, Typed, Spoken, Whole
<1>5. st \in States(n) /\ w \in Seq(Symbols(n))
  BY <1>2, <1>4, TypesGrow
<1>6. fr \in Seq(Symbols(n)) /\ \A p \in Nat : Flow(p, fr) = PartOf(p, e)
  BY <1>2, <1>3, <1>4, FramedIs
<1>7. w \o fr \in Seq(Symbols(n))
  BY <1>5, <1>6
<1>8. /\ wire' = w \o fr /\ said' = heard /\ Connection' = st
      /\ adapter' = adapter /\ outcome' = outcome /\ sent' = sent
  BY <1>3 DEF Says, client, Connection
<1>9. Typed'
  BY <1>1, <1>5, <1>7, <1>8 DEF Typed
<1>10. ASSUME NEW p \in Nat
       PROVE  Follows(Held(adapter, p, st) \o Flow(p, w \o fr), Told(p, heard))
  <2>1. PICK h, a, b, t, u : /\ h = Held(adapter, p, st) /\ a = Flow(p, w) /\ b = PartOf(p, e)
                             /\ t = Told(p, said) /\ u = Told(p, heard)
    OBVIOUS
  <2>2. h \in Seq(Pieces) /\ a \in Seq(Pieces)
    BY <1>2, <1>4, <2>1, HeldIs, FlowTyped
  <2>3. b \in Seq(Pieces) /\ t \in Seq(Pieces) /\ u \in Seq(Pieces)
    BY <1>2, <1>4, <2>1, PartIs, ToldIs
  <2>4. Follows(h \o a, t) /\ Follows(t \o b, u) /\ Follows(b, b)
    BY <1>4, <2>1, <2>3, FollowsItself
  <2>5. h \o a \in Seq(Pieces) /\ (h \o a) \o b \in Seq(Pieces) /\ t \o b \in Seq(Pieces)
        /\ (h \o a) \o b = h \o (a \o b)
    BY <2>2, <2>3
  <2>6. Follows((h \o a) \o b, t \o b)
    BY <2>3, <2>4, <2>5, FollowsJoined
  <2>7. Follows((h \o a) \o b, u)
    BY <2>3, <2>4, <2>5, <2>6, FollowsThrough
  <2>8. Flow(p, w \o fr) = a \o b
    <3>1. Flow(p, w \o fr) = Flow(p, w) \o Flow(p, fr)
      <4>1. n \in Nat /\ w \in Seq(Symbols(n)) /\ fr \in Seq(Symbols(n))
        BY <1>2, <1>5, <1>6
      <4> QED
        BY <4>1, FlowJoined
    <3> QED
      BY <1>6, <2>1, <3>1
  <2> QED
    BY <2>1, <2>5, <2>7, <2>8
<1>11. Spoken'
  <2>1. \A p \in Nat : Follows(Held(adapter', p, Connection') \o Flow(p, wire'), Told(p, said'))
    BY <1>8, <1>10
  <2> QED
    BY <2>1 DEF Spoken
<1>12. Whole'
  <2> SUFFICES ASSUME ~lossy' PROVE Matches(adapter, heard, Reading(adapter, st, w \o fr))
    BY <1>8 DEF Whole
  <2>1. ~lossy
    OBVIOUS
  <2>2. Reading(adapter, st, w) \in States(m)
    BY <1>2, <1>4, ReadingTyped
  <2>3. Matches(adapter, heard, Reading(adapter, Reading(adapter, st, w), fr))
    BY <1>1, <1>3, <1>4, <2>1, <2>2
  <2>4. Reading(adapter, st, w \o fr) = Reading(adapter, Reading(adapter, st, w), fr)
    BY <1>2, <1>5, <1>6, ReadingJoined
  <2> QED
    BY <2>3, <2>4
<1>13. adapter' = "openai" => CallsOnly(heard)
  BY <1>8
<1> QED
  BY <1>4, <1>8, <1>9, <1>11, <1>12, <1>13 DEF StreamInv, Running, CallsOnly


(* A whole event is read from a parser with nothing in it. *)

St(r, nm, d, a, s) == [rest |-> r, name |-> nm, data |-> d, asm |-> a, sent |-> s]

\* Within a line the parser only keeps what it reads.
LEMMA ReadsSymbol ==
  ASSUME NEW api, NEW r, NEW nm, NEW d, NEW a, NEW s, NEW x, x # Newline
  PROVE  Read(api, St(r, nm, d, a, s), x) = St(Append(r, x), nm, d, a, s)
BY DEF Read, St

\* The end of a line that names the event.
LEMMA ReadsName ==
  ASSUME NEW api, api # "ollama", NEW nm, NEW d, NEW a, NEW s, NEW t
  PROVE  Read(api, St(<<Name(t)>>, nm, d, a, s), Newline) = St(<<>>, t, d, a, s)
<1>1. PICK line : line = <<Name(t)>>
  OBVIOUS
<1>2. Len(line) = 1 /\ line[1] = Name(t) /\ line # <<>>
  BY <1>1
<1>3. FieldName(line) = t /\ line[1].k = "name"
  BY <1>2 DEF FieldName, Name
<1>4. PICK st : st = St(line, nm, d, a, s)
  OBVIOUS
<1>5. TakeLine(api, st, line) = [st EXCEPT !.name = t]
  BY <1>2, <1>3 DEF TakeLine, TakeSseLine
<1>6. [st EXCEPT !.name = t] = St(line, t, d, a, s) /\ st.rest = line
  BY <1>4 DEF St
<1>7. [St(line, t, d, a, s) EXCEPT !.rest = <<>>] = St(<<>>, t, d, a, s)
  BY DEF St
<1> QED
  BY <1>1, <1>4, <1>5, <1>6, <1>7 DEF Read

\* The end of a line of data.
LEMMA ReadsData ==
  ASSUME NEW api, api # "ollama", NEW line, line # <<>>, line[1].k # "name",
         NEW nm, NEW d, NEW a, NEW s
  PROVE  Read(api, St(line, nm, d, a, s), Newline) = St(<<>>, nm, Append(d, Payload(line)), a, s)
<1>1. PICK st, e : st = St(line, nm, d, a, s) /\ e = Payload(line)
  OBVIOUS
<1>2. st.rest = line /\ st.data = d
  BY <1>1 DEF St
<1>3. TakeLine(api, st, line) = [st EXCEPT !.data = Append(d, e)]
  BY <1>1, <1>2 DEF TakeLine, TakeSseLine
<1>4. PICK d2 : d2 = Append(d, e)
  OBVIOUS
<1>5. [st EXCEPT !.data = d2] = St(line, nm, d2, a, s)
  BY <1>1 DEF St
<1>6. [St(line, nm, d2, a, s) EXCEPT !.rest = <<>>] = St(<<>>, nm, d2, a, s)
  BY DEF St
<1> QED
  BY <1>1, <1>2, <1>3, <1>4, <1>5, <1>6 DEF Read

\* The blank line after an event dispatches it and leaves the parser clean.
LEMMA ReadsBlank ==
  ASSUME NEW n \in Nat, NEW api, api # "ollama", NEW st \in States(n), st.rest = <<>>
  PROVE  LET r == Decode(api, st, st.name, st.data)
         IN  Read(api, st, Newline) = Clean(r.asm, r.sent)
<1>1. PICK r \in States(n) : r = Decode(api, st, st.name, st.data)
  BY DecodeTyped, StateParts
<1>2. TakeLine(api, st, <<>>) = [r EXCEPT !.name = Empty, !.data = <<>>]
  BY <1>1 DEF TakeLine, TakeSseLine
<1>3. r = St(r.rest, r.name, r.data, r.asm, r.sent)
  BY DEF States, St
<1>4. PICK r1, r2, r3, r4, r5, none : /\ r1 = r.rest /\ r2 = r.name /\ r3 = r.data /\ r4 = r.asm
                                      /\ r5 = r.sent /\ none = <<>>
  OBVIOUS
<1>5. r = St(r1, r2, r3, r4, r5)
  BY <1>3, <1>4, Zenon
<1>6. [r EXCEPT !.name = Empty, !.data = none] = St(r1, Empty, none, r4, r5)
  <2>1. PICK u : u = [r EXCEPT !.name = Empty]
    OBVIOUS
  <2>2. u = St(r1, Empty, r3, r4, r5)
    BY <1>5, <2>1 DEF St
  <2>3. [u EXCEPT !.data = none] = St(r1, Empty, none, r4, r5)
    BY <2>2 DEF St
  <2> QED
    BY <2>1, <2>3
<1>7. [St(r1, Empty, none, r4, r5) EXCEPT !.rest = none] = St(none, Empty, none, r4, r5)
  BY DEF St
<1>8. Read(api, st, Newline) = [TakeLine(api, st, <<>>) EXCEPT !.rest = none]
  BY <1>4 DEF Read
<1>9. Clean(r.asm, r.sent) = St(none, Empty, none, r4, r5)
  BY <1>4, Zenon DEF Clean, St
<1>10. TakeLine(api, st, <<>>) = St(r1, Empty, none, r4, r5)
  BY <1>2, <1>4, <1>6, Zenon
<1> QED
  BY <1>1, <1>7, <1>8, <1>9, <1>10, Zenon

\* For Ollama each line is a whole event.
LEMMA ReadsJson ==
  ASSUME NEW n \in Nat, NEW st \in States(n), Payload(st.rest) # Garbled,
         st.name = Empty, st.data = <<>>
  PROVE  LET r == TextDelta(st, Payload(st.rest).text)
         IN  Read("ollama", st, Newline) = Clean(r.asm, r.sent)
<1>1. PICK t \in Texts \cup {Empty} : t = Payload(st.rest).text
  BY StateParts, PayloadIs, EventIs
<1>2. PICK r \in States(n) : r = TextDelta(st, t)
  BY TextDeltaIs
<1>3. TakeLine("ollama", st, st.rest) = r
  BY <1>1, <1>2 DEF TakeLine, TakeJsonLine
<1>4. r.name = Empty /\ r.data = <<>>
  <2>1. CASE t = Empty
    <3>1. r = st
      BY <1>2, <2>1 DEF TextDelta
    <3> QED
      BY <3>1
  <2>2. CASE t # Empty
    <3>1. PICK x, y : /\ x = [text |-> Append(st.asm.text, t), buffers |-> st.asm.buffers,
                              stop |-> st.asm.stop]
                      /\ y = Append(st.sent, [type |-> "ContentDelta", text |-> t])
      OBVIOUS
    <3>2. r = With(st, x, y)
      BY <1>2, <2>2, <3>1, TextDeltaIs
    <3> QED
      BY <3>2 DEF With
  <2> QED
    BY <2>1, <2>2
<1>5. r = St(r.rest, Empty, <<>>, r.asm, r.sent)
  BY <1>4 DEF States, St
<1>6. [St(r.rest, Empty, <<>>, r.asm, r.sent) EXCEPT !.rest = <<>>] = Clean(r.asm, r.sent)
  BY DEF St, Clean
<1> QED
  BY <1>1, <1>2, <1>3, <1>5, <1>6 DEF Read

\* A typed state of the parser with another line, name and data.
LEMMA StIs ==
  ASSUME NEW n \in Nat, NEW st \in States(n), NEW r \in Seq(Symbols(n)), NEW nm \in Names,
         NEW d \in Seq(Events(n))
  PROVE  St(r, nm, d, st.asm, st.sent) \in States(n)
BY StateParts DEF St, States

\* The symbols of a data line, up to its newline.
EventLine(e) == IF e.text \in Wide THEN <<Half("first", e), Half("second", e)>> ELSE <<Data(e)>>

\* A line of data gives the event it was made of.
LEMMA LineIs ==
  ASSUME NEW n \in Nat, NEW e \in Events(n)
  PROVE  /\ EventLine(e) \in Seq(Symbols(n)) /\ EventLine(e) # <<>> /\ EventLine(e)[1].k # "name"
         /\ Payload(EventLine(e)) = e /\ DataLine(e) = Append(EventLine(e), Newline)
<1>1. PICK d, h1, h2 : d = Data(e) /\ h1 = Half("first", e) /\ h2 = Half("second", e)
  OBVIOUS
<1>2. d \in Symbols(n) /\ h1 \in Symbols(n) /\ h2 \in Symbols(n) /\ Newline \in Symbols(n)
  BY <1>1 DEF Symbols, Data, Half
<1>3. /\ d.k = "data" /\ d.of = e /\ h1.k = "first" /\ h1.of = e
  BY <1>1 DEF Data, Half
<1>4. CASE e.text \in Wide
  <2>1. PICK y : y = <<h1, h2>>
    OBVIOUS
  <2>2. EventLine(e) = y /\ DataLine(e) = <<h1, h2, Newline>>
    BY <1>1, <1>4, <2>1 DEF EventLine, DataLine
  <2>3. /\ y \in Seq(Symbols(n)) /\ y # <<>> /\ Len(y) = 2 /\ y[1] = h1 /\ y[2] = h2
    BY <1>2, <2>1
  <2>4. Payload(y) = e
    BY <1>1, <1>3, <2>3 DEF Payload
  <2>5. Append(y, Newline) = <<h1, h2, Newline>>
    BY <1>2, <2>1, Tuples
  <2> QED
    BY <1>3, <2>2, <2>3, <2>4, <2>5
<1>5. CASE e.text \notin Wide
  <2>1. PICK y : y = <<d>>
    OBVIOUS
  <2>2. EventLine(e) = y /\ DataLine(e) = <<d, Newline>>
    BY <1>1, <1>5, <2>1 DEF EventLine, DataLine
  <2>3. /\ y \in Seq(Symbols(n)) /\ y # <<>> /\ Len(y) = 1 /\ y[1] = d
    BY <1>2, <2>1
  <2>4. Payload(y) = e
    BY <1>3, <2>3 DEF Payload
  <2>5. Append(y, Newline) = <<d, Newline>>
    BY <1>2, <2>1, Tuples
  <2> QED
    BY <1>3, <2>2, <2>3, <2>4, <2>5
<1> QED
  BY <1>4, <1>5

\* One symbol read.
LEMMA ReadingOne ==
  ASSUME NEW n \in Nat, NEW api, NEW st \in States(n), NEW x \in Symbols(n)
  PROVE  Reading(api, st, <<x>>) = Read(api, st, x)
<1>1. PICK none : none = <<>>
  OBVIOUS
<1>2. none \in Seq(Symbols(n)) /\ <<x>> = Append(none, x)
  BY <1>1
<1>3. Reading(api, st, none) = st
  BY <1>1, ReadingNone
<1>4. Reading(api, st, Append(none, x)) = Read(api, Reading(api, st, none), x)
  BY <1>2, ReadingAppend
<1> QED
  BY <1>2, <1>3, <1>4, Zenon

\* A line read, without and with its end.
LEMMA ReadingLine ==
  ASSUME NEW n \in Nat, NEW api, NEW st \in States(n), st.rest = <<>>, NEW e \in Events(n)
  PROVE  /\ Reading(api, st, EventLine(e)) = St(EventLine(e), st.name, st.data, st.asm, st.sent)
         /\ Reading(api, st, DataLine(e)) =
              Read(api, St(EventLine(e), st.name, st.data, st.asm, st.sent), Newline)
<1>1. PICK d, h1, h2 : d = Data(e) /\ h1 = Half("first", e) /\ h2 = Half("second", e)
  OBVIOUS
<1>2. /\ d \in Symbols(n) /\ h1 \in Symbols(n) /\ h2 \in Symbols(n) /\ Newline \in Symbols(n)
      /\ d # Newline /\ h1 # Newline /\ h2 # Newline
  BY <1>1 DEF Symbols, Data, Half, Newline
<1>3. PICK nm, dt, a, s : nm = st.name /\ dt = st.data /\ a = st.asm /\ s = st.sent
  OBVIOUS
<1>4. st = St(<<>>, nm, dt, a, s)
  BY <1>3 DEF States, St
<1>5. ASSUME NEW x \in Symbols(n), x # Newline
      PROVE  Reading(api, st, <<x>>) = St(<<x>>, nm, dt, a, s)
  <2>1. PICK none : none = <<>>
    OBVIOUS
  <2>2. Append(none, x) = <<x>>
    BY <2>1
  <2>3. Reading(api, st, <<x>>) = Read(api, st, x)
    BY <1>5, ReadingOne
  <2>4. Read(api, St(none, nm, dt, a, s), x) = St(Append(none, x), nm, dt, a, s)
    BY <1>5, ReadsSymbol
  <2> QED
    BY <1>4, <2>1, <2>2, <2>3, <2>4, Zenon
<1>6. Reading(api, st, <<d>>) = St(<<d>>, nm, dt, a, s) /\ Reading(api, st, <<h1>>) = St(<<h1>>, nm, dt, a, s)
  BY <1>2, <1>5
<1>7. Reading(api, st, <<h1, h2>>) = St(<<h1, h2>>, nm, dt, a, s)
  <2>1. PICK u : u = <<h1>>
    OBVIOUS
  <2>2. u \in Seq(Symbols(n)) /\ Append(u, h2) = <<h1, h2>>
    <3>1. Append(<<h1>>, h2) = <<h1, h2>>
      BY <1>2, Tuples
    <3>2. u \in Seq(Symbols(n))
      BY <1>2, <2>1
    <3> QED
      BY <2>1, <3>1, <3>2, Zenon
  <2>3. Reading(api, st, Append(u, h2)) = Read(api, Reading(api, st, u), h2)
    BY <1>2, <2>2, ReadingAppend
  <2>4. Read(api, St(u, nm, dt, a, s), h2) = St(Append(u, h2), nm, dt, a, s)
    BY <1>2, ReadsSymbol
  <2> QED
    BY <1>6, <2>1, <2>2, <2>3, <2>4
<1>8. Reading(api, st, EventLine(e)) = St(EventLine(e), nm, dt, a, s)
  BY <1>1, <1>6, <1>7 DEF EventLine
<1>9. PICK y : y = EventLine(e)
  OBVIOUS
<1>10. y \in Seq(Symbols(n)) /\ DataLine(e) = Append(y, Newline)
  BY <1>9, LineIs
<1>11. Reading(api, st, Append(y, Newline)) = Read(api, Reading(api, st, y), Newline)
  BY <1>2, <1>10, ReadingAppend
<1> QED
  BY <1>3, <1>8, <1>9, <1>10, <1>11

\* What the decoder of an adapter makes of an event.
Decoded(api, st, name, e) ==
  CASE api = "anthropic" -> DecodeAnthropic(st, name, e)
    [] api = "openai"    -> DecodeOpenAi(st, e)
    [] OTHER             -> TextDelta(st, e.text)

\* A whole event read by a clean parser is decoded once, and the parser is clean again.
LEMMA FramedRead ==
  ASSUME NEW n \in Nat, adapter \in Apis, NEW st \in States(n), st = Clean(st.asm, st.sent),
         NEW name \in Names, NEW e \in Events(n), e.type # "garbled"
  PROVE  \E t \in States(n) :
           /\ t.asm = st.asm /\ t.sent = st.sent
           /\ Reading(adapter, st, Framed(name, e))
                = Clean(Decoded(adapter, t, name, e).asm, Decoded(adapter, t, name, e).sent)
<1>1. PICK a, s : a = st.asm /\ s = st.sent
  OBVIOUS
<1>2. st = St(<<>>, Empty, <<>>, a, s) /\ st.rest = <<>> /\ st.name = Empty /\ st.data = <<>>
  BY <1>1 DEF Clean, St
<1>3. e # Garbled
  BY DEF Garbled, Event
<1>4. PICK y : y = EventLine(e)
  OBVIOUS
<1>5. /\ y \in Seq(Symbols(n)) /\ y # <<>> /\ y[1].k # "name" /\ Payload(y) = e
      /\ DataLine(e) = Append(y, Newline) /\ Newline \in Symbols(n)
  BY <1>4, LineIs DEF Symbols
<1>6. DataLine(e) \in Seq(Symbols(n)) /\ <<Newline>> \in Seq(Symbols(n))
  BY <1>5
<1>7. /\ Empty \in Names /\ <<>> \in Seq(Events(n)) /\ <<e>> \in Seq(Events(n)) /\ <<>> \in Seq(Symbols(n))
      /\ Len(<<e>>) = 1 /\ Head(<<e>>) = e /\ Append(<<>>, e) = <<e>>
  BY DEF Names
\* The data line of an SSE event, and the blank line after it.
<1>8. ASSUME adapter # "ollama", NEW nm \in Names
      PROVE  LET t == St(<<>>, nm, <<e>>, a, s)
                 r == Decode(adapter, t, nm, <<e>>)
             IN  /\ t \in States(n)
                 /\ Reading(adapter, St(<<>>, nm, <<>>, a, s), DataLine(e) \o <<Newline>>)
                      = Clean(r.asm, r.sent)
  <2>1. PICK u \in States(n) : u = St(<<>>, nm, <<>>, a, s)
    BY <1>1, <1>7, StIs
  <2>2. PICK t \in States(n) : t = St(<<>>, nm, <<e>>, a, s)
    BY <1>1, <1>7, StIs
  <2>3. u.rest = <<>> /\ u.name = nm /\ u.data = <<>> /\ u.asm = a /\ u.sent = s
    BY <2>1 DEF St
  <2>4. Reading(adapter, u, DataLine(e)) = Read(adapter, St(y, nm, <<>>, a, s), Newline)
    BY <1>4, <2>3, ReadingLine
  <2>5. Read(adapter, St(y, nm, <<>>, a, s), Newline) = St(<<>>, nm, Append(<<>>, e), a, s)
    <3>1. PICK none : none = <<>>
      OBVIOUS
    <3>2. Read(adapter, St(y, nm, none, a, s), Newline) = St(<<>>, nm, Append(none, Payload(y)), a, s)
      BY <1>5, <1>8, ReadsData
    <3> QED
      BY <1>5, <3>1, <3>2, Zenon
  <2>6. Reading(adapter, u, DataLine(e)) = t
    BY <1>7, <2>2, <2>4, <2>5
  <2>7. Reading(adapter, u, DataLine(e) \o <<Newline>>) = Reading(adapter, t, <<Newline>>)
    <3>1. PICK dl, nl : dl = DataLine(e) /\ nl = <<Newline>>
      OBVIOUS
    <3>2. dl \in Seq(Symbols(n)) /\ nl \in Seq(Symbols(n))
      BY <1>6, <3>1
    <3>3. Reading(adapter, u, dl \o nl) = Reading(adapter, Reading(adapter, u, dl), nl)
      BY <3>2, ReadingJoined
    <3> QED
      BY <2>6, <3>1, <3>3, Zenon
  <2>8. Reading(adapter, t, <<Newline>>) = Read(adapter, t, Newline)
    BY <1>5, ReadingOne
  <2>9. t.rest = <<>> /\ t.name = nm /\ t.data = <<e>>
    BY <2>2 DEF St
  <2>10. Read(adapter, t, Newline)
           = Clean(Decode(adapter, t, nm, <<e>>).asm, Decode(adapter, t, nm, <<e>>).sent)
    BY <1>8, <2>9, ReadsBlank
  <2> QED
    BY <2>1, <2>2, <2>7, <2>8, <2>10
<1>9. CASE adapter = "ollama"
  <2>1. PICK t \in States(n) : t = St(y, Empty, <<>>, a, s)
    BY <1>1, <1>5, <1>7, StIs
  <2>2. t.rest = y /\ t.name = Empty /\ t.data = <<>> /\ t.asm = a /\ t.sent = s
    BY <2>1 DEF St
  <2>3. Reading(adapter, st, DataLine(e)) = Read(adapter, t, Newline)
    <3>1. Reading(adapter, st, DataLine(e)) = Read(adapter, St(EventLine(e), st.name, st.data, st.asm, st.sent), Newline)
      BY <1>2, ReadingLine
    <3> QED
      BY <1>1, <1>2, <1>4, <2>1, <3>1, Zenon
  <2>4. Read("ollama", t, Newline) = Clean(TextDelta(t, e.text).asm, TextDelta(t, e.text).sent)
    BY <1>3, <1>5, <2>2, ReadsJson
  <2>5. Framed(name, e) = DataLine(e)
    BY <1>9 DEF Framed
  <2>6. Decoded(adapter, t, name, e) = TextDelta(t, e.text)
    BY <1>9 DEF Decoded
  <2> QED
    BY <1>1, <1>9, <2>2, <2>3, <2>4, <2>5, <2>6
<1>10. CASE adapter = "openai"
  <2>1. PICK t : t = St(<<>>, Empty, <<e>>, a, s)
    OBVIOUS
  <2>2. /\ t \in States(n)
        /\ Reading(adapter, st, DataLine(e) \o <<Newline>>)
             = Clean(Decode(adapter, t, Empty, <<e>>).asm, Decode(adapter, t, Empty, <<e>>).sent)
    BY <1>2, <1>7, <1>8, <1>10, <2>1
  <2>3. Decode(adapter, t, Empty, <<e>>) = Decoded(adapter, t, name, e)
    BY <1>3, <1>7, <1>10 DEF Decode, Decoded
  <2>4. Framed(name, e) = DataLine(e) \o <<Newline>>
    BY <1>10 DEF Framed
  <2>5. t.asm = a /\ t.sent = s
    BY <2>1 DEF St
  <2> QED
    BY <1>1, <2>2, <2>3, <2>4, <2>5
<1>11. CASE adapter = "anthropic"
  <2>1. PICK t : t = St(<<>>, name, <<e>>, a, s)
    OBVIOUS
  <2>2. /\ t \in States(n)
        /\ Reading(adapter, St(<<>>, name, <<>>, a, s), DataLine(e) \o <<Newline>>)
             = Clean(Decode(adapter, t, name, <<e>>).asm, Decode(adapter, t, name, <<e>>).sent)
    BY <1>8, <1>11, <2>1
  <2>3. Decode(adapter, t, name, <<e>>) = Decoded(adapter, t, name, e)
    BY <1>3, <1>7, <1>11 DEF Decode, Decoded
  <2>4. PICK nm, u, v, rest : /\ nm = Name(name) /\ u = <<nm>> /\ v = <<nm, Newline>>
                              /\ rest = DataLine(e) \o <<Newline>>
    OBVIOUS
  <2>5. nm \in Symbols(n) /\ nm # Newline
    BY <2>4 DEF Symbols, Name, Newline
  <2>6. u \in Seq(Symbols(n)) /\ v \in Seq(Symbols(n)) /\ v = Append(u, Newline)
    BY <1>5, <2>4, <2>5, Tuples
  <2>7. rest \in Seq(Symbols(n))
    BY <1>6, <2>4
  <2>8. Framed(name, e) = v \o rest
    <3>1. (v \o DataLine(e)) \o <<Newline>> = v \o rest
      BY <1>6, <2>4, <2>6
    <3> QED
      BY <1>11, <2>4, <3>1 DEF Framed
  <2>9. Reading(adapter, st, u) = St(u, Empty, <<>>, a, s)
    <3>1. Append(<<>>, nm) = u
      BY <2>4
    <3>2. Reading(adapter, st, u) = Read(adapter, st, nm)
      BY <2>4, <2>5, ReadingOne
    <3>3. PICK none : none = <<>>
      OBVIOUS
    <3>4. Read(adapter, St(none, Empty, none, a, s), nm) = St(Append(none, nm), Empty, none, a, s)
      BY <2>5, ReadsSymbol
    <3> QED
      BY <1>2, <3>1, <3>2, <3>3, <3>4, Zenon
  <2>10. Reading(adapter, st, v) = St(<<>>, name, <<>>, a, s)
    <3>1. Reading(adapter, st, Append(u, Newline)) = Read(adapter, Reading(adapter, st, u), Newline)
      BY <1>5, <2>6, ReadingAppend
    <3>2. Read(adapter, St(<<Name(name)>>, Empty, <<>>, a, s), Newline) = St(<<>>, name, <<>>, a, s)
      BY <1>11, ReadsName
    <3> QED
      BY <2>4, <2>6, <2>9, <3>1, <3>2
  <2>11. Reading(adapter, st, v \o rest) = Reading(adapter, Reading(adapter, st, v), rest)
    BY <2>6, <2>7, ReadingJoined
  <2>12. t.asm = a /\ t.sent = s
    BY <2>1 DEF St
  <2> QED
    BY <1>1, <2>2, <2>3, <2>4, <2>8, <2>10, <2>11, <2>12
<1> QED
  BY <1>9, <1>10, <1>11 DEF Apis

-----------------------------------------------------------------------------
(* What the sink does with each delta. *)

Call == [id : Ids, args : Seq(Frags)]

\* Only the positions there are count.
LEMMA ChosenSame ==
  ASSUME NEW V, NEW s \in Seq(V), NEW I, NEW J, \A i \in 1 .. Len(s) : i \in I <=> i \in J
  PROVE  Chosen(s, I) = Chosen(s, J)
<1> DEFINE W == {t \in Seq(V) : (\A i \in 1 .. Len(t) : i \in I <=> i \in J)
                                  => Chosen(t, I) = Chosen(t, J)}
<1>1. <<>> \in W
  BY ChosenNone
<1>2. ASSUME NEW t \in Seq(V), NEW x \in V, t \in W PROVE Append(t, x) \in W
  <2>1. PICK u : u = Append(t, x)
    OBVIOUS
  <2>2. u \in Seq(V) /\ Len(u) = Len(t) + 1 /\ Len(t) \in Nat
    BY <2>1
  <2>3. (\A i \in 1 .. Len(u) : i \in I <=> i \in J)
          => (Len(u) \in I <=> Len(u) \in J) /\ \A i \in 1 .. Len(t) : i \in I <=> i \in J
    BY <2>2
  <2>4. /\ Chosen(u, I) = IF Len(u) \in I THEN Append(Chosen(t, I), x) ELSE Chosen(t, I)
        /\ Chosen(u, J) = IF Len(u) \in J THEN Append(Chosen(t, J), x) ELSE Chosen(t, J)
    BY <2>1, <2>2, ChosenAppend
  <2> QED
    BY <1>2, <2>1, <2>2, <2>3, <2>4
<1>3. s \in W
  <2> HIDE DEF W
  <2>1. Seq(V) \subseteq W
    BY <1>1, <1>2, SequencesGrow
  <2> QED
    BY <2>1
<1> QED
  BY <1>3

\* A sequence is what comes before its last element, and that.
LEMMA LastApart ==
  ASSUME NEW V, NEW s \in Seq(V), Len(s) # 0
  PROVE  \E f \in Seq(V) : /\ Len(f) = Len(s) - 1 /\ s = Append(f, s[Len(s)])
                           /\ \A i \in 1 .. Len(f) : f[i] = s[i]
<1>1. PICK m \in Nat : m = Len(s) - 1 /\ Len(s) = m + 1
  OBVIOUS
<1>2. PICK f : f = [i \in 1 .. m |-> s[i]]
  OBVIOUS
<1>3. f \in Seq(V) /\ Len(f) = m /\ \A i \in 1 .. m : f[i] = s[i]
  BY <1>1, <1>2
<1>4. s[m + 1] \in V
  BY <1>1
<1>5. PICK u : u = Append(f, s[m + 1])
  OBVIOUS
<1>6. u \in Seq(V) /\ Len(u) = m + 1 /\ u[m + 1] = s[m + 1] /\ \A i \in 1 .. m : u[i] = f[i]
  BY <1>3, <1>4, <1>5
<1>7. \A i \in 1 .. m + 1 : i \in 1 .. m \/ i = m + 1
  OBVIOUS
<1>8. u = s
  BY <1>1, <1>3, <1>6, <1>7
<1> QED
  BY <1>1, <1>3, <1>5, <1>8

\* To replace the last element.
LEMMA SetLast ==
  ASSUME NEW V, NEW s \in Seq(V), NEW x \in V, NEW y \in V, NEW n, n = Len(s) + 1
  PROVE  [Append(s, x) EXCEPT ![n] = y] = Append(s, y)
<1>1. PICK u, v : u = Append(s, x) /\ v = Append(s, y)
  OBVIOUS
<1>2. /\ u \in Seq(V) /\ v \in Seq(V) /\ Len(u) = n /\ Len(v) = n /\ n \in Nat /\ v[n] = y
      /\ \A i \in 1 .. Len(s) : u[i] = v[i]
  BY <1>1
<1>3. PICK w : w = [u EXCEPT ![n] = y]
  OBVIOUS
<1>4. w \in Seq(V) /\ Len(w) = n /\ w[n] = y /\ \A i \in 1 .. n : i # n => w[i] = u[i]
  BY <1>2, <1>3
<1>5. \A i \in 1 .. n : w[i] = v[i]
  BY <1>2, <1>4
<1>6. w = v
  BY <1>2, <1>4, <1>5
<1> QED
  BY <1>1, <1>3, <1>6

\* The fields of what the sink captured.
LEMMA CaptureParts ==
  ASSUME NEW k \in Captures
  PROVE  /\ k = [text |-> k.text, calls |-> k.calls]
         /\ k.text \in Seq(Texts) /\ k.calls \in Seq(Call) /\ Len(k.calls) \in Nat
         /\ \A i \in 1 .. Len(k.calls) :
              k.calls[i] = [id |-> k.calls[i].id, args |-> k.calls[i].args]
<1>1. /\ k = [text |-> k.text, calls |-> k.calls] /\ k.text \in Seq(Texts) /\ k.calls \in Seq(Call)
  BY DEF Captures, Call
<1>2. \A x \in Call : x = [id |-> x.id, args |-> x.args]
  BY DEF Call
<1>3. Len(k.calls) \in Nat /\ \A i \in 1 .. Len(k.calls) : k.calls[i] \in Call
  BY <1>1
<1> QED
  BY <1>1, <1>2, <1>3

\* A text delta lengthens the text captured.
LEMMA SinkText ==
  ASSUME NEW k \in Captures, NEW x
  PROVE  SinkSend(k, [type |-> "ContentDelta", text |-> x]) =
           [text |-> Append(k.text, x), calls |-> k.calls]
<1>1. PICK t, c : t = k.text /\ c = k.calls /\ k = [text |-> t, calls |-> c]
  BY CaptureParts
<1>2. SinkSend(k, [type |-> "ContentDelta", text |-> x]) = [k EXCEPT !.text = Append(t, x)]
  BY <1>1 DEF SinkSend
<1> QED
  BY <1>1, <1>2

\* A call the sink does not know.
LEMMA SinkNew ==
  ASSUME NEW k \in Captures, NEW id \in Nat, NEW f \in Frags,
         \A i \in 1 .. Len(k.calls) : k.calls[i].id # id
  PROVE  SinkSend(k, Delta(id, f)) =
           [text |-> k.text, calls |-> Append(k.calls, [id |-> id, args |-> Fragment(f)])]
<1>1. PICK t, c : t = k.text /\ c = k.calls /\ k = [text |-> t, calls |-> c]
  BY CaptureParts
<1>2. c \in Seq(Call) /\ DOMAIN c = 1 .. Len(c) /\ Len(c) \in Nat
  BY <1>1, CaptureParts
<1>3. id # NoId
  BY ServerAssumption
<1>4. {i \in DOMAIN c : c[i].id = id} = {}
  BY <1>1, <1>2
<1>5. PICK x, fr, y : /\ x = [id |-> id, args |-> <<>>] /\ fr = Fragment(f)
                      /\ y = [id |-> id, args |-> fr]
  OBVIOUS
<1>6. fr \in Seq(Frags) /\ x \in Call /\ y \in Call /\ <<>> \o fr = fr
  BY <1>5, FragmentTyped DEF Call, Ids
<1>7. PICK d : d = Append(c, x)
  OBVIOUS
<1>8. d \in Seq(Call) /\ Len(d) = Len(c) + 1 /\ Len(d) # 0 /\ d[Len(d)] = x
  BY <1>2, <1>6, <1>7
<1>9. SinkSend(k, Delta(id, f)) =
        [k EXCEPT !.calls = [d EXCEPT ![Len(d)].args = @ \o fr]]
  BY <1>1, <1>3, <1>4, <1>5, <1>7, <1>8 DEF SinkSend, Delta
<1>10. [d EXCEPT ![Len(d)].args = @ \o fr] = [d EXCEPT ![Len(d)] = y]
  <2>1. [x EXCEPT !.args = x.args \o fr] = y
    BY <1>5, <1>6
  <2> QED
    BY <1>8, <2>1
<1>11. [d EXCEPT ![Len(d)] = y] = Append(c, y)
  BY <1>2, <1>6, <1>7, <1>8, SetLast
<1> QED
  BY <1>1, <1>5, <1>9, <1>10, <1>11

\* Call i has f, too.
Longer(k, i, f) ==
  [text |-> k.text,
   calls |-> [k.calls EXCEPT ![i] = [id |-> k.calls[i].id,
                                     args |-> k.calls[i].args \o Fragment(f)]]]

\* A delta of arguments lengthens the call it names, the last one if it names none.
LEMMA SinkMore ==
  ASSUME NEW k \in Captures, NEW id \in Ids, NEW f \in Frags, NEW i \in 1 .. Len(k.calls),
         \/ id = NoId /\ i = Len(k.calls)
         \/ id # NoId /\ \A j \in 1 .. Len(k.calls) : k.calls[j].id = id <=> j = i
  PROVE  SinkSend(k, Delta(id, f)) = Longer(k, i, f)
<1>1. PICK t, c, x : t = k.text /\ c = k.calls /\ k = [text |-> t, calls |-> c] /\ x = c[i]
  BY CaptureParts
<1>2. /\ c \in Seq(Call) /\ DOMAIN c = 1 .. Len(c) /\ Len(c) \in Nat /\ i \in DOMAIN c /\ i # 0
      /\ x = [id |-> x.id, args |-> x.args]
  BY <1>1, CaptureParts
<1>3. PICK fr : fr = Fragment(f)
  OBVIOUS
<1>4. SinkSend(k, Delta(id, f)) = [k EXCEPT !.calls = [c EXCEPT ![i].args = @ \o fr]]
  <2>1. CASE id = NoId /\ i = Len(k.calls)
    BY <1>1, <1>2, <1>3, <2>1 DEF SinkSend, Delta
  <2>2. CASE id # NoId /\ \A j \in 1 .. Len(k.calls) : k.calls[j].id = id <=> j = i
    <3>1. {j \in DOMAIN c : c[j].id = id} = {i}
      BY <1>1, <1>2, <2>2
    <3>2. Min({i}) = i
      BY <1>2 DEF Min
    <3>3. {i} # {}
      OBVIOUS
    <3> QED
      BY <1>1, <1>2, <1>3, <2>2, <3>1, <3>2, <3>3 DEF SinkSend, Delta
  <2> QED
    BY <2>1, <2>2
<1>5. [c EXCEPT ![i].args = @ \o fr] = [c EXCEPT ![i] = [id |-> x.id, args |-> x.args \o fr]]
  <2>1. [x EXCEPT !.args = x.args \o fr] = [id |-> x.id, args |-> x.args \o fr]
    <3>1. PICK a, b : a = x.id /\ b = x.args
      OBVIOUS
    <3>2. x = [id |-> a, args |-> b]
      BY <1>2, <3>1
    <3>3. \A z : [x EXCEPT !.args = z] = [id |-> a, args |-> z]
      BY <3>2
    <3> QED
      BY <3>1, <3>3
  <2> QED
    BY <1>1, <1>2, <2>1
<1> QED
  BY <1>1, <1>3, <1>4, <1>5 DEF Longer

-----------------------------------------------------------------------------
(* What nothing was lost of is whole again after each event. *)

Same(api, s, a, sends) ==
  /\ a.text = s.text /\ a.stop = s.stop
  /\ Captured(sends).text = s.text
  /\ Alike(api, s.blocks, a.buffers, Captured(sends).calls)

\* A clean parser matches what was said exactly when the responses are the same.
LEMMA SameIs ==
  /\ \A api, s, a, sends : Matches(api, s, Clean(a, sends)) <=> Same(api, s, a, sends)
  /\ \A api, s, st : Matches(api, s, st) => Same(api, s, st.asm, st.sent)
<1>1. ASSUME NEW a, NEW sends PROVE Clean(a, sends).asm = a /\ Clean(a, sends).sent = sends
  BY DEF Clean
<1> QED
  BY <1>1 DEF Same, Matches

\* The fields of what the server said.
LEMMA DescribedIs ==
  ASSUME NEW s \in Described
  PROVE  /\ s = [text |-> s.text, blocks |-> s.blocks, stop |-> s.stop]
         /\ s.text \in Seq(Texts) /\ s.blocks \in Seq(SaidBlock) /\ s.stop \in {"Stop", "ToolUse"}
         /\ Len(s.blocks) \in Nat
         /\ \A i \in 1 .. Len(s.blocks) :
              /\ s.blocks[i] \in SaidBlock /\ s.blocks[i].id = i - 1
              /\ s.blocks[i].kind = "text" => s.blocks[i].args = <<>>
<1>1. /\ s = [text |-> s.text, blocks |-> s.blocks, stop |-> s.stop]
      /\ s.text \in Seq(Texts) /\ s.blocks \in Seq(SaidBlock) /\ s.stop \in {"Stop", "ToolUse"}
  BY DEF Described
<1>2. /\ \A i \in 1 .. Len(s.blocks) :
           /\ s.blocks[i].id = i - 1
           /\ s.blocks[i].kind = "text" => s.blocks[i].args = <<>>
  BY DEF Described
<1> QED
  BY <1>1, <1>2

\* What the sink makes of one delta more.
LEMMA OneMore ==
  ASSUME NEW sends \in Seq(Streamed), NEW d \in Streamed
  PROVE  Captured(sends) \in Captures /\ Captured(Append(sends, d)) = SinkSend(Captured(sends), d)
<1>1. \A e \in Streamed : e \in Streamed \/ e.type = "MessageStop"
  OBVIOUS
<1> QED
  BY <1>1, CapturedAppend

\* A text that arrives keeps the response and the sink what the server said.
LEMMA TextSame ==
  ASSUME NEW n \in Nat, NEW api, NEW t \in States(n), NEW s \in Described, NEW x \in Texts,
         Same(api, s, t.asm, t.sent)
  PROVE  LET r == TextDelta(t, x)
         IN  Same(api, [s EXCEPT !.text = @ \o Fragment(x)], r.asm, r.sent)
<1>1. PICK r, h : r = TextDelta(t, x) /\ h = [s EXCEPT !.text = @ \o Fragment(x)]
  OBVIOUS
<1>2. h.text = s.text \o Fragment(x) /\ h.blocks = s.blocks /\ h.stop = s.stop
  BY <1>1, DescribedIs
<1>3. CASE x = Empty
  <2>1. r = t
    BY <1>1, <1>3 DEF TextDelta
  <2>2. Fragment(x) = <<>> /\ s.text \o <<>> = s.text
    BY <1>3, DescribedIs DEF Fragment
  <2> QED
    BY <1>1, <1>2, <2>1, <2>2 DEF Same
<1>4. CASE x # Empty
  <2>1. PICK a, y, d : /\ d = [type |-> "ContentDelta", text |-> x]
                       /\ a = [text |-> Append(t.asm.text, x), buffers |-> t.asm.buffers,
                               stop |-> t.asm.stop]
                       /\ y = Append(t.sent, d)
    OBVIOUS
  <2>2. r = With(t, a, y)
    BY <1>1, <1>4, <2>1, TextDeltaIs
  <2>3. r.asm = a /\ r.sent = y
    BY <2>2 DEF With
  <2>4. a.text = Append(t.asm.text, x) /\ a.buffers = t.asm.buffers /\ a.stop = t.asm.stop
    BY <2>1
  <2>5. t.sent \in Seq(Streamed) /\ d \in Streamed
    BY <2>1, StateParts DEF Streamed, TextDeltas
  <2>6. PICK k \in Captures : k = Captured(t.sent) /\ Captured(y) = SinkSend(k, d)
    BY <2>1, <2>5, OneMore
  <2>7. Captured(y).text = Append(k.text, x) /\ Captured(y).calls = k.calls
    <3>1. SinkSend(k, d) = [text |-> Append(k.text, x), calls |-> k.calls]
      BY <2>1, SinkText, Zenon
    <3> QED
      BY <2>6, <3>1
  <2>8. Append(s.text, x) = s.text \o Fragment(x)
    BY <1>4, DescribedIs DEF Fragment
  <2>9. /\ t.asm.text = s.text /\ t.asm.stop = s.stop /\ k.text = s.text
        /\ Alike(api, s.blocks, t.asm.buffers, k.calls)
    BY <2>6 DEF Same
  <2>10. /\ a.text = h.text /\ a.stop = h.stop /\ Captured(y).text = h.text
    BY <1>2, <2>4, <2>7, <2>8, <2>9
  <2>11. Alike(api, h.blocks, a.buffers, Captured(y).calls)
    BY <1>2, <2>4, <2>7, <2>9
  <2> QED
    BY <1>1, <2>3, <2>10, <2>11 DEF Same
<1> QED
  BY <1>3, <1>4

\* So does a reason to stop.
LEMMA StopSame ==
  ASSUME NEW n \in Nat, NEW api, NEW t \in States(n), NEW s \in Described, NEW x \in Stops,
         Same(api, s, t.asm, t.sent)
  PROVE  LET r == [t EXCEPT !.asm.stop = x]
         IN  Same(api, [s EXCEPT !.stop = x], r.asm, r.sent)
<1>1. PICK r, h : r = [t EXCEPT !.asm.stop = x] /\ h = [s EXCEPT !.stop = x]
  OBVIOUS
<1>2. h.text = s.text /\ h.blocks = s.blocks /\ h.stop = x
  BY <1>1, DescribedIs
<1>3. r.asm = StoppedBy(t.asm, x) /\ r.sent = t.sent
  <2>1. r = With(t, StoppedBy(t.asm, x), t.sent)
    BY <1>1, SetStop
  <2> QED
    BY <2>1 DEF With
<1>4. r.asm.text = t.asm.text /\ r.asm.buffers = t.asm.buffers /\ r.asm.stop = x
  BY <1>3 DEF StoppedBy
<1> QED
  BY <1>1, <1>2, <1>3, <1>4 DEF Same

\* Another list of blocks, of buffers and of calls.
LEMMA BlocksSame ==
  ASSUME NEW api, NEW s \in Described, NEW a, NEW sends, Same(api, s, a, sends),
         NEW b, NEW more, NEW blocks,
         Captured(more).text = Captured(sends).text,
         Alike(api, blocks, b, Captured(more).calls)
  PROVE  Same(api, [s EXCEPT !.blocks = blocks], Buffered(a, b), more)
<1>1. PICK h, a1 : h = [s EXCEPT !.blocks = blocks] /\ a1 = Buffered(a, b)
  OBVIOUS
<1>2. h.text = s.text /\ h.blocks = blocks /\ h.stop = s.stop
  BY <1>1, DescribedIs
<1>3. a1.text = a.text /\ a1.buffers = b /\ a1.stop = a.stop
  BY <1>1 DEF Buffered
<1> QED
  BY <1>1, <1>2, <1>3 DEF Same

\* The calls of one block more, or with other arguments in the last.
LEMMA CallOfIs ==
  ASSUME NEW blocks \in Seq(SaidBlock)
  PROVE  /\ CallOf(blocks) \in Seq(Call) /\ Len(CallOf(blocks)) = Len(blocks)
         /\ \A i \in 1 .. Len(blocks) : CallOf(blocks)[i] = [id |-> i - 1, args |-> blocks[i].args]
<1>1. PICK c : c = CallOf(blocks)
  OBVIOUS
<1>2. \A i \in 1 .. Len(blocks) : blocks[i].args \in Seq(Frags)
  <2>1. \A x \in SaidBlock : x.args \in Seq(Frags)
    BY DEF SaidBlock
  <2> QED
    BY <2>1
<1>3. \A i \in 1 .. Len(blocks) : [id |-> i - 1, args |-> blocks[i].args] \in Call
  <2> SUFFICES ASSUME NEW i \in 1 .. Len(blocks) PROVE [id |-> i - 1, args |-> blocks[i].args] \in Call
    OBVIOUS
  <2>1. i - 1 \in Nat
    OBVIOUS
  <2> QED
    BY <1>2, <2>1 DEF Call, Ids
<1>4. c = [i \in 1 .. Len(blocks) |-> [id |-> i - 1, args |-> blocks[i].args]]
  BY <1>1 DEF CallOf
<1>5. Len(blocks) \in Nat
  OBVIOUS
<1>6. c \in Seq(Call) /\ Len(c) = Len(blocks)
  BY <1>3, <1>4, <1>5
<1> QED
  BY <1>1, <1>4, <1>6

\* The calls of the blocks and one more.
LEMMA CallOfAppend ==
  ASSUME NEW blocks \in Seq(SaidBlock), NEW x \in SaidBlock
  PROVE  CallOf(Append(blocks, x)) = Append(CallOf(blocks), [id |-> Len(blocks), args |-> x.args])
<1>1. PICK m \in Nat : m = Len(blocks)
  OBVIOUS
<1>2. PICK u, c, d, y, v : /\ u = Append(blocks, x) /\ c = CallOf(blocks) /\ d = CallOf(u)
                           /\ y = [id |-> m, args |-> x.args] /\ v = Append(c, y)
  OBVIOUS
<1>3. u \in Seq(SaidBlock) /\ Len(u) = m + 1 /\ u[m + 1] = x /\ \A i \in 1 .. m : u[i] = blocks[i]
  BY <1>1, <1>2
<1>4. /\ c \in Seq(Call) /\ Len(c) = m /\ d \in Seq(Call) /\ Len(d) = m + 1
      /\ \A i \in 1 .. m : c[i] = [id |-> i - 1, args |-> blocks[i].args]
      /\ \A i \in 1 .. m + 1 : d[i] = [id |-> i - 1, args |-> u[i].args]
  BY <1>1, <1>2, <1>3, CallOfIs
<1>5. y \in Call
  BY <1>2 DEF Call, SaidBlock, Ids
<1>6. v \in Seq(Call) /\ Len(v) = m + 1 /\ v[m + 1] = y /\ \A i \in 1 .. m : v[i] = c[i]
  BY <1>2, <1>4, <1>5
<1>7. d[m + 1] = y
  <2>1. m + 1 \in 1 .. m + 1 /\ (m + 1) - 1 = m
    OBVIOUS
  <2> QED
    BY <1>2, <1>3, <1>4, <2>1
<1>8. \A i \in 1 .. m + 1 : d[i] = v[i]
  <2>1. \A i \in 1 .. m + 1 : i \in 1 .. m \/ i = m + 1
    OBVIOUS
  <2>2. \A i \in 1 .. m : d[i] = v[i]
    <3>1. \A i \in 1 .. m : i \in 1 .. m + 1
      OBVIOUS
    <3> QED
      BY <1>3, <1>4, <1>6, <3>1
  <2> QED
    BY <1>6, <1>7, <2>1, <2>2
<1>9. d = v
  BY <1>4, <1>6, <1>8
<1> QED
  BY <1>1, <1>2, <1>9


\* Anthropic opens a block.
LEMMA StartSame ==
  ASSUME NEW n \in Nat, NEW t \in States(n), NEW s \in Described, NEW kind \in {"text", "tool_use"},
         Same("anthropic", s, t.asm, t.sent), NEW e \in Events(n), e.type = kind,
         e.index = Len(s.blocks) + 1, e.id = Len(s.blocks)
  PROVE  LET r == BlockStart(t, e)
             x == [kind |-> kind, id |-> Len(s.blocks), args |-> <<>>]
         IN  Same("anthropic", [s EXCEPT !.blocks = Append(s.blocks, x)], r.asm, r.sent)
<1>1. PICK m, bl, b, x, g, v, b2, bl2 :
        /\ m = Len(s.blocks) /\ bl = s.blocks /\ b = t.asm.buffers
        /\ x = [kind |-> kind, id |-> m, args |-> <<>>]
        /\ g = Grown(b, m + 1) /\ v = [id |-> m, marker |-> TRUE, args |-> <<>>]
        /\ b2 = IF kind = "tool_use" THEN [g EXCEPT ![m + 1] = v] ELSE g
        /\ bl2 = Append(bl, x)
  OBVIOUS
<1>2. m \in Nat /\ bl \in Seq(SaidBlock) /\ Len(bl) = m /\ m + 1 \in 0 .. n
  BY <1>1, DescribedIs, EventIs
<1>3. x \in SaidBlock /\ x.kind = kind /\ x.args = <<>>
  BY <1>1, <1>2 DEF SaidBlock
<1>4. /\ bl2 \in Seq(SaidBlock) /\ Len(bl2) = m + 1 /\ bl2[m + 1] = x
      /\ \A i \in 1 .. m : bl2[i] = bl[i]
  BY <1>1, <1>2, <1>3
<1>5. PICK k \in Captures : k = Captured(t.sent)
  <2>1. t.sent \in Seq(Streamed)
    BY StateParts
  <2>2. \A q \in Streamed : q \in Streamed \/ q.type = "MessageStop"
    OBVIOUS
  <2>3. [type |-> "MessageStart"] \in Streamed
    BY DEF Streamed
  <2> QED
    BY <2>1, <2>3, OneMore
<1>6. /\ Len(b) = m
      /\ \A i \in 1 .. m :
           /\ b[i].args = bl[i].args
           /\ b[i].marker => /\ b[i] = [id |-> i - 1, marker |-> TRUE, args |-> <<>>]
                             /\ bl[i].kind = "tool_use"
      /\ k.calls = Chosen(CallOf(bl), Begun(bl, b))
  BY <1>1, <1>2, <1>5 DEF Same, Alike
<1>7. b \in Buffers(n)
  BY <1>1, StateParts
<1>8. /\ Len(g) = m + 1 /\ g \in Buffers(n)
      /\ \A j \in 1 .. m + 1 : g[j] = IF j <= m THEN b[j] ELSE NoBuffer
  BY <1>1, <1>2, <1>6, <1>7, GrownIs
<1>9. BlockStart(t, e) = With(t, Buffered(t.asm, b2), t.sent)
  BY <1>1, BlockStartIs
<1>10. /\ Len(b2) = m + 1 /\ \A j \in 1 .. m : b2[j] = b[j]
       /\ b2[m + 1] = IF kind = "tool_use" THEN v ELSE NoBuffer
  <2>1. g \in Seq(Buffer)
    BY <1>8 DEF Buffers
  <2>2. m + 1 \in 1 .. m + 1 /\ ~(m + 1 <= m) /\ \A j \in 1 .. m : j \in 1 .. m + 1 /\ j <= m /\ j # m + 1
    BY <1>2
  <2>3. g[m + 1] = NoBuffer /\ \A j \in 1 .. m : g[j] = b[j]
    BY <1>8, <2>2
  <2>4. PICK g2 : g2 = [g EXCEPT ![m + 1] = v]
    OBVIOUS
  <2>5. Len(g2) = m + 1 /\ g2[m + 1] = v /\ \A j \in 1 .. m : g2[j] = g[j]
    BY <1>2, <1>8, <2>1, <2>2, <2>4
  <2>6. b2 = IF kind = "tool_use" THEN g2 ELSE g
    BY <1>1, <2>4
  <2> QED
    BY <1>8, <2>3, <2>5, <2>6
<1>11. \A i \in 1 .. m + 1 : i \in 1 .. m \/ i = m + 1
  BY <1>2
<1>12. /\ v.args = <<>> /\ v.marker = TRUE /\ NoBuffer.args = <<>> /\ NoBuffer.marker = FALSE
       /\ v = [id |-> (m + 1) - 1, marker |-> TRUE, args |-> <<>>]
  BY <1>1, <1>2 DEF NoBuffer
<1>13. \A i \in 1 .. m + 1 :
         /\ b2[i].args = bl2[i].args
         /\ b2[i].marker => /\ b2[i] = [id |-> i - 1, marker |-> TRUE, args |-> <<>>]
                            /\ bl2[i].kind = "tool_use"
  <2>1. ASSUME NEW i \in 1 .. m
        PROVE  /\ b2[i].args = bl2[i].args
               /\ b2[i].marker => /\ b2[i] = [id |-> i - 1, marker |-> TRUE, args |-> <<>>]
                                  /\ bl2[i].kind = "tool_use"
    BY <1>4, <1>6, <1>10
  <2>2. /\ b2[m + 1].args = bl2[m + 1].args
        /\ b2[m + 1].marker => /\ b2[m + 1] = [id |-> (m + 1) - 1, marker |-> TRUE, args |-> <<>>]
                               /\ bl2[m + 1].kind = "tool_use"
    BY <1>3, <1>4, <1>10, <1>12
  <2> QED
    BY <1>11, <2>1, <2>2
<1>14. PICK I, J : I = Begun(bl, b) /\ J = Begun(bl2, b2)
  OBVIOUS
<1>15. \A i \in 1 .. m : i \in I <=> i \in J
  <2>1. \A i \in 1 .. m : i \in 1 .. m + 1
    BY <1>2
  <2> QED
    BY <1>2, <1>4, <1>10, <1>14, <2>1 DEF Begun
<1>16. m + 1 \notin J
  BY <1>3, <1>4, <1>10, <1>12, <1>14 DEF Begun
<1>17. PICK c, y : c = CallOf(bl) /\ y = [id |-> m, args |-> <<>>]
  OBVIOUS
<1>18. c \in Seq(Call) /\ Len(c) = m /\ y \in Call /\ CallOf(bl2) = Append(c, y)
  <2>1. y \in Call
    BY <1>2, <1>17 DEF Call, Ids
  <2> QED
    BY <1>1, <1>2, <1>3, <1>17, <2>1, CallOfIs, CallOfAppend
<1>19. Chosen(Append(c, y), J) = Chosen(c, J)
  BY <1>16, <1>18, ChosenAppend
<1>20. Chosen(c, I) = Chosen(c, J)
  BY <1>15, <1>18, ChosenSame
<1>21. Alike("anthropic", bl2, b2, k.calls)
  <2>1. k.calls = Chosen(CallOf(bl2), Begun(bl2, b2))
    BY <1>6, <1>14, <1>17, <1>18, <1>19, <1>20
  <2> QED
    BY <1>4, <1>10, <1>13, <2>1 DEF Alike
<1>22. Same("anthropic", [s EXCEPT !.blocks = bl2], Buffered(t.asm, b2), t.sent)
  BY <1>5, <1>21, BlocksSame
<1>23. BlockStart(t, e).asm = Buffered(t.asm, b2) /\ BlockStart(t, e).sent = t.sent
  BY <1>9 DEF With
<1> QED
  BY <1>1, <1>22, <1>23

\* The last block, x, with other arguments, and the calls then.
LastBlockHas(blocks, m, fr, x, blocks2) ==
  /\ m \in Nat /\ m \in 1 .. Len(blocks)
  /\ blocks2 \in Seq(SaidBlock) /\ Len(blocks2) = m
  /\ blocks2[m].args = x.args \o fr /\ blocks2[m].kind = x.kind
  /\ \A i \in 1 .. m - 1 : blocks2[i] = blocks[i]
  /\ x.args \in Seq(Frags)
  /\ \E c \in Seq(Call) :
       /\ Len(c) = m - 1
       /\ \A i \in 1 .. m - 1 : c[i].id = i - 1
       /\ CallOf(blocks) = Append(c, [id |-> m - 1, args |-> x.args])
       /\ CallOf(blocks2) = Append(c, [id |-> m - 1, args |-> x.args \o fr])

\* What the last block has when it gets another fragment.
LEMMA LastBlock ==
  ASSUME NEW blocks \in Seq(SaidBlock), NEW m, m = Len(blocks), m # 0, NEW fr \in Seq(Frags),
         NEW x, x = blocks[m], NEW blocks2, blocks2 = [blocks EXCEPT ![m].args = @ \o fr]
  PROVE  LastBlockHas(blocks, m, fr, x, blocks2)
<1>1. m \in Nat /\ m \in 1 .. Len(blocks) /\ m - 1 \in Nat
  OBVIOUS
<1>2. x \in SaidBlock
  BY <1>1
<1>3. PICK f \in Seq(SaidBlock) : /\ Len(f) = m - 1 /\ blocks = Append(f, x)
                              /\ \A i \in 1 .. Len(f) : f[i] = blocks[i]
  BY <1>2, LastApart
<1>4. PICK x2 : x2 = [kind |-> x.kind, id |-> x.id, args |-> x.args \o fr]
  OBVIOUS
<1>5. /\ x.args \in Seq(Frags) /\ x2 \in SaidBlock /\ x2.kind = x.kind /\ x2.args = x.args \o fr
      /\ x = [kind |-> x.kind, id |-> x.id, args |-> x.args]
  <2>1. /\ x.args \in Seq(Frags) /\ x.kind \in {"text", "tool_use"} /\ x.id \in Nat
        /\ x = [kind |-> x.kind, id |-> x.id, args |-> x.args]
    <3>1. \A z \in SaidBlock : /\ z.args \in Seq(Frags) /\ z.kind \in {"text", "tool_use"} /\ z.id \in Nat
                            /\ z = [kind |-> z.kind, id |-> z.id, args |-> z.args]
      BY DEF SaidBlock
    <3> QED
      BY <1>2, <3>1, Zenon
  <2>2. x.args \o fr \in Seq(Frags)
    BY <2>1
  <2>3. x2 \in SaidBlock
    BY <1>4, <2>1, <2>2 DEF SaidBlock
  <2>4. x2.kind = x.kind /\ x2.args = x.args \o fr
    BY <1>4
  <2> QED
    BY <2>1, <2>3, <2>4
<1>6. [blocks EXCEPT ![m].args = @ \o fr] = [blocks EXCEPT ![m] = x2]
  <2>1. [x EXCEPT !.args = x.args \o fr] = x2
    <3>1. PICK a, b, c : a = x.kind /\ b = x.id /\ c = x.args
      OBVIOUS
    <3>2. x = [kind |-> a, id |-> b, args |-> c]
      BY <1>5, <3>1
    <3>3. \A z : [x EXCEPT !.args = z] = [kind |-> a, id |-> b, args |-> z]
      BY <3>2
    <3> QED
      BY <1>4, <3>1, <3>3
  <2> QED
    BY <1>1, <1>2, <2>1
<1>7. PICK bl2 : bl2 = Append(f, x2)
  OBVIOUS
<1>8. [blocks EXCEPT ![m] = x2] = bl2
  <2>1. m = Len(f) + 1
    BY <1>1, <1>3
  <2>2. [Append(f, x) EXCEPT ![m] = x2] = Append(f, x2)
    <3>1. PICK z \in SaidBlock, z2 \in SaidBlock : z = x /\ z2 = x2
      BY <1>2, <1>5
    <3>2. [Append(f, z) EXCEPT ![m] = z2] = Append(f, z2)
      BY <2>1, SetLast
    <3> QED
      BY <3>1, <3>2, Zenon
  <2> QED
    BY <1>3, <1>7, <2>2
<1>9. /\ bl2 \in Seq(SaidBlock) /\ Len(bl2) = m /\ bl2[m] = x2 /\ \A i \in 1 .. m - 1 : bl2[i] = f[i]
  BY <1>1, <1>3, <1>5, <1>7
<1>10. PICK c : c = CallOf(f)
  OBVIOUS
<1>11. c \in Seq(Call) /\ Len(c) = m - 1 /\ \A i \in 1 .. m - 1 : c[i].id = i - 1
  <2>1. /\ c \in Seq(Call) /\ Len(c) = Len(f)
        /\ \A i \in 1 .. Len(f) : c[i] = [id |-> i - 1, args |-> f[i].args]
    BY <1>10, CallOfIs
  <2>2. ASSUME NEW i \in 1 .. Len(f) PROVE c[i].id = i - 1
    <3>1. c[i] = [id |-> i - 1, args |-> f[i].args]
      BY <2>1
    <3> QED
      BY <3>1
  <2> QED
    BY <1>3, <2>1, <2>2
<1>12. CallOf(blocks) = Append(c, [id |-> m - 1, args |-> x.args])
  BY <1>3, <1>10, CallOfAppend
<1>13. CallOf(bl2) = Append(c, [id |-> m - 1, args |-> x.args \o fr])
  BY <1>3, <1>5, <1>7, <1>10, CallOfAppend
<1>14. blocks2 = bl2
  BY <1>6, <1>8
<1>15. blocks2[m].args = x.args \o fr /\ blocks2[m].kind = x.kind
  BY <1>5, <1>9, <1>14
<1>16. \A i \in 1 .. m - 1 : blocks2[i] = blocks[i]
  BY <1>3, <1>9, <1>14
<1> QED
  BY <1>1, <1>5, <1>9, <1>11, <1>12, <1>13, <1>14, <1>15, <1>16 DEF LastBlockHas


\* Anthropic describes its last block, a call.
LEMMA ArgsSame ==
  ASSUME NEW n \in Nat, NEW t \in States(n), NEW s \in Described, NEW f \in Frags,
         Same("anthropic", s, t.asm, t.sent), NEW e \in Events(n), e.type = "input_json_delta",
         NEW m, m = Len(s.blocks), m # 0, e.index = m, e.args = f, s.blocks[m].kind = "tool_use"
  PROVE  LET r == ArgsDelta(t, e)
         IN  Same("anthropic", [s EXCEPT !.blocks[m].args = @ \o Fragment(f)], r.asm, r.sent)
<1>1. PICK bl, b, fr, x, bl2, v, d, b2, snt :
        /\ bl = s.blocks /\ b = t.asm.buffers /\ fr = Fragment(f) /\ x = bl[m]
        /\ bl2 = [bl EXCEPT ![m].args = @ \o fr]
        /\ v = [id |-> NoId, marker |-> FALSE, args |-> b[m].args \o fr]
        /\ d = Delta(IF b[m].marker THEN b[m].id ELSE NoId, f)
        /\ b2 = [b EXCEPT ![m] = v] /\ snt = Append(t.sent, d)
  OBVIOUS
<1>2. bl \in Seq(SaidBlock) /\ Len(bl) = m /\ m \in Nat
  BY <1>1, DescribedIs
<1>3. fr \in Seq(Frags)
  BY <1>1, FragmentTyped
<1>4. PICK c \in Seq(Call) :
        /\ m \in 1 .. Len(bl) /\ bl2 \in Seq(SaidBlock) /\ Len(bl2) = m
        /\ bl2[m].args = x.args \o fr /\ bl2[m].kind = x.kind
        /\ \A i \in 1 .. m - 1 : bl2[i] = bl[i]
        /\ x.args \in Seq(Frags)
        /\ Len(c) = m - 1
        /\ \A i \in 1 .. m - 1 : c[i].id = i - 1
        /\ CallOf(bl) = Append(c, [id |-> m - 1, args |-> x.args])
        /\ CallOf(bl2) = Append(c, [id |-> m - 1, args |-> x.args \o fr])
  <2>1. m = Len(bl) /\ x = bl[m] /\ bl2 = [bl EXCEPT ![m].args = @ \o fr]
    BY <1>1, <1>2
  <2>2. LastBlockHas(bl, m, fr, x, bl2)
    BY <1>2, <1>3, <2>1, LastBlock
  <2> QED
    BY <2>2, Zenon DEF LastBlockHas
<1>5. t.sent \in Seq(Streamed) /\ b \in Buffers(n) /\ b \in Seq(Buffer)
  BY <1>1, StateParts
<1>6. PICK k : k = Captured(t.sent)
  OBVIOUS
<1>7. /\ Len(b) = m
      /\ \A i \in 1 .. m :
           /\ b[i].args = bl[i].args
           /\ b[i].marker => /\ b[i] = [id |-> i - 1, marker |-> TRUE, args |-> <<>>]
                             /\ bl[i].kind = "tool_use"
      /\ k.calls = Chosen(CallOf(bl), Begun(bl, b))
  BY <1>1, <1>2, <1>6 DEF Same, Alike
<1>8. ArgsDelta(t, e) = With(t, Buffered(t.asm, b2), snt) /\ d \in Streamed
  <2>1. ~(m > Len(b)) /\ m <= Len(b) /\ m \in 1 .. n
    BY <1>2, <1>7, EventIs
  <2>2. /\ ArgsDelta(t, e) =
             IF e.index > Len(b) THEN t
             ELSE With(t, Buffered(t.asm,
                    [b EXCEPT ![e.index] = [id |-> NoId, marker |-> FALSE,
                                            args |-> b[e.index].args \o Fragment(e.args)]]),
                    Append(t.sent, Delta(IF b[e.index].marker THEN b[e.index].id ELSE NoId, e.args)))
        /\ e.index \in 1 .. n /\ e.index <= Len(b) =>
             Delta(IF b[e.index].marker THEN b[e.index].id ELSE NoId, e.args) \in Streamed
    BY <1>1, ArgsDeltaIs, Zenon
  <2>3. /\ ArgsDelta(t, e) =
             IF m > Len(b) THEN t
             ELSE With(t, Buffered(t.asm,
                    [b EXCEPT ![m] = [id |-> NoId, marker |-> FALSE, args |-> b[m].args \o Fragment(f)]]),
                    Append(t.sent, Delta(IF b[m].marker THEN b[m].id ELSE NoId, f)))
        /\ m \in 1 .. n /\ m <= Len(b) =>
             Delta(IF b[m].marker THEN b[m].id ELSE NoId, f) \in Streamed
    BY <2>2
  <2> QED
    BY <1>1, <2>1, <2>3
<1>9. k \in Captures /\ Captured(snt) = SinkSend(k, d)
  BY <1>1, <1>5, <1>6, <1>8, OneMore
<1>10. Len(b2) = m /\ b2[m] = v /\ \A i \in 1 .. m - 1 : b2[i] = b[i]
  <2>1. b2 = [b EXCEPT ![m] = v] /\ m \in 1 .. Len(b) /\ Len(b) = m
    BY <1>1, <1>2, <1>4, <1>7
  <2>2. \A i \in 1 .. m - 1 : i \in 1 .. m /\ i # m
    BY <1>2
  <2> QED
    BY <1>5, <2>1, <2>2
<1>11. /\ \A i \in 1 .. m : i \in 1 .. m - 1 \/ i = m
       /\ \A i \in 1 .. m - 1 : i \in 1 .. m
       /\ m \in 1 .. m /\ m - 1 \in Nat /\ m = (m - 1) + 1 /\ m \notin 1 .. m - 1
  BY <1>2
<1>12. b[m].args = x.args /\ v.args = x.args \o fr /\ v.marker = FALSE
  BY <1>1, <1>7, <1>11
<1>13. \A i \in 1 .. m :
         /\ b2[i].args = bl2[i].args
         /\ b2[i].marker => /\ b2[i] = [id |-> i - 1, marker |-> TRUE, args |-> <<>>]
                            /\ bl2[i].kind = "tool_use"
  <2>1. ASSUME NEW i \in 1 .. m - 1
        PROVE  /\ b2[i].args = bl2[i].args
               /\ b2[i].marker => /\ b2[i] = [id |-> i - 1, marker |-> TRUE, args |-> <<>>]
                                  /\ bl2[i].kind = "tool_use"
    BY <1>4, <1>7, <1>10, <1>11
  <2>2. b2[m].args = bl2[m].args /\ b2[m].marker = FALSE
    BY <1>4, <1>10, <1>12
  <2> QED
    BY <1>11, <2>1, <2>2
<1>14. PICK I, J : I = Begun(bl, b) /\ J = Begun(bl2, b2)
  OBVIOUS
<1>15. \A i \in 1 .. m - 1 : i \in I <=> i \in J
  BY <1>2, <1>4, <1>10, <1>11, <1>14 DEF Begun
<1>16. m \in J
  BY <1>1, <1>4, <1>10, <1>11, <1>12, <1>14 DEF Begun
<1>17. m \in I <=> ~b[m].marker
  BY <1>1, <1>2, <1>11, <1>14 DEF Begun
<1>18. PICK y, z : y = [id |-> m - 1, args |-> x.args] /\ z = [id |-> m - 1, args |-> x.args \o fr]
  OBVIOUS
<1>19. y \in Call /\ z \in Call
  <2>1. x.args \o fr \in Seq(Frags)
    BY <1>3, <1>4
  <2> QED
    BY <1>4, <1>11, <1>18, <2>1 DEF Call, Ids
<1>20. PICK q : q = Chosen(c, I)
  OBVIOUS
<1>21. q = Chosen(c, J) /\ q \in Seq(Call)
  <2>1. c \in Seq(Call) /\ \A i \in 1 .. Len(c) : i \in I <=> i \in J
    BY <1>4, <1>15
  <2>2. Chosen(c, I) = Chosen(c, J)
    BY <2>1, ChosenSame, Zenon
  <2>3. Chosen(c, I) \in Seq(Call)
    BY <2>1, ChosenFrom, Zenon
  <2> QED
    BY <1>20, <2>2, <2>3, Zenon
<1>22. Chosen(CallOf(bl2), J) = Append(q, z)
  <2>1. Chosen(Append(c, z), J) = IF Len(c) + 1 \in J THEN Append(Chosen(c, J), z) ELSE Chosen(c, J)
    BY <1>19, ChosenAppend
  <2> QED
    BY <1>4, <1>11, <1>16, <1>18, <1>21, <2>1
<1>23. k.calls = IF m \in I THEN Append(q, y) ELSE q
  <2>1. Chosen(Append(c, y), I) = IF Len(c) + 1 \in I THEN Append(Chosen(c, I), y) ELSE Chosen(c, I)
    BY <1>19, ChosenAppend
  <2> QED
    BY <1>4, <1>7, <1>11, <1>14, <1>18, <1>20, <2>1
<1>24. Captured(snt).text = k.text /\ Captured(snt).calls = Append(q, z)
  <2>1. CASE b[m].marker
    <3>1. b[m] = [id |-> m - 1, marker |-> TRUE, args |-> <<>>]
      BY <1>7, <1>11, <2>1
    <3>2. d = Delta(m - 1, f) /\ x.args = <<>>
      BY <1>1, <1>12, <2>1, <3>1
    <3>3. k.calls = q
      BY <1>17, <1>23, <2>1
    <3>4. \A j \in 1 .. Len(q) : q[j].id # m - 1
      <4>1. \A j \in 1 .. Len(q) : \E i \in 1 .. Len(c) : q[j] = c[i]
        <5>1. \A j \in 1 .. Len(Chosen(c, I)) : \E i \in 1 .. Len(c) \cap I : Chosen(c, I)[j] = c[i]
          BY ChosenFrom
        <5> QED
          BY <1>20, <5>1
      <4>2. \A i \in 1 .. Len(c) : c[i].id # m - 1
        <5>1. \A i \in 1 .. m - 1 : i - 1 # m - 1
          BY <1>11
        <5> QED
          BY <1>4, <5>1
      <4> QED
        BY <4>1, <4>2
    <3>5. PICK id \in Nat : id = m - 1
      BY <1>11
    <3>6. SinkSend(k, Delta(id, f)) =
            [text |-> k.text, calls |-> Append(k.calls, [id |-> id, args |-> Fragment(f)])]
      BY <1>9, <3>3, <3>4, <3>5, SinkNew
    <3>7. z = [id |-> id, args |-> Fragment(f)]
      <4>1. <<>> \o fr = fr
        BY <1>3
      <4> QED
        BY <1>1, <1>18, <3>2, <3>5, <4>1
    <3>8. Captured(snt) = [text |-> k.text, calls |-> Append(q, z)]
      BY <1>9, <3>2, <3>3, <3>5, <3>6, <3>7
    <3> QED
      BY <3>8
  <2>2. CASE ~b[m].marker
    <3>1. d = Delta(NoId, f)
      BY <1>1, <2>2
    <3>2. k.calls = Append(q, y)
      BY <1>17, <1>23, <2>2
    <3>3. PICK j \in Nat : j = Len(q) + 1
      BY <1>21
    <3>4. Len(k.calls) = j /\ j \in 1 .. Len(k.calls) /\ k.calls[j] = y
      BY <1>19, <1>21, <3>2, <3>3
    <3>5. SinkSend(k, Delta(NoId, f)) =
            [text |-> k.text,
             calls |-> [k.calls EXCEPT ![j] = [id |-> k.calls[j].id,
                                               args |-> k.calls[j].args \o Fragment(f)]]]
      <4>1. NoId \in Ids
        BY DEF Ids
      <4> QED
        <5>1. PICK id \in Ids : id = NoId
          BY <4>1
        <5>2. id = NoId /\ j = Len(k.calls)
          BY <3>4, <5>1
        <5>3. SinkSend(k, Delta(id, f)) = Longer(k, j, f)
          BY <1>9, <3>4, <5>2, SinkMore
        <5> QED
          BY <5>1, <5>3, Zenon DEF Longer
    <3>6. z = [id |-> k.calls[j].id, args |-> k.calls[j].args \o Fragment(f)]
      <4>1. y.id = m - 1 /\ y.args = x.args
        BY <1>18
      <4> QED
        BY <1>1, <1>18, <3>4, <4>1
    <3>7. [k.calls EXCEPT ![j] = z] = Append(q, z)
      <4>1. [Append(q, y) EXCEPT ![j] = z] = Append(q, z)
        BY <1>19, <1>21, <3>3, SetLast
      <4> QED
        BY <3>2, <4>1
    <3>8. Captured(snt) = [text |-> k.text, calls |-> Append(q, z)]
      BY <1>9, <3>1, <3>5, <3>6, <3>7, Zenon
    <3> QED
      BY <3>8
  <2> QED
    BY <2>1, <2>2
<1>25. Alike("anthropic", bl2, b2, Captured(snt).calls)
  <2>1. Captured(snt).calls = Chosen(CallOf(bl2), Begun(bl2, b2))
    BY <1>14, <1>22, <1>24
  <2> QED
    BY <1>4, <1>10, <1>13, <2>1 DEF Alike
<1>26. Same("anthropic", [s EXCEPT !.blocks = bl2], Buffered(t.asm, b2), snt)
  BY <1>6, <1>24, <1>25, BlocksSame
<1>27. ArgsDelta(t, e).asm = Buffered(t.asm, b2) /\ ArgsDelta(t, e).sent = snt
  BY <1>8 DEF With
<1>28. [s EXCEPT !.blocks[m].args = @ \o Fragment(f)] = [s EXCEPT !.blocks = bl2]
  <2>1. PICK s1, s3 : s1 = s.text /\ s3 = s.stop
    OBVIOUS
  <2>2. s = [text |-> s1, blocks |-> bl, stop |-> s3]
    BY <1>1, <2>1, DescribedIs
  <2> QED
    BY <1>1, <2>2
<1> QED
  BY <1>26, <1>27, <1>28


\* OpenAI describes a call: the decoder's step, in the words of Alike.
EntryHas(t, c, i, f, g, id, v) ==
  /\ CallDelta(t, c).asm = Buffered(t.asm, [g EXCEPT ![i] = v])
  /\ CallDelta(t, c).sent = Append(t.sent, Delta(id, f))
  /\ Delta(id, f) \in Streamed
  /\ g \in Seq(Buffer) /\ Len(g) = IF i > Len(t.asm.buffers) THEN i ELSE Len(t.asm.buffers)
  /\ \A j \in 1 .. Len(g) : g[j] = IF j <= Len(t.asm.buffers) THEN t.asm.buffers[j] ELSE NoBuffer

\* What the decoder makes of an entry of tool_calls.
LEMMA EntryIs ==
  ASSUME NEW n \in Nat, NEW t \in States(n), NEW c \in Entries(n), NEW i, i = c.index,
         NEW f, f = c.args, NEW g, g = Grown(t.asm.buffers, i),
         NEW id, id = (IF c.id = NoId THEN g[i].id ELSE c.id),
         NEW v, v = [id |-> id, marker |-> g[i].marker, args |-> g[i].args \o Fragment(f)]
  PROVE  EntryHas(t, c, i, f, g, id, v)
<1>1. i \in 1 .. n /\ i \in 0 .. n /\ t.asm.buffers \in Buffers(n)
  BY StateParts DEF Entries
<1>2. /\ g \in Seq(Buffer) /\ Len(g) = IF i > Len(t.asm.buffers) THEN i ELSE Len(t.asm.buffers)
      /\ \A j \in 1 .. Len(g) : g[j] = IF j <= Len(t.asm.buffers) THEN t.asm.buffers[j] ELSE NoBuffer
  <2>1. /\ g \in Buffers(n) /\ Len(g) = IF i > Len(t.asm.buffers) THEN i ELSE Len(t.asm.buffers)
        /\ \A j \in 1 .. Len(g) : g[j] = IF j <= Len(t.asm.buffers) THEN t.asm.buffers[j] ELSE NoBuffer
    BY <1>1, GrownIs
  <2>2. \A z \in Buffers(n) : z \in Seq(Buffer)
    BY DEF Buffers
  <2> QED
    BY <2>1, <2>2
<1>3. PICK d : d = Delta(id, f)
  OBVIOUS
<1>4. CallDelta(t, c) = With(t, Buffered(t.asm, [g EXCEPT ![i] = v]), Append(t.sent, d)) /\ d \in Streamed
  BY <1>3, CallDeltaIs
<1>5. \A x, y : With(t, x, y).asm = x /\ With(t, x, y).sent = y
  BY DEF With
<1>6. PICK x, y : x = Buffered(t.asm, [g EXCEPT ![i] = v]) /\ y = Append(t.sent, d)
  OBVIOUS
<1>7. CallDelta(t, c).asm = x /\ CallDelta(t, c).sent = y
  <2>1. CallDelta(t, c) = With(t, x, y)
    BY <1>4, <1>6, Zenon
  <2> QED
    BY <1>5, <2>1
<1> QED
  BY <1>2, <1>3, <1>4, <1>6, <1>7, Zenon DEF EntryHas

\* A fragment for a call already there keeps all three the same.
LEMMA KnownSame ==
  ASSUME NEW n \in Nat, NEW t \in States(n), NEW s \in Described, NEW f \in Frags,
         Same("openai", s, t.asm, t.sent), NEW c \in Entries(n), c.args = f, c.id = NoId,
         NEW i \in 1 .. Len(s.blocks), c.index = i
  PROVE  LET r == CallDelta(t, c)
         IN  Same("openai", [s EXCEPT !.blocks[i].args = @ \o Fragment(f)], r.asm, r.sent)
<1>1. PICK bl, m, b, k, x, fr : /\ bl = s.blocks /\ m = Len(bl) /\ b = t.asm.buffers /\ x = bl[i]
                                /\ k = Captured(t.sent) /\ fr = Fragment(f)
  OBVIOUS
<1>2. bl \in Seq(SaidBlock) /\ m \in Nat /\ Len(bl) = m /\ i \in 1 .. m /\ i \in Nat /\ i - 1 \in Nat
  BY <1>1, DescribedIs
<1>3. /\ Len(b) = m
      /\ \A j \in 1 .. m :
           /\ bl[j].kind = "tool_use"
           /\ b[j] = [id |-> j - 1, marker |-> FALSE, args |-> bl[j].args]
      /\ k.calls = CallOf(bl)
  BY <1>1, <1>2 DEF Same, Alike
<1>4. x \in SaidBlock /\ fr \in Seq(Frags) /\ x.args \in Seq(Frags) /\ x.kind = "tool_use"
      /\ x = [kind |-> x.kind, id |-> x.id, args |-> x.args] /\ x.id \in Nat
  <2>1. x \in SaidBlock
    BY <1>1, <1>2
  <2>2. fr \in Seq(Frags)
    BY <1>1, FragmentTyped
  <2>3. \A z \in SaidBlock : /\ z.args \in Seq(Frags) /\ z.id \in Nat
                         /\ z = [kind |-> z.kind, id |-> z.id, args |-> z.args]
    BY DEF SaidBlock
  <2>4. x.kind = "tool_use"
    BY <1>1, <1>2, <1>3
  <2> QED
    BY <2>1, <2>2, <2>3, <2>4, Zenon
<1>5. b[i] = [id |-> i - 1, marker |-> FALSE, args |-> x.args]
  BY <1>1, <1>2, <1>3
<1>6. PICK g : g = Grown(b, i)
  OBVIOUS
<1>7. PICK id, v : /\ id = (IF c.id = NoId THEN g[i].id ELSE c.id)
                   /\ v = [id |-> id, marker |-> g[i].marker, args |-> g[i].args \o fr]
  OBVIOUS
<1>0. EntryHas(t, c, i, f, g, id, v)
  <2>1. g = Grown(t.asm.buffers, i)
    BY <1>1, <1>6
  <2>2. v = [id |-> id, marker |-> g[i].marker, args |-> g[i].args \o Fragment(f)]
    BY <1>1, <1>7
  <2>3. i = c.index /\ f = c.args /\ id = (IF c.id = NoId THEN g[i].id ELSE c.id)
    BY <1>7
  <2> QED
    BY <2>1, <2>2, <2>3, EntryIs
<1>8. /\ CallDelta(t, c).asm = Buffered(t.asm, [g EXCEPT ![i] = v])
      /\ CallDelta(t, c).sent = Append(t.sent, Delta(id, f))
      /\ Delta(id, f) \in Streamed
      /\ g \in Seq(Buffer) /\ Len(g) = IF i > Len(b) THEN i ELSE Len(b)
      /\ \A j \in 1 .. Len(g) : g[j] = IF j <= Len(b) THEN b[j] ELSE NoBuffer
  BY <1>0, <1>1 DEF EntryHas
<1>9. b \in Seq(Buffer)
  BY <1>1, StateParts
<1>10. g = b
  <2>1. Len(g) = m /\ \A j \in 1 .. m : g[j] = b[j]
    BY <1>2, <1>3, <1>8
  <2> QED
    BY <1>3, <1>8, <1>9, <2>1
<1>11. id = i - 1 /\ v = [id |-> i - 1, marker |-> FALSE, args |-> x.args \o fr]
  <2>1. b[i].id = i - 1 /\ b[i].marker = FALSE /\ b[i].args = x.args
    BY <1>5
  <2> QED
    BY <1>7, <1>10, <2>1
<1>12. PICK x2, y2 : /\ x2 = [kind |-> x.kind, id |-> x.id, args |-> x.args \o fr]
                     /\ y2 = [id |-> i - 1, args |-> x.args \o fr]
  OBVIOUS
<1>13. /\ x2 \in SaidBlock /\ x2.kind = "tool_use" /\ x2.args = x.args \o fr /\ y2 \in Call
  <2>1. x.args \o fr \in Seq(Frags)
    BY <1>4
  <2> QED
    BY <1>2, <1>4, <1>12, <2>1 DEF SaidBlock, Call, Ids
<1>14. PICK bl2, b2, c2 : /\ bl2 = [bl EXCEPT ![i] = x2] /\ b2 = [b EXCEPT ![i] = v]
                          /\ c2 = [CallOf(bl) EXCEPT ![i] = y2]
  OBVIOUS
<1>15. /\ bl2 \in Seq(SaidBlock) /\ Len(bl2) = m /\ bl2[i] = x2
       /\ \A j \in 1 .. m : j # i => bl2[j] = bl[j]
  BY <1>2, <1>13, <1>14
<1>16. Len(b2) = m /\ b2[i] = v /\ \A j \in 1 .. m : j # i => b2[j] = b[j]
  BY <1>2, <1>3, <1>9, <1>14
<1>17. /\ c2 \in Seq(Call) /\ Len(c2) = m /\ c2[i] = y2
       /\ \A j \in 1 .. m : j # i => c2[j] = [id |-> j - 1, args |-> bl[j].args]
  <2>1. PICK c1 : c1 = CallOf(bl)
    OBVIOUS
  <2>2. c1 \in Seq(Call) /\ Len(c1) = m /\ \A j \in 1 .. m : c1[j] = [id |-> j - 1, args |-> bl[j].args]
    BY <1>2, <2>1, CallOfIs
  <2>3. c2 \in Seq(Call) /\ Len(c2) = m /\ c2[i] = y2 /\ \A j \in 1 .. m : j # i => c2[j] = c1[j]
    BY <1>2, <1>13, <1>14, <2>1, <2>2
  <2> QED
    BY <2>2, <2>3
<1>18. CallOf(bl2) = c2
  <2>1. PICK c1 : c1 = CallOf(bl2)
    OBVIOUS
  <2>2. c1 \in Seq(Call) /\ Len(c1) = m /\ \A j \in 1 .. m : c1[j] = [id |-> j - 1, args |-> bl2[j].args]
    BY <1>15, <2>1, CallOfIs
  <2>3. \A j \in 1 .. m : c1[j] = c2[j]
    <3> SUFFICES ASSUME NEW j \in 1 .. m PROVE c1[j] = c2[j]
      OBVIOUS
    <3>1. CASE j = i
      <4>1. bl2[j].args = x.args \o fr
        BY <1>13, <1>15, <3>1
      <4> QED
        BY <1>12, <1>17, <2>2, <3>1, <4>1
    <3>2. CASE j # i
      BY <1>15, <1>17, <2>2, <3>2
    <3> QED
      BY <3>1, <3>2
  <2> QED
    BY <1>17, <2>1, <2>2, <2>3
<1>19. \A j \in 1 .. m :
         /\ bl2[j].kind = "tool_use"
         /\ b2[j] = [id |-> j - 1, marker |-> FALSE, args |-> bl2[j].args]
  <2> SUFFICES ASSUME NEW j \in 1 .. m
               PROVE  /\ bl2[j].kind = "tool_use"
                      /\ b2[j] = [id |-> j - 1, marker |-> FALSE, args |-> bl2[j].args]
    OBVIOUS
  <2>1. CASE j = i
    BY <1>11, <1>13, <1>15, <1>16, <2>1
  <2>2. CASE j # i
    BY <1>3, <1>15, <1>16, <2>2
  <2> QED
    BY <2>1, <2>2
<1>20. PICK d, snt : d = Delta(id, f) /\ snt = Append(t.sent, d)
  OBVIOUS
<1>21. k \in Captures /\ Captured(snt) = SinkSend(k, d)
  BY <1>1, <1>8, <1>20, StateParts, OneMore
<1>22. SinkSend(k, d) = Longer(k, i, f)
  <2>1. k.calls \in Seq(Call) /\ Len(k.calls) = m
        /\ \A j \in 1 .. m : k.calls[j] = [id |-> j - 1, args |-> bl[j].args]
    BY <1>2, <1>3, CallOfIs
  <2>2. ASSUME NEW j \in 1 .. m PROVE k.calls[j].id = id <=> j = i
    <3>1. k.calls[j].id = j - 1
      <4>1. k.calls[j] = [id |-> j - 1, args |-> bl[j].args]
        BY <2>1
      <4> QED
        BY <4>1
    <3> QED
      BY <1>2, <1>11, <3>1
  <2>3. id # NoId /\ id \in Ids
    BY <1>2, <1>11, ServerAssumption DEF Ids
  <2>4. i \in 1 .. Len(k.calls) /\ \A j \in 1 .. Len(k.calls) : k.calls[j].id = id <=> j = i
    BY <1>2, <2>1, <2>2
  <2>5. SinkSend(k, Delta(id, f)) = Longer(k, i, f)
    BY <1>21, <2>3, <2>4, SinkMore
  <2> QED
    BY <1>20, <2>5
<1>23. Captured(snt).text = k.text /\ Captured(snt).calls = CallOf(bl2)
  <2>1. PICK c1 : c1 = CallOf(bl)
    OBVIOUS
  <2>2. c1[i] = [id |-> i - 1, args |-> x.args]
    BY <1>1, <1>2, <2>1, CallOfIs
  <2>3. c1[i].id = i - 1 /\ c1[i].args = x.args
    BY <2>2
  <2>4. Longer(k, i, f) = [text |-> k.text, calls |-> c2]
    BY <1>1, <1>3, <1>12, <1>14, <2>1, <2>3 DEF Longer
  <2> QED
    BY <1>18, <1>21, <1>22, <2>4
<1>24. Alike("openai", bl2, b2, Captured(snt).calls)
  BY <1>15, <1>16, <1>19, <1>23 DEF Alike
<1>25. Same("openai", [s EXCEPT !.blocks = bl2], Buffered(t.asm, b2), snt)
  BY <1>1, <1>23, <1>24, BlocksSame
<1>26. CallDelta(t, c).asm = Buffered(t.asm, b2) /\ CallDelta(t, c).sent = snt
  BY <1>8, <1>10, <1>14, <1>20
<1>27. [s EXCEPT !.blocks[i].args = @ \o Fragment(f)] = [s EXCEPT !.blocks = bl2]
  <2>1. PICK s1, s3 : s1 = s.text /\ s3 = s.stop
    OBVIOUS
  <2>2. s = [text |-> s1, blocks |-> bl, stop |-> s3]
    BY <1>1, <2>1, DescribedIs
  <2>3. [x EXCEPT !.args = x.args \o fr] = x2
    <3>1. PICK p, q, u : p = x.kind /\ q = x.id /\ u = x.args
      OBVIOUS
    <3>2. x = [kind |-> p, id |-> q, args |-> u]
      BY <1>4, <3>1
    <3>3. \A z : [x EXCEPT !.args = z] = [kind |-> p, id |-> q, args |-> z]
      BY <3>2
    <3> QED
      BY <1>12, <3>1, <3>3
  <2>4. [bl EXCEPT ![i].args = @ \o fr] = bl2
    BY <1>1, <1>14, <2>3
  <2> QED
    BY <1>1, <2>2, <2>4
<1> QED
  BY <1>25, <1>26, <1>27


\* So does the first entry of a new call.
LEMMA NewSame ==
  ASSUME NEW n \in Nat, NEW t \in States(n), NEW s \in Described, NEW f \in Frags,
         Same("openai", s, t.asm, t.sent), NEW c \in Entries(n), c.args = f,
         NEW m, m = Len(s.blocks), c.index = m + 1, c.id = m
  PROVE  LET r == CallDelta(t, c)
             x == [kind |-> "tool_use", id |-> m, args |-> Fragment(f)]
         IN  Same("openai", [s EXCEPT !.blocks = Append(s.blocks, x)], r.asm, r.sent)
<1>1. PICK bl, b, k, fr, x, y : /\ bl = s.blocks /\ b = t.asm.buffers
                                /\ k = Captured(t.sent) /\ fr = Fragment(f)
                                /\ x = [kind |-> "tool_use", id |-> m, args |-> fr]
                                /\ y = [id |-> m, args |-> fr]
  OBVIOUS
<1>2. bl \in Seq(SaidBlock) /\ m \in Nat /\ Len(bl) = m /\ m + 1 \in Nat
  BY <1>1, DescribedIs
<1>3. PICK i \in Nat : i = m + 1
  BY <1>2
<1>4. /\ Len(b) = m
      /\ \A j \in 1 .. m :
           /\ bl[j].kind = "tool_use"
           /\ b[j] = [id |-> j - 1, marker |-> FALSE, args |-> bl[j].args]
      /\ k.calls = CallOf(bl)
  BY <1>1, <1>2 DEF Same, Alike
<1>5. fr \in Seq(Frags) /\ x \in SaidBlock /\ x.kind = "tool_use" /\ x.args = fr /\ y \in Call
      /\ <<>> \o fr = fr
  <2>1. fr \in Seq(Frags)
    BY <1>1, FragmentTyped
  <2> QED
    BY <1>1, <1>2, <2>1 DEF SaidBlock, Call, Ids
<1>6. m # NoId
  BY <1>2, ServerAssumption
<1>7. PICK g, v, d : /\ g = Grown(b, i)
                     /\ v = [id |-> m, marker |-> g[i].marker, args |-> g[i].args \o fr]
                     /\ d = Delta(m, f)
  OBVIOUS
<1>8. EntryHas(t, c, i, f, g, m, v)
  <2>1. g = Grown(t.asm.buffers, i)
    BY <1>1, <1>7
  <2>2. v = [id |-> m, marker |-> g[i].marker, args |-> g[i].args \o Fragment(f)]
    BY <1>1, <1>7
  <2>3. i = c.index /\ f = c.args /\ m = (IF c.id = NoId THEN g[i].id ELSE c.id)
    BY <1>3, <1>6
  <2>4. PICK q : q = m
    OBVIOUS
  <2>5. EntryHas(t, c, i, f, g, q, v)
    BY <2>1, <2>2, <2>3, <2>4, EntryIs
  <2> QED
    BY <2>4, <2>5, Zenon
<1>9. /\ CallDelta(t, c).asm = Buffered(t.asm, [g EXCEPT ![i] = v])
      /\ CallDelta(t, c).sent = Append(t.sent, d)
      /\ d \in Streamed
      /\ g \in Seq(Buffer) /\ Len(g) = IF i > Len(b) THEN i ELSE Len(b)
      /\ \A j \in 1 .. Len(g) : g[j] = IF j <= Len(b) THEN b[j] ELSE NoBuffer
  BY <1>1, <1>7, <1>8 DEF EntryHas
<1>10. Len(g) = i /\ g[i] = NoBuffer /\ \A j \in 1 .. m : g[j] = b[j]
  <2>1. i \in 1 .. i /\ i > m /\ ~(i <= m) /\ \A j \in 1 .. m : j \in 1 .. i /\ j <= m
    BY <1>2, <1>3
  <2>2. Len(g) = i
    BY <1>4, <1>9, <2>1
  <2>3. g[i] = NoBuffer
    BY <1>4, <1>9, <2>1, <2>2
  <2>4. \A j \in 1 .. m : g[j] = b[j]
    BY <1>4, <1>9, <2>1, <2>2
  <2> QED
    BY <2>2, <2>3, <2>4
<1>11. v = [id |-> m, marker |-> FALSE, args |-> fr]
  <2>1. g[i].marker = FALSE /\ g[i].args = <<>>
    BY <1>10 DEF NoBuffer
  <2> QED
    BY <1>5, <1>7, <2>1
<1>12. PICK bl2, b2, snt : bl2 = Append(bl, x) /\ b2 = [g EXCEPT ![i] = v] /\ snt = Append(t.sent, d)
  OBVIOUS
<1>13. /\ bl2 \in Seq(SaidBlock) /\ Len(bl2) = i /\ bl2[i] = x /\ \A j \in 1 .. m : bl2[j] = bl[j]
  BY <1>2, <1>3, <1>5, <1>12
<1>14. Len(b2) = i /\ b2[i] = v /\ \A j \in 1 .. m : b2[j] = b[j]
  <2>1. \A j \in 1 .. m : j \in 1 .. i /\ j # i
    BY <1>2, <1>3
  <2>2. i \in 1 .. i
    BY <1>3, <1>2
  <2> QED
    BY <1>9, <1>10, <1>12, <2>1, <2>2
<1>15. \A j \in 1 .. i :
         /\ bl2[j].kind = "tool_use"
         /\ b2[j] = [id |-> j - 1, marker |-> FALSE, args |-> bl2[j].args]
  <2>1. \A j \in 1 .. i : j \in 1 .. m \/ j = i
    BY <1>2, <1>3
  <2>2. i - 1 = m
    BY <1>2, <1>3
  <2> QED
    BY <1>4, <1>5, <1>11, <1>13, <1>14, <2>1, <2>2
<1>16. CallOf(bl2) = Append(CallOf(bl), y)
  BY <1>1, <1>2, <1>5, <1>12, CallOfAppend
<1>17. k \in Captures /\ Captured(snt) = SinkSend(k, d)
  BY <1>1, <1>9, <1>12, StateParts, OneMore
<1>18. Captured(snt) = [text |-> k.text, calls |-> CallOf(bl2)]
  <2>1. ASSUME NEW j \in 1 .. Len(k.calls) PROVE k.calls[j].id # m
    <3>1. Len(k.calls) = m /\ k.calls[j] = [id |-> j - 1, args |-> bl[j].args]
      <4>1. /\ Len(CallOf(bl)) = m
            /\ \A q \in 1 .. m : CallOf(bl)[q] = [id |-> q - 1, args |-> bl[q].args]
        BY <1>2, CallOfIs
      <4> QED
        BY <1>4, <4>1
    <3>2. k.calls[j].id = j - 1 /\ j \in 1 .. m
      BY <3>1
    <3> QED
      BY <1>2, <3>2
  <2>2. PICK id \in Nat : id = m
    BY <1>2
  <2>3. SinkSend(k, Delta(id, f)) =
          [text |-> k.text, calls |-> Append(k.calls, [id |-> id, args |-> Fragment(f)])]
    BY <1>17, <2>1, <2>2, SinkNew
  <2>4. y = [id |-> id, args |-> Fragment(f)]
    BY <1>1, <2>2
  <2> QED
    BY <1>4, <1>7, <1>16, <1>17, <2>2, <2>3, <2>4, Zenon
<1>19. Captured(snt).text = k.text /\ Captured(snt).calls = CallOf(bl2)
  BY <1>18
<1>20. Alike("openai", bl2, b2, Captured(snt).calls)
  BY <1>13, <1>14, <1>15, <1>19 DEF Alike
<1>21. Same("openai", [s EXCEPT !.blocks = bl2], Buffered(t.asm, b2), snt)
  BY <1>1, <1>19, <1>20, BlocksSame
<1>22. CallDelta(t, c).asm = Buffered(t.asm, b2) /\ CallDelta(t, c).sent = snt
  BY <1>9, <1>12
<1> QED
  BY <1>1, <1>12, <1>21, <1>22

-----------------------------------------------------------------------------
(* The server's steps. *)

\* To read an event is to decode it.
LEMMA FramedSame ==
  ASSUME NEW m \in Nat, NEW n \in Nat, m <= n, adapter \in Apis, NEW r \in States(m),
         NEW s, Matches(adapter, s, r), NEW name \in Names, NEW e \in Events(n),
         e.type # "garbled", NEW heard,
         \A t \in States(n) : Same(adapter, s, t.asm, t.sent) =>
           LET d == Decoded(adapter, t, name, e) IN Same(adapter, heard, d.asm, d.sent)
  PROVE  Matches(adapter, heard, Reading(adapter, r, Framed(name, e)))
<1>1. r \in States(n) /\ r = Clean(r.asm, r.sent) /\ Same(adapter, s, r.asm, r.sent)
  BY TypesGrow, SameIs DEF Matches
<1>2. PICK t \in States(n) :
        /\ t.asm = r.asm /\ t.sent = r.sent
        /\ Reading(adapter, r, Framed(name, e))
             = Clean(Decoded(adapter, t, name, e).asm, Decoded(adapter, t, name, e).sent)
  BY <1>1, FramedRead
<1>3. PICK d : d = Decoded(adapter, t, name, e)
  OBVIOUS
<1>4. Same(adapter, s, t.asm, t.sent)
  BY <1>1, <1>2
<1>5. Same(adapter, heard, d.asm, d.sent)
  BY <1>3, <1>4
<1>6. Matches(adapter, heard, Clean(d.asm, d.sent))
  BY <1>5, SameIs
<1> QED
  BY <1>2, <1>3, <1>6

\* An event that brings nothing leaves what was said as it is.
LEMMA NothingTold ==
  ASSUME NEW p \in Nat, NEW s \in Described, NEW e, PartOf(p, e) = <<>>,
         NEW h \in Described, Told(p, h) = Told(p, s)
  PROVE  Follows(Told(p, s) \o PartOf(p, e), Told(p, h))
<1>1. PICK t : t = Told(p, s)
  OBVIOUS
<1>2. t \in Seq(Pieces) /\ t \o <<>> = t
  BY <1>1, ToldIs
<1>3. Follows(t, t)
  BY <1>2, FollowsItself
<1> QED
  BY <1>1, <1>2, <1>3

\* The same when it is said in addition.
LEMMA AllTold ==
  ASSUME NEW p \in Nat, NEW s \in Described, NEW e, NEW h \in Described,
         Told(p, h) = Told(p, s) \o PartOf(p, e)
  PROVE  Follows(Told(p, s) \o PartOf(p, e), Told(p, h))
<1>1. PICK t : t = Told(p, h)
  OBVIOUS
<1>2. t \in Seq(Pieces)
  BY <1>1, ToldIs
<1>3. Follows(t, t)
  BY <1>2, FollowsItself
<1> QED
  BY <1>1, <1>3

\* h has fr more for q than s has; e brings fr for q, and nothing else.
TellsMore(s, h, q, fr) ==
  \A p \in Nat : Told(p, h) = IF p = q THEN Told(p, s) \o fr ELSE Told(p, s)
Brings(e, q, fr) == \A p \in Nat : PartOf(p, e) = IF p = q THEN fr ELSE <<>>

\* What an event brings is no more than the server then has told.
LEMMA BroughtTold ==
  ASSUME NEW s \in Described, NEW h \in Described, NEW e, NEW q, NEW fr,
         TellsMore(s, h, q, fr), Brings(e, q, fr), NEW p \in Nat
  PROVE  Follows(Told(p, s) \o PartOf(p, e), Told(p, h))
<1>1. CASE p = q
  <2>1. Told(p, h) = Told(p, s) \o PartOf(p, e)
    BY <1>1 DEF TellsMore, Brings
  <2> QED
    BY <2>1, AllTold
<1>2. CASE p # q
  <2>1. PartOf(p, e) = <<>> /\ Told(p, h) = Told(p, s)
    BY <1>2 DEF TellsMore, Brings
  <2> QED
    BY <2>1, NothingTold
<1> QED
  BY <1>1, <1>2

\* An absent fragment is empty.
LEMMA FragmentEmpty == Fragment(Empty) = <<>>
BY DEF Fragment

\* Text.
LEMMA TextStep ==
  ASSUME StreamInv, outcome = "running", sent # <<>>, NEW name \in Names, NEW x \in Texts,
         NEW e \in Events(Len(said.blocks)), e.type # "garbled", e.text = x, e.args = Empty,
         e.calls = <<>>, Says(name, e, HeardText(x)), lossy' = lossy,
         \A t \in States(Len(said.blocks)) : Decoded(adapter, t, name, e) = TextDelta(t, x)
  PROVE  StreamInv'
<1>1. PICK m, s, h : m = Len(said.blocks) /\ s = said /\ h = HeardText(x)
  OBVIOUS
<1>2. s \in Described /\ adapter \in Apis
  BY <1>1 DEF StreamInv
<1>3. /\ s = [text |-> s.text, blocks |-> s.blocks, stop |-> s.stop] /\ s.text \in Seq(Texts)
      /\ m \in Nat /\ s.blocks \in Seq(SaidBlock) /\ s.stop \in {"Stop", "ToolUse"}
  BY <1>1, <1>2, DescribedIs
<1>4. Fragment(x) \in Seq(Texts)
  BY FragmentTyped
<1>5. /\ h = [s EXCEPT !.text = @ \o Fragment(x)]
      /\ h.text = s.text \o Fragment(x) /\ h.blocks = s.blocks /\ h.stop = s.stop
  BY <1>1, <1>3 DEF HeardText
<1>6. h \in Described
  <2>1. s.text \o Fragment(x) \in Seq(Texts)
    BY <1>3, <1>4
  <2>2. h = [text |-> s.text \o Fragment(x), blocks |-> s.blocks, stop |-> s.stop]
    <3>1. PICK a, b, c : a = s.text /\ b = s.blocks /\ c = s.stop
      OBVIOUS
    <3>2. s = [text |-> a, blocks |-> b, stop |-> c]
      BY <1>3, <3>1
    <3>3. \A z : [s EXCEPT !.text = z] = [text |-> z, blocks |-> b, stop |-> c]
      BY <3>2
    <3> QED
      BY <1>5, <3>1, <3>3
  <2> QED
    BY <1>2, <1>3, <2>1, <2>2 DEF Described
<1>7. ASSUME NEW p \in Nat PROVE Follows(Told(p, s) \o PartOf(p, e), Told(p, h))
  <2>1. CASE p = 0
    <3>1. Told(p, h) = Told(p, s) \o PartOf(p, e)
      BY <1>5, <2>1 DEF Told, PartOf
    <3> QED
      BY <1>2, <1>6, <3>1, AllTold
  <2>2. CASE p # 0
    <3>1. Told(p, h) = Told(p, s)
      BY <1>5, <2>2 DEF Told
    <3>2. PartOf(p, e) = <<>>
      BY <2>2, FragmentEmpty DEF PartOf
    <3> QED
      BY <1>2, <1>6, <3>1, <3>2, NothingTold
  <2> QED
    BY <2>1, <2>2
<1>8. ASSUME NEW r \in States(m), Matches(adapter, s, r)
      PROVE  Matches(adapter, h, Reading(adapter, r, Framed(name, e)))
  <2>1. ASSUME NEW t \in States(m), Same(adapter, s, t.asm, t.sent)
        PROVE  LET d == Decoded(adapter, t, name, e) IN Same(adapter, h, d.asm, d.sent)
    <3>1. Decoded(adapter, t, name, e) = TextDelta(t, x)
      BY <1>1, <2>1
    <3>2. LET d == TextDelta(t, x)
          IN  Same(adapter, [s EXCEPT !.text = @ \o Fragment(x)], d.asm, d.sent)
      BY <1>2, <1>3, <2>1, TextSame
    <3> QED
      BY <1>5, <3>1, <3>2, Zenon
  <2> QED
    BY <1>1, <1>2, <1>3, <1>8, <2>1, FramedSame
<1>9. Len(h.blocks) = m /\ m <= m
  BY <1>1, <1>3, <1>5
<1>10. Says(name, e, h)
  BY <1>1
<1>11. adapter = "openai" => CallsOnly(h)
  BY <1>1, <1>5 DEF StreamInv, CallsOnly
<1> QED
  BY <1>1, <1>6, <1>7, <1>8, <1>9, <1>10, <1>11, SaysKeeps

\* The reason to stop.
LEMMA StopStep ==
  ASSUME StreamInv, outcome = "running", sent # <<>>, NEW name \in Names,
         NEW e \in Events(Len(said.blocks)), e.type # "garbled", e.text = Empty, e.args = Empty,
         e.calls = <<>>, Says(name, e, [said EXCEPT !.stop = "ToolUse"]), lossy' = lossy,
         \A t \in States(Len(said.blocks)) :
           Decoded(adapter, t, name, e) = [t EXCEPT !.asm.stop = "ToolUse"]
  PROVE  StreamInv'
<1>1. PICK m, s, h : m = Len(said.blocks) /\ s = said /\ h = [said EXCEPT !.stop = "ToolUse"]
  OBVIOUS
<1>2. s \in Described /\ adapter \in Apis
  BY <1>1 DEF StreamInv
<1>3. /\ s = [text |-> s.text, blocks |-> s.blocks, stop |-> s.stop] /\ s.text \in Seq(Texts)
      /\ m \in Nat /\ s.blocks \in Seq(SaidBlock) /\ s.stop \in {"Stop", "ToolUse"}
  BY <1>1, <1>2, DescribedIs
<1>4. /\ h = [s EXCEPT !.stop = "ToolUse"]
      /\ h.text = s.text /\ h.blocks = s.blocks /\ h.stop = "ToolUse"
  BY <1>1, <1>3
<1>5. h \in Described
  <2>1. PICK a, b, c : a = s.text /\ b = s.blocks /\ c = s.stop
    OBVIOUS
  <2>2. s = [text |-> a, blocks |-> b, stop |-> c]
    BY <1>3, <2>1
  <2>3. h = [text |-> a, blocks |-> b, stop |-> "ToolUse"]
    BY <1>4, <2>2
  <2> QED
    BY <1>2, <1>3, <2>1, <2>3 DEF Described
<1>6. ASSUME NEW p \in Nat PROVE Follows(Told(p, s) \o PartOf(p, e), Told(p, h))
  <2>1. Told(p, h) = Told(p, s)
    BY <1>4 DEF Told
  <2>2. PartOf(p, e) = <<>>
    BY FragmentEmpty DEF PartOf
  <2> QED
    BY <1>2, <1>5, <2>1, <2>2, NothingTold
<1>7. ASSUME NEW r \in States(m), Matches(adapter, s, r)
      PROVE  Matches(adapter, h, Reading(adapter, r, Framed(name, e)))
  <2>1. ASSUME NEW t \in States(m), Same(adapter, s, t.asm, t.sent)
        PROVE  LET d == Decoded(adapter, t, name, e) IN Same(adapter, h, d.asm, d.sent)
    <3>1. Decoded(adapter, t, name, e) = [t EXCEPT !.asm.stop = "ToolUse"]
      BY <1>1, <2>1
    <3>2. LET d == [t EXCEPT !.asm.stop = "ToolUse"]
          IN  Same(adapter, [s EXCEPT !.stop = "ToolUse"], d.asm, d.sent)
      <4>1. PICK x \in Stops : x = "ToolUse"
        BY DEF Stops
      <4>2. LET d == [t EXCEPT !.asm.stop = x]
            IN  Same(adapter, [s EXCEPT !.stop = x], d.asm, d.sent)
        BY <1>2, <1>3, <2>1, StopSame
      <4> QED
        BY <4>1, <4>2, Zenon
    <3> QED
      BY <1>4, <3>1, <3>2, Zenon
  <2> QED
    BY <1>1, <1>2, <1>3, <1>7, <2>1, FramedSame
<1>8. Len(h.blocks) = m /\ m <= m
  BY <1>1, <1>3, <1>4
<1>9. Says(name, e, h)
  BY <1>1
<1>10. adapter = "openai" => CallsOnly(h)
  BY <1>1, <1>4 DEF StreamInv, CallsOnly
<1> QED
  BY <1>1, <1>5, <1>6, <1>7, <1>8, <1>9, <1>10, SaysKeeps


\* A block more is described.
LEMMA OneBlockMore ==
  ASSUME NEW s \in Described, NEW x \in SaidBlock, x.id = Len(s.blocks),
         x.kind = "text" => x.args = <<>>,
         NEW h, h = [s EXCEPT !.blocks = Append(s.blocks, x)]
  PROVE  /\ h \in Described /\ Len(h.blocks) = Len(s.blocks) + 1 /\ Len(s.blocks) \in Nat
         /\ CallsOnly(s) /\ x.kind = "tool_use" => CallsOnly(h)
         /\ TellsMore(s, h, Len(s.blocks) + 1, x.args)
<1>1. PICK bl, m, b2 : bl = s.blocks /\ m = Len(bl) /\ b2 = Append(bl, x)
  OBVIOUS
<1>2. /\ s = [text |-> s.text, blocks |-> s.blocks, stop |-> s.stop] /\ s.text \in Seq(Texts)
      /\ m \in Nat /\ bl \in Seq(SaidBlock) /\ s.stop \in {"Stop", "ToolUse"}
      /\ \A i \in 1 .. m : bl[i].id = i - 1 /\ (bl[i].kind = "text" => bl[i].args = <<>>)
  BY <1>1, DescribedIs
<1>3. h = [text |-> s.text, blocks |-> b2, stop |-> s.stop]
  <2>1. PICK a, c : a = s.text /\ c = s.stop
    OBVIOUS
  <2>2. s = [text |-> a, blocks |-> bl, stop |-> c]
    BY <1>1, <1>2, <2>1
  <2>3. \A z : [s EXCEPT !.blocks = z] = [text |-> a, blocks |-> z, stop |-> c]
    BY <2>2
  <2> QED
    BY <1>1, <2>1, <2>3
<1>4. h.text = s.text /\ h.blocks = b2
  BY <1>3
<1>5. /\ b2 \in Seq(SaidBlock) /\ Len(b2) = m + 1 /\ b2[m + 1] = x /\ \A i \in 1 .. m : b2[i] = bl[i]
      /\ \A i \in 1 .. m + 1 : i \in 1 .. m \/ i = m + 1
  BY <1>1, <1>2
<1>6. \A i \in 1 .. m + 1 : b2[i].id = i - 1 /\ (b2[i].kind = "text" => b2[i].args = <<>>)
  <2>1. x.id = (m + 1) - 1
    BY <1>1, <1>2
  <2> QED
    BY <1>2, <1>5, <2>1
<1>7. h \in Described
  <2>1. h \in [text : Seq(Texts), blocks : Seq(SaidBlock), stop : {"Stop", "ToolUse"}]
    <3>1. PICK a, c : a = s.text /\ c = s.stop
      OBVIOUS
    <3>2. a \in Seq(Texts) /\ c \in {"Stop", "ToolUse"} /\ h = [text |-> a, blocks |-> b2, stop |-> c]
      BY <1>2, <1>3, <3>1, Zenon
    <3>3. PICK r : r = [text |-> a, blocks |-> b2, stop |-> c]
      OBVIOUS
    <3>4. r \in [text : Seq(Texts), blocks : Seq(SaidBlock), stop : {"Stop", "ToolUse"}]
      BY <1>5, <3>2, <3>3
    <3> QED
      BY <3>2, <3>3, <3>4, Zenon
  <2> QED
    BY <1>4, <1>5, <1>6, <2>1 DEF Described
<1>8. ASSUME NEW p \in Nat PROVE Told(p, h) = IF p = m + 1 THEN Told(p, s) \o x.args ELSE Told(p, s)
  <2>1. CASE p = 0
    BY <1>2, <1>4, <2>1 DEF Told
  <2>2. CASE p \in 1 .. m
    <3>1. p # 0 /\ p # m + 1 /\ p <= m /\ p <= m + 1
      BY <1>2, <2>2
    <3> QED
      BY <1>1, <1>4, <1>5, <2>2, <3>1 DEF Told
  <2>3. CASE p = m + 1
    <3>1. Told(p, h) = x.args
      BY <1>1, <1>2, <1>4, <1>5, <2>3 DEF Told
    <3>2. Told(p, s) = <<>>
      BY <1>1, <1>2, <2>3 DEF Told
    <3>3. <<>> \o x.args = x.args
      <4>1. \A z \in SaidBlock : <<>> \o z.args = z.args
        BY DEF SaidBlock
      <4> QED
        BY <4>1
    <3> QED
      BY <2>3, <3>1, <3>2, <3>3
  <2>4. CASE p > m + 1
    BY <1>1, <1>2, <1>4, <1>5, <2>4 DEF Told
  <2> QED
    BY <1>2, <2>1, <2>2, <2>3, <2>4
<1>9. CallsOnly(s) /\ x.kind = "tool_use" => CallsOnly(h)
  BY <1>1, <1>4, <1>5 DEF CallsOnly
<1>10. TellsMore(s, h, m + 1, x.args)
  BY <1>8 DEF TellsMore
<1> QED
  BY <1>1, <1>2, <1>4, <1>5, <1>7, <1>9, <1>10

\* The arguments of a call get longer.
LongerAt(s, i, fr) == [s EXCEPT !.blocks[i].args = @ \o fr]

\* The server's words grow by a fragment of one block.
LEMMA ArgsMore ==
  ASSUME NEW s \in Described, NEW i \in 1 .. Len(s.blocks), s.blocks[i].kind = "tool_use",
         NEW fr \in Seq(Frags), NEW h, h = LongerAt(s, i, fr)
  PROVE  /\ h \in Described /\ Len(h.blocks) = Len(s.blocks) /\ Len(s.blocks) \in Nat
         /\ CallsOnly(s) => CallsOnly(h)
         /\ TellsMore(s, h, i, fr)
<1>1. PICK bl, m, x : bl = s.blocks /\ m = Len(bl) /\ x = bl[i]
  OBVIOUS
<1>2. /\ s = [text |-> s.text, blocks |-> s.blocks, stop |-> s.stop] /\ s.text \in Seq(Texts)
      /\ m \in Nat /\ bl \in Seq(SaidBlock) /\ s.stop \in {"Stop", "ToolUse"}
      /\ \A j \in 1 .. m : bl[j].id = j - 1 /\ (bl[j].kind = "text" => bl[j].args = <<>>)
      /\ i \in 1 .. m
  BY <1>1, DescribedIs
<1>3. /\ x \in SaidBlock /\ x.args \in Seq(Frags) /\ x.kind = "tool_use" /\ x.id = i - 1 /\ x.id \in Nat
      /\ x = [kind |-> x.kind, id |-> x.id, args |-> x.args]
  <2>1. x \in SaidBlock /\ x.kind = "tool_use" /\ x.id = i - 1
    BY <1>1, <1>2
  <2>2. \A z \in SaidBlock : /\ z.args \in Seq(Frags) /\ z.id \in Nat
                         /\ z = [kind |-> z.kind, id |-> z.id, args |-> z.args]
    BY DEF SaidBlock
  <2> QED
    BY <2>1, <2>2, Zenon
<1>4. PICK x2, b2 : x2 = [kind |-> x.kind, id |-> x.id, args |-> x.args \o fr]
                    /\ b2 = [bl EXCEPT ![i] = x2]
  OBVIOUS
<1>5. x2 \in SaidBlock /\ x2.kind = "tool_use" /\ x2.id = i - 1 /\ x2.args = x.args \o fr
  <2>1. x.args \o fr \in Seq(Frags)
    BY <1>3
  <2> QED
    BY <1>3, <1>4, <2>1 DEF SaidBlock
<1>6. /\ b2 \in Seq(SaidBlock) /\ Len(b2) = m /\ b2[i] = x2 /\ \A j \in 1 .. m : j # i => b2[j] = bl[j]
  <2>1. bl \in Seq(SaidBlock) /\ m \in Nat /\ i \in 1 .. m /\ x2 \in SaidBlock
    BY <1>2, <1>5, Zenon
  <2>2. b2 = [bl EXCEPT ![i] = x2] /\ Len(bl) = m
    BY <1>1, <1>4, Zenon
  <2> QED
    BY <2>1, <2>2
<1>7. h = [text |-> s.text, blocks |-> b2, stop |-> s.stop]
  <2>1. PICK a, c : a = s.text /\ c = s.stop
    OBVIOUS
  <2>2. s = [text |-> a, blocks |-> bl, stop |-> c]
    BY <1>1, <1>2, <2>1
  <2>3. [x EXCEPT !.args = x.args \o fr] = x2
    <3>1. PICK p, q, u : p = x.kind /\ q = x.id /\ u = x.args
      OBVIOUS
    <3>2. x = [kind |-> p, id |-> q, args |-> u]
      BY <1>3, <3>1
    <3>3. \A z : [x EXCEPT !.args = z] = [kind |-> p, id |-> q, args |-> z]
      BY <3>2
    <3> QED
      BY <1>4, <3>1, <3>3
  <2>4. [bl EXCEPT ![i].args = @ \o fr] = b2
    BY <1>1, <1>4, <2>3
  <2>5. [s EXCEPT !.blocks = b2] = [text |-> a, blocks |-> b2, stop |-> c]
    BY <2>2
  <2>6. h = [s EXCEPT !.blocks = b2]
    BY <1>1, <2>2, <2>4 DEF LongerAt
  <2> QED
    BY <2>1, <2>5, <2>6
<1>8. h.text = s.text /\ h.blocks = b2
  BY <1>7
<1>9. \A j \in 1 .. m : b2[j].id = j - 1 /\ (b2[j].kind = "text" => b2[j].args = <<>>)
  BY <1>2, <1>5, <1>6
<1>10. h \in Described
  <2>1. h \in [text : Seq(Texts), blocks : Seq(SaidBlock), stop : {"Stop", "ToolUse"}]
    <3>1. PICK a, c : a = s.text /\ c = s.stop
      OBVIOUS
    <3>2. a \in Seq(Texts) /\ c \in {"Stop", "ToolUse"} /\ h = [text |-> a, blocks |-> b2, stop |-> c]
      BY <1>2, <1>7, <3>1, Zenon
    <3>3. PICK r : r = [text |-> a, blocks |-> b2, stop |-> c]
      OBVIOUS
    <3>4. r \in [text : Seq(Texts), blocks : Seq(SaidBlock), stop : {"Stop", "ToolUse"}]
      BY <1>6, <3>2, <3>3
    <3> QED
      BY <3>2, <3>3, <3>4, Zenon
  <2> QED
    BY <1>6, <1>8, <1>9, <2>1 DEF Described
<1>11. ASSUME NEW p \in Nat PROVE Told(p, h) = IF p = i THEN Told(p, s) \o fr ELSE Told(p, s)
  <2>1. CASE p = 0
    BY <1>2, <1>8, <2>1 DEF Told
  <2>2. CASE p \in 1 .. m /\ p # i
    <3>1. p # 0 /\ p <= m
      BY <1>2, <2>2
    <3> QED
      BY <1>1, <1>6, <1>8, <2>2, <3>1 DEF Told
  <2>3. CASE p = i
    <3>1. p # 0 /\ p <= m
      BY <1>2, <2>3
    <3> QED
      BY <1>1, <1>5, <1>6, <1>8, <2>3, <3>1 DEF Told
  <2>4. CASE p > m
    <3>1. p # 0 /\ ~(p <= m) /\ p # i
      BY <1>2, <2>4
    <3> QED
      BY <1>1, <1>6, <1>8, <3>1 DEF Told
  <2> QED
    BY <1>2, <2>1, <2>2, <2>3, <2>4
<1>12. CallsOnly(s) => CallsOnly(h)
  BY <1>1, <1>5, <1>6, <1>8 DEF CallsOnly
<1>13. TellsMore(s, h, i, fr)
  BY <1>11 DEF TellsMore
<1> QED
  BY <1>1, <1>2, <1>6, <1>8, <1>10, <1>12, <1>13


\* An event is made of its parts.
LEMMA EventMade ==
  ASSUME NEW n \in Nat, NEW ty \in Types, NEW i \in 0 .. n, NEW id \in Ids,
         NEW t \in Texts \cup {Empty}, NEW a \in Fragments, NEW calls \in Seq(Entries(n)),
         NEW stop \in Stops, ty \in {"tool_use", "input_json_delta"} => i >= 1,
         ty = "tool_use" => id = i - 1,
         NEW e, e = [type |-> ty, index |-> i, id |-> id, text |-> t, args |-> a,
                     calls |-> calls, stop |-> stop]
  PROVE  /\ e \in Events(n)
         /\ e.type = ty /\ e.index = i /\ e.id = id /\ e.text = t /\ e.args = a
         /\ e.calls = calls /\ e.stop = stop
<1>1. /\ e.type = ty /\ e.index = i /\ e.id = id /\ e.text = t /\ e.args = a
      /\ e.calls = calls /\ e.stop = stop
  OBVIOUS
<1>2. e \in [type : Types, index : 0 .. n, id : Ids, text : Texts \cup {Empty},
             args : Fragments, calls : Seq(Entries(n)), stop : Stops]
  OBVIOUS
<1> QED
  BY <1>1, <1>2 DEF Events

\* No entries at all are entries.
LEMMA NoEntries == ASSUME NEW n \in Nat PROVE <<>> \in Seq(Entries(n))
OBVIOUS

\* An event without words brings nothing.
LEMMA PartNone ==
  ASSUME NEW p \in Nat, NEW e, e.text = Empty, e.args = Empty, e.calls = <<>>
  PROVE  PartOf(p, e) = <<>>
BY FragmentEmpty DEF PartOf

\* content_block_start preserves the invariant.
LEMMA StartStep ==
  ASSUME StreamInv, outcome = "running", sent # <<>>, adapter = "anthropic", lossy' = lossy,
         NEW kind \in {"text", "tool_use"}, NEW m, m = Len(said.blocks),
         NEW e, e = [Event EXCEPT !.type = kind, !.index = m + 1, !.id = m],
         Says("content_block_start", e,
              [said EXCEPT !.blocks = Append(said.blocks, NewBlock(kind))])
  PROVE  StreamInv'
<1>1. PICK s, x, h, name : /\ s = said /\ x = [kind |-> kind, id |-> m, args |-> <<>>]
                           /\ h = [said EXCEPT !.blocks = Append(said.blocks, NewBlock(kind))]
                           /\ name = "content_block_start"
  OBVIOUS
<1>2. s \in Described /\ m = Len(s.blocks) /\ m \in Nat /\ m + 1 \in Nat /\ m <= m + 1
  BY <1>1, DescribedIs DEF StreamInv
<1>3. h = [s EXCEPT !.blocks = Append(s.blocks, x)]
  BY <1>1 DEF NewBlock
<1>4. x \in SaidBlock /\ x.id = Len(s.blocks) /\ x.kind = kind /\ x.args = <<>>
  BY <1>1, <1>2 DEF SaidBlock
<1>5. h \in Described /\ Len(h.blocks) = m + 1 /\ TellsMore(s, h, m + 1, <<>>)
  <2>1. PICK g : g = h
    OBVIOUS
  <2>2. g \in Described /\ Len(g.blocks) = Len(s.blocks) + 1 /\ TellsMore(s, g, Len(s.blocks) + 1, x.args)
    BY <1>2, <1>3, <1>4, <2>1, OneBlockMore
  <2> QED
    BY <1>2, <1>4, <2>1, <2>2, Zenon
<1>6. /\ e \in Events(m + 1) /\ e.type = kind /\ e.index = m + 1 /\ e.id = m
      /\ e.text = Empty /\ e.args = Empty /\ e.calls = <<>>
  <2>1. e = [type |-> kind, index |-> m + 1, id |-> m, text |-> Empty, args |-> Empty,
             calls |-> <<>>, stop |-> Empty]
    BY DEF Event
  <2>2. /\ kind \in Types /\ m \in Ids /\ Empty \in Fragments /\ Empty \in Stops
        /\ m + 1 \in 0 .. m + 1 /\ m + 1 >= 1 /\ m = (m + 1) - 1 /\ Empty \in Texts \cup {Empty}
    BY <1>2 DEF Types, Ids, Fragments, Stops
  <2>3. PICK k, none : k \in Nat /\ k = m + 1 /\ none = <<>>
    BY <1>2
  <2>4. none \in Seq(Entries(k))
    BY <2>3, NoEntries
  <2>5. e = [type |-> kind, index |-> k, id |-> m, text |-> Empty, args |-> Empty,
             calls |-> none, stop |-> Empty]
    BY <2>1, <2>3
  <2>6. /\ e \in Events(k) /\ e.type = kind /\ e.index = k /\ e.id = m
        /\ e.text = Empty /\ e.args = Empty /\ e.calls = none
    <3>1. k \in 0 .. k /\ k >= 1 /\ m = k - 1
      BY <2>2, <2>3
    <3>2. PICK u : u = [type |-> kind, index |-> k, id |-> m, text |-> Empty, args |-> Empty,
                        calls |-> none, stop |-> Empty]
      OBVIOUS
    <3>3. /\ u \in Events(k) /\ u.type = kind /\ u.index = k /\ u.id = m
          /\ u.text = Empty /\ u.args = Empty /\ u.calls = none
      BY <2>2, <2>4, <3>1, <3>2, EventMade
    <3> QED
      BY <2>5, <3>2, <3>3, Zenon
  <2> QED
    BY <2>3, <2>6
<1>7. ASSUME NEW p \in Nat PROVE Follows(Told(p, s) \o PartOf(p, e), Told(p, h))
  <2>1. \A q \in Nat : PartOf(q, e) = <<>>
    BY <1>6, PartNone
  <2>2. Brings(e, m + 1, <<>>)
    BY <2>1 DEF Brings
  <2> QED
    BY <1>2, <1>5, <2>2, BroughtTold
<1>8. ASSUME NEW r \in States(m), Matches(adapter, s, r)
      PROVE  Matches(adapter, h, Reading(adapter, r, Framed(name, e)))
  <2>1. ASSUME NEW t \in States(m + 1), Same(adapter, s, t.asm, t.sent)
        PROVE  LET d == Decoded(adapter, t, name, e) IN Same(adapter, h, d.asm, d.sent)
    <3>1. Decoded(adapter, t, name, e) = BlockStart(t, e)
      BY <1>1 DEF Decoded, DecodeAnthropic
    <3>2. Same("anthropic", s, t.asm, t.sent)
      BY <2>1
    <3>3. LET d == BlockStart(t, e)
              y == [kind |-> kind, id |-> Len(s.blocks), args |-> <<>>]
          IN  Same("anthropic", [s EXCEPT !.blocks = Append(s.blocks, y)], d.asm, d.sent)
      <4>1. e \in Events(m + 1) /\ e.type = kind /\ e.index = Len(s.blocks) + 1 /\ e.id = Len(s.blocks)
        BY <1>2, <1>6
      <4> HIDE DEF Event
      <4> QED
        BY <1>2, <2>1, <3>2, <4>1, StartSame
    <3>4. x = [kind |-> kind, id |-> Len(s.blocks), args |-> <<>>]
      BY <1>1, <1>2
    <3> QED
      BY <1>3, <3>1, <3>3, <3>4
  <2>2. name \in Names /\ e.type # "garbled" /\ adapter \in Apis
    BY <1>1, <1>6 DEF Names, Apis
  <2> QED
    BY <1>2, <1>6, <1>8, <2>1, <2>2, FramedSame
<1>9. name \in Names /\ (adapter = "openai" => CallsOnly(h)) /\ Says(name, e, h)
  BY <1>1 DEF Names
<1>10. Len(said.blocks) <= Len(h.blocks) /\ e \in Events(Len(h.blocks))
  BY <1>2, <1>5, <1>6
<1>11. \A p \in Nat : Follows(Told(p, said) \o PartOf(p, e), Told(p, h))
  BY <1>1, <1>7
<1>12. ASSUME NEW r \in States(Len(said.blocks)), Matches(adapter, said, r)
       PROVE  Matches(adapter, h, Reading(adapter, r, Framed(name, e)))
  BY <1>1, <1>8, <1>12
<1> QED
  BY <1>5, <1>9, <1>10, <1>11, <1>12, SaysKeeps


\* input_json_delta preserves the invariant.
LEMMA ArgsStep ==
  ASSUME StreamInv, outcome = "running", sent # <<>>, adapter = "anthropic", lossy' = lossy,
         NEW f \in Frags, NEW m, m = Len(said.blocks), m # 0, said.blocks[m].kind = "tool_use",
         NEW e, e = [Event EXCEPT !.type = "input_json_delta", !.index = m, !.args = f],
         Says("content_block_delta", e, Heard(m, f))
  PROVE  StreamInv'
<1>1. PICK s, fr, h, name : /\ s = said /\ fr = Fragment(f) /\ h = Heard(m, f)
                            /\ name = "content_block_delta"
  OBVIOUS
<1>2. s \in Described /\ m = Len(s.blocks) /\ m \in Nat /\ m <= m /\ m \in 1 .. Len(s.blocks)
      /\ s.blocks[m].kind = "tool_use"
  BY <1>1, DescribedIs DEF StreamInv
<1>3. h = [s EXCEPT !.blocks[m].args = @ \o fr]
  BY <1>1 DEF Heard
<1>4. fr \in Seq(Frags)
  BY <1>1, FragmentTyped
<1>5. h \in Described /\ Len(h.blocks) = m /\ TellsMore(s, h, m, fr)
  <2>1. PICK i \in 1 .. Len(s.blocks) : i = m
    BY <1>2
  <2>2. h = LongerAt(s, i, fr) /\ s.blocks[i].kind = "tool_use"
    BY <1>2, <1>3, <2>1, Zenon DEF LongerAt
  <2>3. h \in Described /\ Len(h.blocks) = Len(s.blocks) /\ TellsMore(s, h, i, fr)
    BY <1>2, <1>4, <2>2, ArgsMore
  <2> QED
    BY <1>2, <2>1, <2>3, Zenon
<1>6. /\ e \in Events(m) /\ e.type = "input_json_delta" /\ e.index = m
      /\ e.text = Empty /\ e.args = f /\ e.calls = <<>>
  <2>1. PICK none, ty : none = <<>> /\ ty = "input_json_delta"
    OBVIOUS
  <2>2. PICK u : u = [type |-> ty, index |-> m, id |-> NoId, text |-> Empty, args |-> f,
                      calls |-> none, stop |-> Empty]
    OBVIOUS
  <2>3. u = e
    BY <2>1, <2>2 DEF Event
  <2>4. /\ ty \in Types /\ NoId \in Ids /\ f \in Fragments /\ Empty \in Stops /\ ty # "tool_use"
        /\ m \in 0 .. m /\ m >= 1 /\ Empty \in Texts \cup {Empty}
    BY <1>2, <2>1 DEF Types, Ids, Fragments, Stops
  <2>5. none \in Seq(Entries(m))
    BY <1>2, <2>1, NoEntries
  <2>6. /\ u \in Events(m) /\ u.type = ty /\ u.index = m
        /\ u.text = Empty /\ u.args = f /\ u.calls = none
    <3>1. /\ ty \in {"tool_use", "input_json_delta"} => m >= 1
          /\ ty = "tool_use" => NoId = m - 1
      BY <2>4
    <3> QED
      <4>1. /\ u.type = ty /\ u.index = m /\ u.id = NoId
            /\ u.text = Empty /\ u.args = f /\ u.calls = none
        BY <2>2
      <4>2. u \in [type : Types, index : 0 .. m, id : Ids, text : Texts \cup {Empty},
                   args : Fragments, calls : Seq(Entries(m)), stop : Stops]
        BY <2>2, <2>4, <2>5
      <4> QED
        BY <3>1, <4>1, <4>2 DEF Events
  <2> QED
    BY <2>1, <2>3, <2>6, Zenon
<1>7. ASSUME NEW p \in Nat PROVE Follows(Told(p, s) \o PartOf(p, e), Told(p, h))
  <2>1. ASSUME NEW q \in Nat PROVE PartOf(q, e) = IF q = m THEN fr ELSE <<>>
    <3>1. CASE q = m
      <4>1. fr \o <<>> = fr
        BY <1>4
      <4> QED
        BY <1>1, <1>2, <1>6, <3>1, <4>1 DEF PartOf
    <3>2. CASE q # m
      BY <1>6, <3>2, FragmentEmpty DEF PartOf
    <3> QED
      BY <3>1, <3>2
  <2>2. Brings(e, m, fr)
    BY <2>1 DEF Brings
  <2> QED
    BY <1>2, <1>5, <2>2, BroughtTold
<1>8. ASSUME NEW r \in States(m), Matches(adapter, s, r)
      PROVE  Matches(adapter, h, Reading(adapter, r, Framed(name, e)))
  <2>1. ASSUME NEW t \in States(m), Same(adapter, s, t.asm, t.sent)
        PROVE  LET d == Decoded(adapter, t, name, e) IN Same(adapter, h, d.asm, d.sent)
    <3>1. Decoded(adapter, t, name, e) = ArgsDelta(t, e)
      <4>1. name = "content_block_delta" /\ e.type = "input_json_delta"
        BY <1>1, <1>6
      <4>2. DecodeAnthropic(t, name, e) = ArgsDelta(t, e)
        BY <4>1 DEF DecodeAnthropic
      <4> QED
        BY <4>2 DEF Decoded
    <3>2. Same("anthropic", s, t.asm, t.sent)
      BY <2>1
    <3>3. PICK ev : ev = e
      OBVIOUS
    <3>4. LET d == ArgsDelta(t, ev)
          IN  Same("anthropic", [s EXCEPT !.blocks[m].args = @ \o Fragment(f)], d.asm, d.sent)
      <4>1. ev \in Events(m) /\ ev.type = "input_json_delta" /\ ev.index = m /\ ev.args = f
        BY <1>6, <3>3
      <4> QED
        BY <1>2, <2>1, <3>2, <4>1, ArgsSame
    <3>5. h = [s EXCEPT !.blocks[m].args = @ \o Fragment(f)]
      BY <1>1, <1>3
    <3> QED
      BY <3>1, <3>3, <3>4, <3>5, Zenon
  <2>2. name \in Names /\ e.type # "garbled" /\ adapter \in Apis
    BY <1>1, <1>6 DEF Names, Apis
  <2> QED
    BY <1>2, <1>6, <1>8, <2>1, <2>2, FramedSame
<1>9. name \in Names /\ (adapter = "openai" => CallsOnly(h)) /\ Says(name, e, h)
  BY <1>1 DEF Names
<1>10. Len(said.blocks) <= Len(h.blocks) /\ e \in Events(Len(h.blocks))
  BY <1>2, <1>5, <1>6
<1>11. \A p \in Nat : Follows(Told(p, said) \o PartOf(p, e), Told(p, h))
  BY <1>1, <1>7
<1>12. ASSUME NEW r \in States(Len(said.blocks)), Matches(adapter, said, r)
       PROVE  Matches(adapter, h, Reading(adapter, r, Framed(name, e)))
  BY <1>1, <1>8, <1>12
<1> QED
  BY <1>5, <1>9, <1>10, <1>11, <1>12, SaysKeeps

\* OpenAI's events: entries of calls, the first of which is heard.
CallsEvent(cs) == [Event EXCEPT !.text = Empty, !.calls = cs, !.stop = Empty]

\* An event of OpenAI with entries brings the first one's fragment.
LEMMA EntriesEvent ==
  ASSUME NEW n \in Nat, NEW cs \in Seq(Entries(n)), NEW c \in Entries(n), cs # <<>>, Head(cs) = c,
         NEW e, e = CallsEvent(cs)
  PROVE  /\ e \in Events(n) /\ e.type # "garbled" /\ e.calls = cs /\ e.text = Empty
         /\ Brings(e, c.index, Fragment(c.args))
<1>1. PICK ty : ty = "message"
  OBVIOUS
<1>2. PICK u : u = [type |-> ty, index |-> 0, id |-> NoId, text |-> Empty, args |-> Empty,
                    calls |-> cs, stop |-> Empty]
  OBVIOUS
<1>3. u = e
  BY <1>1, <1>2 DEF Event, CallsEvent
<1>4. /\ ty \in Types /\ NoId \in Ids /\ Empty \in Fragments /\ Empty \in Stops
      /\ ty # "tool_use" /\ ty # "input_json_delta" /\ ty # "garbled"
      /\ 0 \in 0 .. n /\ Empty \in Texts \cup {Empty}
  BY <1>1 DEF Types, Ids, Fragments, Stops
<1>5. /\ u \in Events(n) /\ u.type = ty /\ u.index = 0
      /\ u.text = Empty /\ u.args = Empty /\ u.calls = cs
  <2>1. /\ ty \in {"tool_use", "input_json_delta"} => 0 >= 1
        /\ ty = "tool_use" => NoId = 0 - 1
    BY <1>4
  <2> QED
    <3>1. /\ u.type = ty /\ u.index = 0 /\ u.id = NoId
          /\ u.text = Empty /\ u.args = Empty /\ u.calls = cs
      BY <1>2
    <3>2. u \in [type : Types, index : 0 .. n, id : Ids, text : Texts \cup {Empty},
                 args : Fragments, calls : Seq(Entries(n)), stop : Stops]
      BY <1>2, <1>4
    <3> QED
      BY <2>1, <3>1, <3>2 DEF Events
<1>6. c.index \in 1 .. n /\ Fragment(c.args) \in Seq(Frags)
  <2>1. c.index \in 1 .. n /\ c.args \in Fragments
    BY DEF Entries
  <2> QED
    BY <2>1, FragmentTyped DEF Fragments
<1>7. ASSUME NEW p \in Nat PROVE PartOf(p, u) = IF p = c.index THEN Fragment(c.args) ELSE <<>>
  <2>1. CASE p = 0
    BY <1>5, <1>6, <2>1, FragmentEmpty DEF PartOf
  <2>2. CASE p # 0
    <3>1. u.index # p /\ u.calls # <<>> /\ Head(u.calls) = c
      BY <1>5, <2>2
    <3>2. PICK fr \in Seq(Frags) : fr = Fragment(c.args)
      BY <1>6
    <3>3. <<>> \o fr = fr /\ <<>> \o <<>> = <<>>
      OBVIOUS
    <3>4. PartOf(p, u) = <<>> \o (IF c.index = p THEN fr ELSE <<>>)
      BY <2>2, <3>1, <3>2 DEF PartOf
    <3> QED
      BY <3>2, <3>3, <3>4
  <2> QED
    BY <2>1, <2>2
<1>8. Brings(u, c.index, Fragment(c.args))
  BY <1>7 DEF Brings
<1>9. u \in Events(n) /\ u.type # "garbled" /\ u.calls = cs /\ u.text = Empty
  BY <1>4, <1>5
<1> QED
  BY <1>3, <1>8, <1>9, Zenon

\* Of the entries of an event only the first is decoded.
LEMMA EntriesDecoded ==
  ASSUME adapter = "openai", NEW e, NEW c, e.text = Empty, e.calls # <<>>, Head(e.calls) = c,
         NEW t, NEW name
  PROVE  Decoded(adapter, t, name, e) = CallDelta(t, c)
BY DEF Decoded, DecodeOpenAi


\* One entry is described.
LEMMA HeardIs ==
  ASSUME NEW s \in Described, CallsOnly(s), NEW i \in 1 .. Len(s.blocks) + 1, NEW f \in Frags,
         NEW h, h = HeardCall(s, i, f)
  PROVE  /\ h \in Described /\ CallsOnly(h) /\ Len(s.blocks) \in Nat
         /\ Len(h.blocks) = IF i > Len(s.blocks) THEN Len(s.blocks) + 1 ELSE Len(s.blocks)
         /\ TellsMore(s, h, i, Fragment(f))
<1>1. PICK fr \in Seq(Frags) : fr = Fragment(f)
  BY FragmentTyped
<1>2. Len(s.blocks) \in Nat /\ i \in Nat /\ i # 0
  BY DescribedIs
<1>3. CASE i > Len(s.blocks)
  <2>1. PICK x : x = [kind |-> "tool_use", id |-> i - 1, args |-> fr]
    OBVIOUS
  <2>2. i = Len(s.blocks) + 1 /\ i - 1 = Len(s.blocks)
    BY <1>2, <1>3
  <2>3. x \in SaidBlock /\ x.id = Len(s.blocks) /\ x.kind = "tool_use" /\ x.args = fr
    BY <1>2, <2>1, <2>2 DEF SaidBlock
  <2>4. h = [s EXCEPT !.blocks = Append(s.blocks, x)]
    BY <1>1, <1>3, <2>1 DEF HeardCall
  <2>5. /\ h \in Described /\ Len(h.blocks) = Len(s.blocks) + 1 /\ CallsOnly(h)
        /\ TellsMore(s, h, i, fr)
    <3>1. PICK g : g = h
      OBVIOUS
    <3>2. g = [s EXCEPT !.blocks = Append(s.blocks, x)] /\ (x.kind = "text" => x.args = <<>>)
      BY <2>3, <2>4, <3>1
    <3>3. /\ g \in Described /\ Len(g.blocks) = Len(s.blocks) + 1 /\ CallsOnly(g)
          /\ TellsMore(s, g, Len(s.blocks) + 1, x.args)
      BY <2>3, <3>2, OneBlockMore
    <3> QED
      BY <2>2, <2>3, <3>1, <3>3, Zenon
  <2> QED
    BY <1>1, <1>2, <1>3, <2>5
<1>4. CASE ~(i > Len(s.blocks))
  <2>1. i \in 1 .. Len(s.blocks)
    BY <1>2, <1>4
  <2>2. s.blocks[i].kind = "tool_use"
    BY <2>1 DEF CallsOnly
  <2>3. h = LongerAt(s, i, fr)
    BY <1>1, <1>4 DEF HeardCall, LongerAt
  <2>4. /\ h \in Described /\ Len(h.blocks) = Len(s.blocks) /\ CallsOnly(h)
        /\ TellsMore(s, h, i, fr)
    BY <2>1, <2>2, <2>3, ArgsMore
  <2> QED
    BY <1>1, <1>2, <1>4, <2>4
<1> QED
  BY <1>3, <1>4

\* One entry of tool_calls preserves the invariant.
LEMMA EntryStep ==
  ASSUME StreamInv, outcome = "running", sent # <<>>, adapter = "openai", lossy' = lossy,
         NEW i \in 1 .. Len(said.blocks) + 1, NEW f \in Frags, NEW c, c = Entry(i, f),
         NEW e, e = CallsEvent(<<c>>),
         Says("message", e, HeardCall(said, i, f))
  PROVE  StreamInv'
<1>1. PICK s, m, h, n, name : /\ s = said /\ m = Len(s.blocks) /\ h = HeardCall(said, i, f)
                              /\ n = Len(h.blocks) /\ name = "message"
  OBVIOUS
<1>2. s \in Described /\ CallsOnly(s) /\ i \in 1 .. Len(s.blocks) + 1 /\ h = HeardCall(s, i, f)
  BY <1>1 DEF StreamInv
<1>3. /\ h \in Described /\ CallsOnly(h) /\ m \in Nat /\ n = IF i > m THEN m + 1 ELSE m
      /\ TellsMore(s, h, i, Fragment(f))
  <2>1. /\ h \in Described /\ CallsOnly(h) /\ Len(s.blocks) \in Nat
        /\ Len(h.blocks) = IF i > Len(s.blocks) THEN Len(s.blocks) + 1 ELSE Len(s.blocks)
        /\ TellsMore(s, h, i, Fragment(f))
    BY <1>2, HeardIs
  <2> QED
    BY <1>1, <2>1
<1>4. n \in Nat /\ m <= n /\ i \in 1 .. n
  BY <1>1, <1>2, <1>3
<1>5. /\ c \in Entries(n) /\ c.index = i /\ c.args = f
      /\ c.id = IF i > m THEN i - 1 ELSE NoId
  <2>1. c = [index |-> i, args |-> f, id |-> IF i > m THEN i - 1 ELSE NoId]
    BY <1>1 DEF Entry
  <2>2. f \in Fragments /\ i - 1 \in Ids /\ NoId \in Ids
    BY <1>4 DEF Fragments, Ids
  <2> QED
    BY <1>4, <2>1, <2>2 DEF Entries
<1>6. PICK cs : cs = <<c>>
  OBVIOUS
<1>7. cs \in Seq(Entries(n)) /\ cs # <<>> /\ Head(cs) = c
  BY <1>5, <1>6
<1>8. /\ e \in Events(n) /\ e.type # "garbled" /\ Brings(e, i, Fragment(f))
      /\ \A t : Decoded(adapter, t, name, e) = CallDelta(t, c)
  <2>1. e = CallsEvent(cs)
    BY <1>6
  <2>2. PICK u : u = CallsEvent(cs)
    OBVIOUS
  <2>3. /\ u \in Events(n) /\ u.type # "garbled" /\ u.calls = cs /\ u.text = Empty
        /\ Brings(u, c.index, Fragment(c.args))
    <3>1. PICK d \in Entries(n), k \in Nat : d = c /\ k = n
      BY <1>4, <1>5
    <3>2. d \in Entries(k) /\ cs \in Seq(Entries(k)) /\ cs # <<>> /\ Head(cs) = d
      BY <1>7, <3>1, Zenon
    <3>3. /\ u \in Events(k) /\ u.type # "garbled" /\ u.calls = cs /\ u.text = Empty
          /\ Brings(u, d.index, Fragment(d.args))
      BY <2>2, <3>2, EntriesEvent
    <3> QED
      BY <3>1, <3>3, Zenon
  <2>4. \A t : Decoded(adapter, t, name, u) = CallDelta(t, c)
    BY <1>7, <2>3, EntriesDecoded
  <2> QED
    BY <1>5, <2>1, <2>2, <2>3, <2>4, Zenon
<1>9. ASSUME NEW p \in Nat PROVE Follows(Told(p, s) \o PartOf(p, e), Told(p, h))
  BY <1>2, <1>3, <1>8, BroughtTold
<1>10. ASSUME NEW t \in States(n), Same(adapter, s, t.asm, t.sent)
       PROVE  LET d == CallDelta(t, c) IN Same(adapter, h, d.asm, d.sent)
  <2>1. Same("openai", s, t.asm, t.sent)
    BY <1>10
  <2>2. CASE i > m
    <3>1. PICK x : x = [kind |-> "tool_use", id |-> m, args |-> Fragment(f)]
      OBVIOUS
    <3>2. i = m + 1 /\ i - 1 = m
      BY <1>1, <1>2, <1>3, <2>2
    <3>3. c.index = m + 1 /\ c.id = m
      BY <1>5, <2>2, <3>2
    <3>4. LET d == CallDelta(t, c)
          IN  Same("openai", [s EXCEPT !.blocks = Append(s.blocks, [kind |-> "tool_use", id |-> m,
                                                                    args |-> Fragment(f)])],
                   d.asm, d.sent)
      BY <1>1, <1>2, <1>4, <1>5, <1>10, <2>1, <3>3, NewSame
    <3>5. h = [s EXCEPT !.blocks = Append(s.blocks, [kind |-> "tool_use", id |-> m,
                                                     args |-> Fragment(f)])]
      BY <1>1, <1>2, <2>2, <3>2 DEF HeardCall
    <3> QED
      BY <3>4, <3>5, Zenon
  <2>3. CASE ~(i > m)
    <3>1. i \in 1 .. Len(s.blocks)
      BY <1>1, <1>2, <1>3, <2>3
    <3>2. c.id = NoId
      BY <1>5, <2>3
    <3>3. LET d == CallDelta(t, c)
          IN  Same("openai", [s EXCEPT !.blocks[i].args = @ \o Fragment(f)], d.asm, d.sent)
      BY <1>2, <1>4, <1>5, <1>10, <2>1, <3>1, <3>2, KnownSame
    <3>4. h = [s EXCEPT !.blocks[i].args = @ \o Fragment(f)]
      BY <1>1, <1>2, <2>3 DEF HeardCall
    <3> QED
      BY <3>3, <3>4, Zenon
  <2> QED
    BY <2>2, <2>3
<1>11. name \in Names /\ adapter \in Apis
  BY <1>1 DEF Names, Apis
<1>12. ASSUME NEW r \in States(m), Matches(adapter, s, r)
       PROVE  Matches(adapter, h, Reading(adapter, r, Framed(name, e)))
  <2>1. \A t \in States(n) : Same(adapter, s, t.asm, t.sent) =>
           LET d == Decoded(adapter, t, name, e) IN Same(adapter, h, d.asm, d.sent)
    BY <1>8, <1>10
  <2> QED
    BY <1>3, <1>4, <1>8, <1>11, <1>12, <2>1, FramedSame
<1>13. Says(name, e, h)
  BY <1>1
<1>14. Len(said.blocks) <= Len(h.blocks) /\ e \in Events(Len(h.blocks))
  BY <1>1, <1>4, <1>8
<1>15. \A p \in Nat : Follows(Told(p, said) \o PartOf(p, e), Told(p, h))
  BY <1>1, <1>9
<1>16. ASSUME NEW r \in States(Len(said.blocks)), Matches(adapter, said, r)
       PROVE  Matches(adapter, h, Reading(adapter, r, Framed(name, e)))
  BY <1>1, <1>12, <1>16
<1> QED
  BY <1>3, <1>11, <1>13, <1>14, <1>15, <1>16, SaysKeeps

\* Two entries in one event preserve it: the second is lost, and said to be.
LEMMA TwoStep ==
  ASSUME StreamInv, outcome = "running", sent # <<>>, adapter = "openai", lossy' = TRUE,
         NEW i, i = Len(said.blocks) + 1, NEW f \in Frags, NEW g \in Frags,
         NEW e, e = CallsEvent(<<Entry(i, f), Entry(i + 1, g)>>),
         Says("message", e, HeardCall(HeardCall(said, i, f), i + 1, g))
  PROVE  StreamInv'
<1>1. PICK s, m, h1, h, name :
        /\ s = said /\ m = Len(s.blocks) /\ h1 = HeardCall(said, i, f)
        /\ h = HeardCall(h1, i + 1, g) /\ name = "message"
  OBVIOUS
<1>2. s \in Described /\ CallsOnly(s) /\ h1 = HeardCall(s, i, f) /\ i = Len(s.blocks) + 1
  BY <1>1 DEF StreamInv
<1>3. i \in 1 .. Len(s.blocks) + 1 /\ i > Len(s.blocks)
  BY <1>2, DescribedIs
<1>4. /\ h1 \in Described /\ CallsOnly(h1) /\ m \in Nat /\ Len(h1.blocks) = m + 1
      /\ TellsMore(s, h1, i, Fragment(f))
  <2>1. PICK j \in 1 .. Len(s.blocks) + 1 : j = i
    BY <1>3
  <2>2. h1 = HeardCall(s, j, f)
    BY <1>2, <2>1
  <2>3. /\ h1 \in Described /\ CallsOnly(h1) /\ Len(s.blocks) \in Nat
        /\ Len(h1.blocks) = IF j > Len(s.blocks) THEN Len(s.blocks) + 1 ELSE Len(s.blocks)
        /\ TellsMore(s, h1, j, Fragment(f))
    BY <1>2, <2>2, HeardIs
  <2>4. j > Len(s.blocks)
    BY <1>3, <2>1
  <2> QED
    BY <1>1, <2>1, <2>3, <2>4
<1>5. i = m + 1 /\ i + 1 \in 1 .. Len(h1.blocks) + 1 /\ i + 1 > Len(h1.blocks)
  BY <1>1, <1>4
<1>6. /\ h \in Described /\ CallsOnly(h) /\ Len(h.blocks) = m + 2
      /\ TellsMore(h1, h, i + 1, Fragment(g))
  <2>1. PICK j \in 1 .. Len(h1.blocks) + 1 : j = i + 1
    BY <1>5
  <2>2. h = HeardCall(h1, j, g)
    BY <1>1, <2>1
  <2>3. /\ h \in Described /\ CallsOnly(h)
        /\ Len(h.blocks) = IF j > Len(h1.blocks) THEN Len(h1.blocks) + 1 ELSE Len(h1.blocks)
        /\ TellsMore(h1, h, j, Fragment(g))
    BY <1>4, <2>2, HeardIs
  <2> QED
    BY <1>4, <1>5, <2>1, <2>3
<1>7. PICK n \in Nat : n = m + 2
  BY <1>4
<1>8. PICK c, d, cs : c = Entry(i, f) /\ d = Entry(i + 1, g) /\ cs = <<c, d>>
  OBVIOUS
<1>9. c \in Entries(n) /\ d \in Entries(n) /\ c.index = i /\ c.args = f
  <2>1. c = [index |-> i, args |-> f, id |-> i - 1] /\ d = [index |-> i + 1, args |-> g, id |-> (i + 1) - 1]
    BY <1>1, <1>4, <1>5, <1>8 DEF Entry
  <2>2. /\ f \in Fragments /\ g \in Fragments /\ i - 1 \in Ids /\ (i + 1) - 1 \in Ids
        /\ i \in 1 .. n /\ i + 1 \in 1 .. n
    BY <1>4, <1>5, <1>7 DEF Fragments, Ids
  <2> QED
    BY <2>1, <2>2 DEF Entries
<1>10. cs \in Seq(Entries(n)) /\ cs # <<>> /\ Head(cs) = c
  BY <1>8, <1>9
<1>11. /\ e \in Events(n)
       /\ Brings(e, i, Fragment(f))
  <2>1. e = CallsEvent(cs)
    BY <1>8
  <2>2. PICK u : u = CallsEvent(cs)
    OBVIOUS
  <2>3. /\ u \in Events(n)
        /\ Brings(u, c.index, Fragment(c.args))
    BY <1>9, <1>10, <2>2, EntriesEvent
  <2> QED
    BY <1>9, <2>1, <2>2, <2>3, Zenon
<1>12. ASSUME NEW p \in Nat PROVE Follows(Told(p, s) \o PartOf(p, e), Told(p, h))
  <2>1. CASE p = i
    <3>1. p # i + 1
      BY <1>4, <1>5, <2>1
    <3>2. Told(p, h) = Told(p, s) \o PartOf(p, e)
      BY <1>4, <1>6, <1>11, <2>1, <3>1 DEF TellsMore, Brings
    <3> QED
      BY <1>2, <1>6, <3>2, AllTold
  <2>2. CASE p = i + 1
    <3>1. p # i /\ p > m /\ p # 0
      BY <1>4, <1>5, <2>2
    <3>2. PartOf(p, e) = <<>> /\ Told(p, s) = <<>>
      BY <1>1, <1>4, <1>11, <3>1 DEF Told, Brings
    <3>3. <<>> \o <<>> = <<>>
      OBVIOUS
    <3>4. PICK t \in Seq(Pieces) : t = Told(p, h)
      BY <1>6, ToldIs
    <3>5. Follows(<<>>, t)
      BY NothingFollows
    <3> QED
      BY <3>2, <3>3, <3>4, <3>5
  <2>3. CASE p # i /\ p # i + 1
    <3>1. PartOf(p, e) = <<>> /\ Told(p, h) = Told(p, s)
      BY <1>4, <1>6, <1>11, <2>3 DEF TellsMore, Brings
    <3> QED
      BY <1>2, <1>6, <3>1, NothingTold
  <2> QED
    BY <2>1, <2>2, <2>3
<1>13. name \in Names /\ Says(name, e, h)
  BY <1>1 DEF Names
<1>14. Len(said.blocks) <= Len(h.blocks) /\ e \in Events(Len(h.blocks))
  BY <1>1, <1>4, <1>6, <1>7, <1>11
<1>15. \A p \in Nat : Follows(Told(p, said) \o PartOf(p, e), Told(p, h))
  BY <1>1, <1>12
<1>16. ASSUME ~lossy'
       PROVE  Matches(adapter, h, Reading(adapter, Reading(adapter, Connection, wire), Framed(name, e)))
  BY <1>16
<1> QED
  BY <1>6, <1>13, <1>14, <1>15, <1>16, SaysKeeps


\* An event with a text, or with nothing but a reason to stop.
PlainEvent(ty, i, t, stop) ==
  [type |-> ty, index |-> i, id |-> NoId, text |-> t, args |-> Empty, calls |-> <<>>, stop |-> stop]

TextEvent(i, t) == [Event EXCEPT !.type = "text_delta", !.index = i, !.text = t]

\* An event of text is a plain one.
LEMMA PlainText ==
  ASSUME NEW i, NEW t PROVE PlainEvent("text_delta", i, t, Empty) = TextEvent(i, t)
<1> DEFINE ty == "text_delta"
<1>1. PICK none, msg, mt : none = <<>> /\ msg = "message" /\ mt = Empty
  OBVIOUS
<1>2. Event = [type |-> msg, index |-> 0, id |-> NoId, text |-> mt, args |-> mt, calls |-> none,
               stop |-> mt]
  BY <1>1 DEF Event
<1>3. \A a, b, c, d : PlainEvent(a, b, c, d) =
        [type |-> a, index |-> b, id |-> NoId, text |-> c, args |-> mt, calls |-> none, stop |-> d]
  BY <1>1 DEF PlainEvent
<1>4. PlainEvent(ty, i, t, mt) = [Event EXCEPT !.type = ty, !.index = i, !.text = t]
  <2>1. PICK e1 : e1 = [Event EXCEPT !.type = ty]
    OBVIOUS
  <2>2. e1 = [type |-> ty, index |-> 0, id |-> NoId, text |-> mt, args |-> mt, calls |-> none, stop |-> mt]
    BY <1>2, <2>1
  <2>3. PICK e2 : e2 = [e1 EXCEPT !.index = i]
    OBVIOUS
  <2>4. e2 = [type |-> ty, index |-> i, id |-> NoId, text |-> mt, args |-> mt, calls |-> none, stop |-> mt]
    BY <2>2, <2>3
  <2>5. [e2 EXCEPT !.text = t] = PlainEvent(ty, i, t, mt)
    BY <1>3, <2>4
  <2> QED
    BY <2>1, <2>3, <2>5
<1> QED
  BY <1>1, <1>4, Zenon DEF TextEvent

\* The plain events, as the server writes them.
LEMMA PlainMade ==
  ASSUME NEW t, NEW stop
  PROVE  /\ PlainEvent("message", 0, t, stop) = [Event EXCEPT !.text = t, !.calls = <<>>, !.stop = stop]
         /\ PlainEvent("message", 0, t, Empty) = [Event EXCEPT !.text = t]
         /\ PlainEvent("message", 0, Empty, stop) = [Event EXCEPT !.stop = stop]
<1>1. PICK none, msg, mt : none = <<>> /\ msg = "message" /\ mt = Empty
  OBVIOUS
<1>2. Event = [type |-> msg, index |-> 0, id |-> NoId, text |-> mt, args |-> mt, calls |-> none,
               stop |-> mt]
  BY <1>1 DEF Event
<1>3. \A a, b, c, d : PlainEvent(a, b, c, d) =
        [type |-> a, index |-> b, id |-> NoId, text |-> c, args |-> mt, calls |-> none, stop |-> d]
  BY <1>1 DEF PlainEvent
<1>5. PlainEvent(msg, 0, t, stop) = [Event EXCEPT !.text = t, !.calls = none, !.stop = stop]
  <2>1. PICK e1 : e1 = [Event EXCEPT !.text = t]
    OBVIOUS
  <2>2. e1 = [type |-> msg, index |-> 0, id |-> NoId, text |-> t, args |-> mt, calls |-> none, stop |-> mt]
    BY <1>2, <2>1
  <2>3. PICK e2 : e2 = [e1 EXCEPT !.calls = none]
    OBVIOUS
  <2>4. e2 = [type |-> msg, index |-> 0, id |-> NoId, text |-> t, args |-> mt, calls |-> none, stop |-> mt]
    BY <2>2, <2>3
  <2>5. [e2 EXCEPT !.stop = stop] = PlainEvent(msg, 0, t, stop)
    BY <1>3, <2>4
  <2> QED
    BY <2>1, <2>3, <2>5
<1>6. PlainEvent(msg, 0, t, mt) = [Event EXCEPT !.text = t]
  BY <1>2, <1>3
<1>7. PlainEvent(msg, 0, mt, stop) = [Event EXCEPT !.stop = stop]
  BY <1>2, <1>3
<1> QED
  BY <1>1, <1>5, <1>6, <1>7, Zenon

\* The fields of a plain event.
LEMMA PlainIs ==
  ASSUME NEW n \in Nat, NEW ty \in {"message", "text_delta"}, NEW i \in 0 .. n,
         NEW t \in Texts \cup {Empty}, NEW stop \in Stops, NEW e, e = PlainEvent(ty, i, t, stop)
  PROVE  /\ e \in Events(n) /\ e.type # "garbled" /\ e.type = ty /\ e.text = t /\ e.args = Empty
         /\ e.calls = <<>> /\ e.stop = stop
<1>1. PICK none : none = <<>>
  OBVIOUS
<1>2. PICK u : u = [type |-> ty, index |-> i, id |-> NoId, text |-> t, args |-> Empty,
                    calls |-> none, stop |-> stop]
  OBVIOUS
<1>3. u = e
  BY <1>1, <1>2 DEF PlainEvent
<1>4. /\ ty \in Types /\ NoId \in Ids /\ Empty \in Fragments /\ ty # "garbled"
      /\ ty # "tool_use" /\ ty # "input_json_delta"
  BY DEF Types, Ids, Fragments
<1>5. none \in Seq(Entries(n))
  BY <1>1, NoEntries
<1>6. /\ u.type = ty /\ u.index = i /\ u.id = NoId /\ u.text = t /\ u.args = Empty
      /\ u.calls = none /\ u.stop = stop
  BY <1>2
<1>7. u \in Events(n)
  <2>1. u \in [type : Types, index : 0 .. n, id : Ids, text : Texts \cup {Empty},
               args : Fragments, calls : Seq(Entries(n)), stop : Stops]
    BY <1>2, <1>4, <1>5
  <2>2. /\ u.type \in {"tool_use", "input_json_delta"} => u.index >= 1
        /\ u.type = "tool_use" => u.id = u.index - 1
    BY <1>4, <1>6
  <2> QED
    BY <2>1, <2>2 DEF Events
<1>8. u.type # "garbled"
  BY <1>4, <1>6
<1> QED
  BY <1>1, <1>3, <1>6, <1>7, <1>8, Zenon

\* What the adapters make of a plain event.
LEMMA PlainDecoded ==
  ASSUME adapter \in Apis, NEW x \in Texts \cup {Empty}, NEW t, NEW e, e.text = x, e.calls = <<>>
  PROVE  /\ /\ adapter = "anthropic" => e.type = "text_delta"
            /\ e.stop = Empty
            => Decoded(adapter, t, "content_block_delta", e) = TextDelta(t, x)
         /\ adapter # "anthropic" /\ e.stop = Empty
            => Decoded(adapter, t, "message", e) = TextDelta(t, x)
         /\ x = Empty /\ e.stop = "ToolUse" /\ adapter = "anthropic"
            => Decoded(adapter, t, "message_delta", e) = [t EXCEPT !.asm.stop = "ToolUse"]
         /\ x = Empty /\ e.stop = "ToolUse" /\ adapter = "openai"
            => Decoded(adapter, t, "message", e) = [t EXCEPT !.asm.stop = "ToolUse"]
<1>1. ASSUME e.stop = Empty PROVE DecodeOpenAi(t, e) = TextDelta(t, x)
  BY <1>1 DEF DecodeOpenAi, TextDelta
<1>2. ASSUME x = Empty, e.stop = "ToolUse"
      PROVE  /\ DecodeOpenAi(t, e) = [t EXCEPT !.asm.stop = "ToolUse"]
             /\ DecodeAnthropic(t, "message_delta", e) = [t EXCEPT !.asm.stop = "ToolUse"]
  BY <1>2 DEF DecodeOpenAi, DecodeAnthropic, Empty
<1>3. ASSUME e.type = "text_delta"
      PROVE  DecodeAnthropic(t, "content_block_delta", e) = TextDelta(t, x)
  BY <1>3 DEF DecodeAnthropic
<1> QED
  BY <1>1, <1>2, <1>3 DEF Decoded, Apis

\* Every step of an Anthropic server preserves the invariant.
LEMMA AnthropicStep ==
  ASSUME StreamInv, outcome = "running", sent # <<>>, AnthropicServer
  PROVE  StreamInv'
<1>1. PICK m \in Nat : m = Len(said.blocks)
  BY DescribedIs DEF StreamInv
<1>2. adapter = "anthropic" /\ lossy' = lossy /\ adapter \in Apis
  BY DEF AnthropicServer, Apis
<1>3. ASSUME NEW kind \in {"text", "tool_use"},
             Says("content_block_start",
                  [Event EXCEPT !.type = kind, !.index = m + 1, !.id = m],
                  [said EXCEPT !.blocks = Append(@, NewBlock(kind))])
      PROVE  StreamInv'
  BY <1>1, <1>2, <1>3, StartStep
<1>4. ASSUME NEW x \in Texts,
             Says("content_block_delta", TextEvent(m, x), HeardText(x))
      PROVE  StreamInv'
  <2>1. PICK e : e = PlainEvent("text_delta", m, x, Empty)
    OBVIOUS
  <2>2. Says("content_block_delta", e, HeardText(x))
    <3>1. e = TextEvent(m, x)
      BY <2>1, PlainText, Zenon
    <3> QED
      BY <1>4, <3>1, Zenon
  <2>3. m \in 0 .. m /\ x \in Texts \cup {Empty} /\ Empty \in Stops /\ "content_block_delta" \in Names
    BY DEF Stops, Names
  <2>4. /\ e \in Events(m) /\ e.type # "garbled" /\ e.type = "text_delta" /\ e.text = x
        /\ e.args = Empty /\ e.calls = <<>> /\ e.stop = Empty
    BY <2>1, <2>3, PlainIs
  <2>5. \A t : Decoded(adapter, t, "content_block_delta", e) = TextDelta(t, x)
    BY <1>2, <2>3, <2>4, PlainDecoded
  <2> QED
    BY <1>1, <1>2, <2>2, <2>3, <2>4, <2>5, TextStep
<1>5. ASSUME m > 0, said.blocks[m].kind = "tool_use", NEW f \in Frags,
             Says("content_block_delta",
                  [Event EXCEPT !.type = "input_json_delta", !.index = m, !.args = f],
                  Heard(m, f))
      PROVE  StreamInv'
  <2>1. m # 0
    BY <1>5
  <2> QED
    BY <1>1, <1>2, <1>5, <2>1, ArgsStep
<1>6. ASSUME Says("message_delta", [Event EXCEPT !.stop = "ToolUse"], [said EXCEPT !.stop = "ToolUse"])
      PROVE  StreamInv'
  <2>1. PICK e : e = PlainEvent("message", 0, Empty, "ToolUse")
    OBVIOUS
  <2>2. Says("message_delta", e, [said EXCEPT !.stop = "ToolUse"])
    <3>1. e = [Event EXCEPT !.stop = "ToolUse"]
      BY <2>1, PlainMade, Zenon
    <3> QED
      BY <1>6, <3>1, Zenon
  <2>3. 0 \in 0 .. m /\ Empty \in Texts \cup {Empty} /\ "ToolUse" \in Stops /\ "message_delta" \in Names
    BY DEF Stops, Names
  <2>4. /\ e \in Events(m) /\ e.type # "garbled" /\ e.text = Empty
        /\ e.args = Empty /\ e.calls = <<>> /\ e.stop = "ToolUse"
    <3>1. PICK ty \in {"message", "text_delta"}, stop \in Stops : ty = "message" /\ stop = "ToolUse"
      BY <2>3
    <3>2. PICK mt \in Texts \cup {Empty} : mt = Empty
      OBVIOUS
    <3>3. e = PlainEvent(ty, 0, mt, stop)
      BY <2>1, <3>1, <3>2, Zenon
    <3>4. /\ e \in Events(m) /\ e.type # "garbled" /\ e.text = mt
          /\ e.args = Empty /\ e.calls = <<>> /\ e.stop = stop
      BY <2>3, <3>3, PlainIs
    <3> QED
      BY <3>1, <3>2, <3>4, Zenon
  <2>5. \A t : Decoded(adapter, t, "message_delta", e) = [t EXCEPT !.asm.stop = "ToolUse"]
    BY <1>2, <2>3, <2>4, PlainDecoded
  <2> QED
    BY <1>1, <1>2, <2>2, <2>3, <2>4, <2>5, StopStep
<1> QED
  BY <1>1, <1>3, <1>4, <1>5, <1>6 DEF AnthropicServer, TextEvent

\* Every step of an OpenAI server preserves it.
LEMMA OpenAiStep ==
  ASSUME StreamInv, outcome = "running", sent # <<>>, OpenAiServer
  PROVE  StreamInv'
<1>1. PICK m \in Nat : m = Len(said.blocks)
  BY DescribedIs DEF StreamInv
<1>2. adapter = "openai" /\ adapter \in Apis /\ "message" \in Names
  BY DEF OpenAiServer, Apis, Names
<1>3. ASSUME lossy' = lossy, NEW x \in Texts,
             Says("message", [Event EXCEPT !.text = x, !.calls = <<>>, !.stop = Empty], HeardText(x))
      PROVE  StreamInv'
  <2>1. PICK e : e = PlainEvent("message", 0, x, Empty)
    OBVIOUS
  <2>2. Says("message", e, HeardText(x))
    <3>1. e = [Event EXCEPT !.text = x, !.calls = <<>>, !.stop = Empty]
      BY <2>1, PlainMade, Zenon
    <3> QED
      BY <1>3, <3>1, Zenon
  <2>3. 0 \in 0 .. m /\ x \in Texts \cup {Empty} /\ Empty \in Stops
    BY DEF Stops
  <2>4. /\ e \in Events(m) /\ e.type # "garbled" /\ e.text = x
        /\ e.args = Empty /\ e.calls = <<>> /\ e.stop = Empty
    BY <2>1, <2>3, PlainIs
  <2>5. \A t : Decoded(adapter, t, "message", e) = TextDelta(t, x)
    BY <1>2, <2>3, <2>4, PlainDecoded
  <2> QED
    BY <1>1, <1>2, <1>3, <2>2, <2>4, <2>5, TextStep
<1>4. ASSUME lossy' = lossy, NEW i \in 1 .. (IF m < MaxCalls THEN m + 1 ELSE MaxCalls),
             NEW f \in Frags,
             Says("message", CallsEvent(<<Entry(i, f)>>), HeardCall(said, i, f))
      PROVE  StreamInv'
  <2>1. i \in 1 .. Len(said.blocks) + 1
    BY <1>1, ServerAssumption
  <2> QED
    BY <1>2, <1>4, <2>1, EntryStep
<1>5. ASSUME lossy' = lossy,
             Says("message", [Event EXCEPT !.text = Empty, !.calls = <<>>, !.stop = "ToolUse"],
                  [said EXCEPT !.stop = "ToolUse"])
      PROVE  StreamInv'
  <2>1. PICK e : e = PlainEvent("message", 0, Empty, "ToolUse")
    OBVIOUS
  <2>2. Says("message", e, [said EXCEPT !.stop = "ToolUse"])
    <3>1. e = [Event EXCEPT !.text = Empty, !.calls = <<>>, !.stop = "ToolUse"]
      BY <2>1, PlainMade, Zenon
    <3> QED
      BY <1>5, <3>1, Zenon
  <2>3. 0 \in 0 .. m /\ Empty \in Texts \cup {Empty} /\ "ToolUse" \in Stops
    BY DEF Stops
  <2>4. /\ e \in Events(m) /\ e.type # "garbled" /\ e.text = Empty
        /\ e.args = Empty /\ e.calls = <<>> /\ e.stop = "ToolUse"
    <3>1. PICK ty \in {"message", "text_delta"}, stop \in Stops : ty = "message" /\ stop = "ToolUse"
      BY <2>3
    <3>2. PICK mt \in Texts \cup {Empty} : mt = Empty
      OBVIOUS
    <3>3. e = PlainEvent(ty, 0, mt, stop)
      BY <2>1, <3>1, <3>2, Zenon
    <3>4. /\ e \in Events(m) /\ e.type # "garbled" /\ e.text = mt
          /\ e.args = Empty /\ e.calls = <<>> /\ e.stop = stop
      BY <2>3, <3>3, PlainIs
    <3> QED
      BY <3>1, <3>2, <3>4, Zenon
  <2>5. \A t : Decoded(adapter, t, "message", e) = [t EXCEPT !.asm.stop = "ToolUse"]
    BY <1>2, <2>3, <2>4, PlainDecoded
  <2> QED
    BY <1>1, <1>2, <1>5, <2>2, <2>4, <2>5, StopStep
<1>6. ASSUME lossy' = TRUE, NEW f \in Frags, NEW g \in Frags, NEW i, i = m + 1,
             Says("message", CallsEvent(<<Entry(i, f), Entry(i + 1, g)>>),
                  HeardCall(HeardCall(said, i, f), i + 1, g))
      PROVE  StreamInv'
  BY <1>1, <1>2, <1>6, TwoStep
<1> QED
  BY <1>1, <1>3, <1>4, <1>5, <1>6 DEF OpenAiServer, CallsEvent

\* Every step of an Ollama server preserves it.
LEMMA OllamaStep ==
  ASSUME StreamInv, outcome = "running", sent # <<>>, OllamaServer
  PROVE  StreamInv'
<1>1. PICK m \in Nat : m = Len(said.blocks)
  BY DescribedIs DEF StreamInv
<1>2. adapter = "ollama" /\ adapter \in Apis /\ "message" \in Names /\ lossy' = lossy
  BY DEF OllamaServer, Apis, Names
<1>3. PICK x \in Texts : Says("message", [Event EXCEPT !.text = x], HeardText(x))
  BY DEF OllamaServer
<1>4. PICK e : e = PlainEvent("message", 0, x, Empty)
  OBVIOUS
<1>5. Says("message", e, HeardText(x))
  BY <1>3, <1>4, PlainMade, Zenon
<1>6. 0 \in 0 .. m /\ x \in Texts \cup {Empty} /\ Empty \in Stops
  BY DEF Stops
<1>7. /\ e \in Events(m) /\ e.type # "garbled" /\ e.text = x
      /\ e.args = Empty /\ e.calls = <<>> /\ e.stop = Empty
  BY <1>4, <1>6, PlainIs
<1>8. \A t : Decoded(adapter, t, "message", e) = TextDelta(t, x)
  BY <1>2, <1>6, <1>7, PlainDecoded
<1> QED
  BY <1>1, <1>2, <1>5, <1>7, <1>8, TextStep

-----------------------------------------------------------------------------
(* The other steps. *)

\* Nothing is captured of no events, nothing chosen of no elements.
LEMMA NoneCaptured ==
  /\ Captured(<<>>) = [text |-> <<>>, calls |-> <<>>]
  /\ Captured(<<StartEvent>>) = [text |-> <<>>, calls |-> <<>>]
<1>1. PICK none : none = <<>> /\ none \in Seq(Streamed) /\ Len(none) = 0
  <2>1. <<>> \in Seq(Streamed) /\ Len(<<>>) = 0
    OBVIOUS
  <2> QED
    BY <2>1, Zenon
<1>2. \A x \in Streamed : x \in Streamed \/ x.type = "MessageStop"
  OBVIOUS
<1>3. PICK g : CapturedRun(none, Captures, g)
  BY <1>1, <1>2, CapturedSteps
<1>4. Captured(none) = [text |-> <<>>, calls |-> <<>>]
  BY <1>1, <1>3 DEF CapturedRun
<1>5. StartEvent \in Streamed
  BY DEF StartEvent, Streamed
<1>6. Captured(Append(none, StartEvent)) = SinkSend(Captured(none), StartEvent)
  BY <1>1, <1>5, OneMore
<1>7. SinkSend(Captured(none), StartEvent) = Captured(none)
  BY DEF SinkSend, StartEvent
<1>8. Append(none, StartEvent) = <<StartEvent>>
  BY <1>1
<1> QED
  BY <1>1, <1>4, <1>6, <1>7, <1>8, Zenon

\* The invariant holds at the start.
LEMMA InitHolds == StreamInit => StreamInv
<1> SUFFICES ASSUME StreamInit PROVE StreamInv
  OBVIOUS
<1>1. adapter \in Apis
  BY ServerAssumption DEF StreamInit, Apis
<1>2. PICK none : none = <<>> /\ Len(none) = 0 /\ \A V : none \in Seq(V)
  <2>1. Len(<<>>) = 0 /\ \A V : <<>> \in Seq(V)
    OBVIOUS
  <2> QED
    BY <2>1, Zenon
<1>3. /\ said.text = none /\ said.blocks = none /\ said.stop = "Stop"
      /\ said = [text |-> none, blocks |-> none, stop |-> "Stop"]
  BY <1>2 DEF StreamInit
<1>4. said \in Described /\ CallsOnly(said)
  <2>1. said \in [text : Seq(Texts), blocks : Seq(SaidBlock), stop : {"Stop", "ToolUse"}]
    BY <1>2, <1>3
  <2>2. \A i \in 1 .. Len(said.blocks) : FALSE
    BY <1>2, <1>3
  <2> QED
    BY <2>1, <2>2 DEF Described, CallsOnly
<1>5. /\ asm = [text |-> none, buffers |-> none, stop |-> "Stop"]
      /\ asm.text = none /\ asm.buffers = none /\ asm.stop = "Stop"
      /\ sent = none /\ wire = none
      /\ parser.rest = none /\ parser.name = Empty /\ parser.data = none
  BY <1>2 DEF StreamInit
<1>6. Connection = [rest |-> none, name |-> Empty, data |-> none, asm |-> asm, sent |-> none]
  BY <1>5 DEF Connection
<1>7. Connection \in States(0)
  <2>1. none \in Buffers(0)
    <3>1. none \in Seq(Buffer) /\ Len(none) <= 0 /\ \A i \in 1 .. Len(none) : FALSE
      BY <1>2
    <3> QED
      BY <3>1 DEF Buffers
  <2>2. asm \in Assembled(0)
    BY <1>2, <1>5, <2>1 DEF Assembled, Stops
  <2> QED
    BY <1>2, <1>6, <2>2 DEF States, Names
<1>8. Typed
  <2>1. Len(said.blocks) = 0
    BY <1>2, <1>3
  <2> QED
    BY <1>2, <1>5, <1>7, <2>1 DEF Typed
<1>9. Spoken
  <2> SUFFICES ASSUME NEW p \in Nat
               PROVE  Follows(Held(adapter, p, Connection) \o Flow(p, wire), Told(p, said))
    BY DEF Spoken
  <2>1. Got(p, asm) = none
    BY <1>2, <1>5 DEF Got
  <2>2. Waiting(adapter, p, none) = none
    BY <1>2 DEF Waiting
  <2>3. PartOf(p, Payload(none)) = none
    <3>1. Payload(none) = Garbled
      BY <1>2 DEF Payload
    <3> QED
      BY <1>2, <3>1, GarbledBrings
  <2>4. Flow(p, wire) = none
    BY <1>2, <1>5, FlowNone
  <2>5. none \o none = none
    BY <1>2
  <2>6. Held(adapter, p, Connection) = none
    BY <1>6, <2>1, <2>2, <2>3, <2>5 DEF Held
  <2>7. Told(p, said) = none
    BY <1>2, <1>3 DEF Told
  <2>8. Follows(none, none)
    BY <1>2, FollowsItself
  <2> QED
    BY <2>4, <2>5, <2>6, <2>7, <2>8
<1>10. Whole
  <2>1. Reading(adapter, Connection, wire) = Connection
    BY <1>2, <1>5, <1>7, ReadingNone
  <2>2. Connection = Clean(asm, sent)
    BY <1>2, <1>5, <1>6 DEF Clean
  <2>3. Captured(sent).text = none /\ Captured(sent).calls = none
    BY <1>2, <1>5, NoneCaptured
  <2>4. Alike(adapter, none, none, none)
    <3>1. none \in Seq(SaidBlock) /\ none \in Seq(Call) /\ \A i \in 1 .. Len(none) : FALSE
      BY <1>2
    <3>2. CallOf(none) \in Seq(Call) /\ Len(CallOf(none)) = 0
      BY <1>2, <3>1, CallOfIs
    <3>3. CallOf(none) = none
      BY <1>2, <3>2
    <3>4. Chosen(CallOf(none), Begun(none, none)) = none
      BY <1>2, <3>2, <3>3, ChosenNone
    <3> QED
      BY <1>2, <3>1, <3>3, <3>4 DEF Alike
  <2>5. Same(adapter, said, asm, sent)
    BY <1>3, <1>5, <2>3, <2>4 DEF Same
  <2>6. Matches(adapter, said, Clean(asm, sent))
    BY <2>5, SameIs
  <2> QED
    BY <2>1, <2>2, <2>6 DEF Whole
<1>11. outcome = "running"
  BY DEF StreamInit
<1>12. Running
  BY <1>2, <1>5, <1>8, <1>9, <1>10 DEF Running
<1> QED
  BY <1>1, <1>4, <1>11, <1>12 DEF StreamInv

\* A response that ends without MessageStop says nothing.
LEMMA NotStopped ==
  ASSUME StreamInv, adapter' = adapter, said' = said, outcome' \in {"ok", "err"}, ~Stopped'
  PROVE  StreamInv'
BY DEF StreamInv, FinalIsWhatWasSaid, CallsOnly

\* The request sent preserves it.
LEMMA RespondStep == ASSUME StreamInv, Respond PROVE StreamInv'
<1>1. /\ outcome = "running" /\ sent = <<>> /\ adapter' = adapter /\ said' = said /\ wire' = wire
      /\ lossy' = lossy /\ parser' = parser /\ asm' = asm
  BY DEF Respond, server
<1>2. ASSUME NEW s \in Statuses, sent' = <<[type |-> "Error", kind |-> ErrorKind(s)]>>, outcome' = "ok"
      PROVE  StreamInv'
  <2>1. PICK e : e = [type |-> "Error", kind |-> ErrorKind(s)]
    OBVIOUS
  <2>2. sent' = <<e>> /\ e.type = "Error"
    BY <1>2, <2>1
  <2>3. Last(sent') = e
    BY <2>2 DEF Last
  <2>4. ~Stopped'
    BY <2>2, <2>3 DEF Stopped
  <2> QED
    BY <1>1, <1>2, <2>4, NotStopped
<1>3. ASSUME outcome' = "err", sent' = sent PROVE StreamInv'
  <2>1. ~Stopped'
    BY <1>1, <1>3 DEF Stopped
  <2> QED
    BY <1>1, <1>3, <2>1, NotStopped
<1>4. ASSUME sent' = <<StartEvent>>, outcome' = outcome PROVE StreamInv'
  <2>1. PICK n \in Nat : n = Len(said.blocks)
    BY DescribedIs DEF StreamInv
  <2>2. PICK st : st = Connection
    OBVIOUS
  <2>3. /\ st \in States(n) /\ wire \in Seq(Symbols(n)) /\ wire = <<>>
        /\ Spoken /\ Whole /\ adapter \in Apis
    BY <1>1, <2>1, <2>2 DEF StreamInv, Running, Typed
  <2>4. PICK c, one : c = Connection' /\ one = <<StartEvent>>
    OBVIOUS
  <2>5. /\ c = [rest |-> st.rest, name |-> st.name, data |-> st.data, asm |-> st.asm, sent |-> one]
        /\ st.sent = <<>> /\ st.asm = asm
    BY <1>1, <1>4, <2>2, <2>4 DEF Connection
  <2>6. one \in Seq(Streamed) /\ one # <<>>
    BY <2>4 DEF StartEvent, Streamed
  <2>7. c \in States(n)
    <3>1. c = With(st, st.asm, one)
      BY <2>5 DEF With
    <3> QED
      BY <2>3, <2>6, <3>1, StateParts, WithIs
  <2>8. Typed'
    BY <1>1, <2>1, <2>3, <2>4, <2>7 DEF Typed
  <2>9. Spoken'
    <3>1. \A p : Held(adapter, p, c) = Held(adapter, p, st)
      BY <2>5 DEF Held
    <3>2. \A p \in Nat : Follows(Held(adapter, p, st) \o Flow(p, wire), Told(p, said))
      BY <2>2, <2>3 DEF Spoken
    <3>3. \A p \in Nat : Follows(Held(adapter, p, c) \o Flow(p, wire), Told(p, said))
      BY <3>1, <3>2
    <3>4. \A p \in Nat : Follows(Held(adapter', p, Connection') \o Flow(p, wire'), Told(p, said'))
      BY <1>1, <2>4, <3>3
    <3> QED
      BY <3>4 DEF Spoken
  <2>10. ASSUME ~lossy PROVE Matches(adapter, said, Reading(adapter, c, wire))
    <3>1. Matches(adapter, said, Reading(adapter, st, wire))
      BY <2>2, <2>3, <2>10 DEF Whole
    <3>2. Reading(adapter, st, wire) = st /\ Reading(adapter, c, wire) = c
      BY <2>3, <2>7, ReadingNone
    <3>3. st = Clean(st.asm, st.sent) /\ Same(adapter, said, st.asm, st.sent)
      BY <3>1, <3>2, SameIs DEF Matches
    <3>4. Captured(one) = Captured(st.sent)
      BY <2>4, <2>5, NoneCaptured
    <3>5. Same(adapter, said, st.asm, one)
      BY <3>3, <3>4 DEF Same
    <3>6. c = Clean(st.asm, one)
      <4>1. st.rest = <<>> /\ st.name = Empty /\ st.data = <<>>
        BY <3>3 DEF Clean
      <4> QED
        BY <2>5, <4>1 DEF Clean
    <3>7. Matches(adapter, said, Clean(st.asm, one))
      BY <3>5, SameIs
    <3> QED
      BY <3>2, <3>6, <3>7
  <2>11. Whole'
    BY <1>1, <2>4, <2>10 DEF Whole
  <2>12. Running'
    BY <1>1, <2>3, <2>8, <2>9, <2>11 DEF Running
  <2> QED
    BY <1>1, <1>4, <2>12 DEF StreamInv, CallsOnly
<1> QED
  BY <1>2, <1>3, <1>4 DEF Respond


\* The server closing the connection preserves it.
LEMMA ClosesStep == ASSUME StreamInv, ServerCloses PROVE StreamInv'
<1>1. /\ adapter' = adapter /\ said' = said /\ outcome' = outcome /\ sent' = sent /\ wire' = wire
      /\ lossy' = lossy /\ parser' = parser /\ asm' = asm
  BY DEF ServerCloses, client
<1>2. Connection' = Connection
  BY <1>1 DEF Connection
<1>3. Running => Running'
  BY <1>1, <1>2 DEF Running, Typed, Spoken, Whole
<1>4. FinalIsWhatWasSaid => FinalIsWhatWasSaid'
  BY <1>1 DEF FinalIsWhatWasSaid, Stopped, Response, SaidCalls, Sink
<1> QED
  BY <1>1, <1>3, <1>4 DEF StreamInv, CallsOnly

\* What was sent to the sink stays sent.
LEMMA WithSent ==
  ASSUME NEW st, NEW a, NEW s PROVE With(st, a, s).sent = s
BY DEF With

\* Decoding takes nothing back that was sent to the sink.
LEMMA DecodeSends ==
  ASSUME NEW n \in Nat, NEW api, NEW st \in States(n), NEW name \in Names,
         NEW e \in Events(n), st.sent # <<>>
  PROVE  TextDelta(st, e.text).sent # <<>> /\ DecodeAnthropic(st, name, e).sent # <<>>
         /\ DecodeOpenAi(st, e).sent # <<>>
<1>1. st.sent \in Seq(Streamed) /\ \A d \in Streamed : Append(st.sent, d) # <<>>
  <2>1. st.sent \in Seq(Streamed)
    BY StateParts
  <2>2. PICK s : s = st.sent
    OBVIOUS
  <2>3. ASSUME NEW d \in Streamed PROVE Append(s, d) # <<>>
    <3>1. Append(s, d)[Len(s) + 1] = d /\ Len(Append(s, d)) = Len(s) + 1 /\ Len(s) \in Nat
      BY <2>1, <2>2
    <3> QED
      BY <3>1
  <2> QED
    BY <2>1, <2>2, <2>3
<1>2. \A a : With(st, a, st.sent).sent # <<>>
  BY WithSent
<1>3. \A a, d : d \in Streamed => With(st, a, Append(st.sent, d)).sent # <<>>
  BY <1>1, WithSent, ZenonT(60)
<1>4. ASSUME NEW t \in Texts \cup {Empty} PROVE TextDelta(st, t).sent # <<>>
  <2>1. CASE t = Empty
    BY <2>1 DEF TextDelta
  <2>2. CASE t # Empty
    <3>1. PICK d : d = [type |-> "ContentDelta", text |-> t]
      OBVIOUS
    <3>2. d \in Streamed
      BY <2>2, <3>1 DEF Streamed, TextDeltas
    <3>3. PICK a : TextDelta(st, t) = With(st, a, Append(st.sent, d))
      BY <2>2, <3>1, TextDeltaIs
    <3> QED
      BY <1>3, <3>2, <3>3
  <2> QED
    BY <2>1, <2>2
<1>5. BlockStart(st, e).sent # <<>>
  <2>1. PICK g : g = Grown(st.asm.buffers, e.index)
    OBVIOUS
  <2>2. PICK b : b = IF e.type = "tool_use"
                     THEN [g EXCEPT ![e.index] = [id |-> e.id, marker |-> TRUE, args |-> <<>>]]
                     ELSE g
    OBVIOUS
  <2>3. BlockStart(st, e) = With(st, Buffered(st.asm, b), st.sent)
    BY <2>1, <2>2, BlockStartIs, Zenon
  <2> QED
    BY <1>2, <2>3
<1>6. ASSUME e.type = "input_json_delta" PROVE ArgsDelta(st, e).sent # <<>>
  <2>1. ArgsDelta(st, e) \in States(n)
    BY <1>6, ArgsDeltaIs
  <2>2. CASE e.index > Len(st.asm.buffers)
    BY <2>2 DEF ArgsDelta
  <2>3. CASE ~(e.index > Len(st.asm.buffers))
    <3>1. PICK b, i, v, d : /\ b = st.asm.buffers /\ i = e.index
                            /\ v = [id |-> NoId, marker |-> FALSE, args |-> b[i].args \o Fragment(e.args)]
                            /\ d = Delta(IF b[i].marker THEN b[i].id ELSE NoId, e.args)
      OBVIOUS
    <3>2. /\ ArgsDelta(st, e) = IF i > Len(b) THEN st
                  ELSE With(st, Buffered(st.asm, [b EXCEPT ![i] = v]), Append(st.sent, d))
          /\ i \in 1 .. n /\ i <= Len(b) => [b EXCEPT ![i] = v] \in Buffers(n) /\ d \in Streamed
      BY <1>6, <3>1, ArgsDeltaIs
    <3>3. i \in 1 .. n /\ Len(b) \in Nat
      BY <1>6, <3>1, StateParts DEF Events
    <3>4. i <= Len(b) /\ ~(i > Len(b))
      BY <2>3, <3>1, <3>3
    <3> QED
      BY <1>3, <3>2, <3>3, <3>4
  <2> QED
    BY <2>2, <2>3
<1>7. ASSUME NEW c \in Entries(n) PROVE CallDelta(st, c).sent # <<>>
  <2>1. PICK i, f, g : i = c.index /\ f = c.args /\ g = Grown(st.asm.buffers, i)
    OBVIOUS
  <2>2. PICK id : id = IF c.id = NoId THEN g[i].id ELSE c.id
    OBVIOUS
  <2>3. PICK v : v = [id |-> id, marker |-> g[i].marker, args |-> g[i].args \o Fragment(f)]
    OBVIOUS
  <2>4. EntryHas(st, c, i, f, g, id, v)
    BY <2>1, <2>2, <2>3, EntryIs
  <2> QED
    BY <1>1, <2>4 DEF EntryHas
<1>8. ASSUME NEW s \in Stops PROVE [st EXCEPT !.asm.stop = s].sent # <<>>
  BY <1>2, SetStop
<1>9. e.text \in Texts \cup {Empty} /\ e.stop \in Stops /\ (e.calls # <<>> => Head(e.calls) \in Entries(n))
  BY EventIs
<1>10. TextDelta(st, e.text).sent # <<>>
  BY <1>4, <1>9
<1>11. DecodeAnthropic(st, name, e).sent # <<>>
  BY <1>5, <1>6, <1>8, <1>9, <1>10 DEF DecodeAnthropic
<1>12. DecodeOpenAi(st, e).sent # <<>>
  BY <1>7, <1>8, <1>9, <1>10 DEF DecodeOpenAi
<1> QED
  BY <1>10, <1>11, <1>12

\* Nor does a symbol read.
LEMMA ReadSends ==
  ASSUME NEW n \in Nat, NEW api, NEW st \in States(n), NEW x \in Symbols(n), st.sent # <<>>
  PROVE  Read(api, st, x).sent # <<>>
<1>1. /\ st.rest \in Seq(Symbols(n)) /\ st.name \in Names /\ st.data \in Seq(Events(n))
      /\ Payload(st.rest) \in Events(n)
  BY StateParts, PayloadIs
<1>2. TakeJsonLine(st, st.rest).sent # <<>>
  BY <1>1, DecodeSends DEF TakeJsonLine
<1>3. Decode(api, st, st.name, st.data).sent # <<>>
  <2>1. CASE Len(st.data) # 1 \/ Head(st.data) = Garbled
    BY <2>1 DEF Decode
  <2>2. CASE ~(Len(st.data) # 1 \/ Head(st.data) = Garbled)
    <3>1. Head(st.data) \in Events(n)
      BY <1>1, <2>2
    <3> QED
      BY <1>1, <2>2, <3>1, DecodeSends DEF Decode
  <2> QED
    BY <2>1, <2>2
<1>4. TakeSseLine(api, st, st.rest).sent # <<>>
  <2>1. PICK d \in States(n) : d = Decode(api, st, st.name, st.data)
    BY <1>1, DecodeTyped
  <2>2. [d EXCEPT !.name = Empty, !.data = <<>>].sent = d.sent
    BY DEF States
  <2>3. \A v, w : [st EXCEPT !.name = v].sent = st.sent /\ [st EXCEPT !.data = w].sent = st.sent
    BY DEF States
  <2> QED
    BY <1>3, <2>1, <2>2, <2>3 DEF TakeSseLine
<1>5. PICK t \in States(n) : t = TakeLine(api, st, st.rest)
  BY <1>1, TakeLineTyped
<1>6. t.sent # <<>>
  BY <1>2, <1>4, <1>5 DEF TakeLine
<1>7. [t EXCEPT !.rest = <<>>].sent = t.sent /\ \A v : [st EXCEPT !.rest = v].sent = st.sent
  BY DEF States
<1> QED
  BY <1>5, <1>6, <1>7 DEF Read

\* Nor do any number of them.
LEMMA ReadingSends ==
  ASSUME NEW n \in Nat, NEW api, NEW st \in States(n), NEW s \in Seq(Symbols(n)), st.sent # <<>>
  PROVE  Reading(api, st, s).sent # <<>>
<1> DEFINE W == {u \in Seq(Symbols(n)) : Reading(api, st, u).sent # <<>>}
<1>1. <<>> \in W
  <2>1. <<>> \in Seq(Symbols(n)) /\ Reading(api, st, <<>>) = st
    BY ReadingNone
  <2> QED
    BY <2>1
<1>2. ASSUME NEW u \in Seq(Symbols(n)), NEW x \in Symbols(n), u \in W PROVE Append(u, x) \in W
  <2>1. PICK t \in States(n) : t = Reading(api, st, u)
    BY ReadingTyped
  <2>2. Reading(api, st, Append(u, x)) = Read(api, t, x)
    BY <2>1, ReadingAppend
  <2>3. Read(api, t, x).sent # <<>>
    BY <1>2, <2>1, ReadSends
  <2>4. Append(u, x) \in Seq(Symbols(n))
    OBVIOUS
  <2> QED
    BY <2>2, <2>3, <2>4
<1>3. s \in W
  <2> HIDE DEF W
  <2>1. Seq(Symbols(n)) \subseteq W
    BY <1>1, <1>2, SequencesGrow
  <2> QED
    BY <2>1
<1> QED
  BY <1>3

\* Until it ends, the response is not complete.
LEMMA FailStep ==
  ASSUME StreamInv, Streaming, adapter' = adapter, said' = said, outcome' = "err", sent' = sent
  PROVE  StreamInv'
<1>1. Connection \in States(Len(said.blocks)) /\ Len(said.blocks) \in Nat
  BY DescribedIs DEF StreamInv, Streaming, Running, Typed
<1>2. Connection.sent \in Seq(Streamed)
  BY <1>1, StateParts
<1>3. sent \in Seq(Streamed) /\ sent # <<>>
  BY <1>2 DEF Connection, Streaming
<1>4. Last(sent) \in Streamed
  BY <1>3 DEF Last
<1>5. Last(sent).type # "MessageStop"
  BY <1>4 DEF Streamed, TextDeltas, CallDeltas
<1>6. ~Stopped'
  BY <1>5 DEF Stopped
<1> QED
  BY <1>6, NotStopped

\* The wire cut in two is the two pieces joined.
LEMMA WireCut ==
  ASSUME NEW V, NEW w \in Seq(V), NEW n \in 1 .. Len(w)
  PROVE  /\ SubSeq(w, 1, n) \in Seq(V) /\ SubSeq(w, n + 1, Len(w)) \in Seq(V)
         /\ w = SubSeq(w, 1, n) \o SubSeq(w, n + 1, Len(w))
<1>1. n \in Nat /\ Len(w) \in Nat /\ n <= Len(w) /\ n >= 1
  OBVIOUS
<1>2. PICK a, b : a = SubSeq(w, 1, n) /\ b = SubSeq(w, n + 1, Len(w))
  OBVIOUS
<1>3. /\ a \in Seq(V) /\ Len(a) = n /\ \A i \in 1 .. n : a[i] = w[i]
  BY <1>1, <1>2
<1>4. b \in Seq(V) /\ Len(b) = Len(w) - n /\ \A i \in 1 .. Len(w) - n : b[i] = w[n + i]
  BY <1>1, <1>2
<1>5. a \o b \in Seq(V) /\ Len(a \o b) = Len(w)
  BY <1>1, <1>3, <1>4
<1>6. ASSUME NEW i \in 1 .. Len(w) PROVE (a \o b)[i] = w[i]
  <2>1. CASE i <= n
    <3>1. i \in 1 .. n
      BY <1>1, <2>1
    <3>2. (a \o b)[i] = a[i]
      BY <1>1, <1>3, <1>4, <3>1
    <3> QED
      BY <1>3, <3>1, <3>2
  <2>2. CASE i > n
    <3>1. i - n \in 1 .. Len(w) - n /\ n + (i - n) = i
      BY <1>1, <2>2
    <3>2. (a \o b)[i] = b[i - n]
      BY <1>1, <1>3, <1>4, <2>2
    <3> QED
      BY <1>4, <3>1, <3>2
  <2>3. i <= n \/ i > n
    BY <1>1
  <2> QED
    BY <2>1, <2>2, <2>3, Zenon
<1> QED
  BY <1>2, <1>3, <1>4, <1>5, <1>6

\* A chunk of any size received preserves the invariant.
LEMMA ReceiveStep == ASSUME StreamInv, Receive PROVE StreamInv'
<1>1. PICK n \in Nat : n = Len(said.blocks)
  BY DescribedIs DEF StreamInv
<1>2. PICK st : st = Connection
  OBVIOUS
<1>3. /\ st \in States(n) /\ wire \in Seq(Symbols(n)) /\ Spoken /\ Whole /\ adapter \in Apis
      /\ said \in Described /\ sent # <<>> /\ st.sent = sent /\ outcome = "running"
  BY <1>1, <1>2 DEF StreamInv, Running, Typed, Receive, Streaming, Connection
<1>4. PICK k \in 1 .. Len(wire) :
        /\ wire' = SubSeq(wire, k + 1, Len(wire))
        /\ IF CutsCharacter(SubSeq(wire, 1, k)) THEN ReceiveCut(SubSeq(wire, 1, k))
                                                ELSE ReceiveWhole(SubSeq(wire, 1, k))
  BY DEF Receive
<1>5. PICK chunk, rest : chunk = SubSeq(wire, 1, k) /\ rest = SubSeq(wire, k + 1, Len(wire))
  OBVIOUS
<1>6. chunk \in Seq(Symbols(n)) /\ rest \in Seq(Symbols(n)) /\ wire = chunk \o rest /\ wire' = rest
  BY <1>3, <1>4, <1>5, WireCut
<1>7. ASSUME NEW p \in Nat
      PROVE  LET h == Held(adapter, p, st)
                 a == Flow(p, chunk)
                 b == Flow(p, rest)
             IN  /\ h \in Seq(Pieces) /\ a \in Seq(Pieces) /\ b \in Seq(Pieces)
                 /\ Follows(h \o (a \o b), Told(p, said)) /\ Told(p, said) \in Seq(Pieces)
  <2>1. Flow(p, wire) = Flow(p, chunk) \o Flow(p, rest)
    BY <1>6, FlowJoined
  <2>2. Follows(Held(adapter, p, st) \o Flow(p, wire), Told(p, said))
    BY <1>2, <1>3 DEF Spoken
  <2> QED
    BY <1>3, <1>6, <2>1, <2>2, HeldIs, FlowTyped, ToldIs
<1>8. ASSUME ReceiveWhole(chunk) PROVE StreamInv'
  <2>1. PICK t \in States(n) : t = Reading(adapter, st, chunk)
    BY <1>3, <1>6, ReadingTyped
  <2>2. /\ adapter' = adapter /\ said' = said /\ lossy' = lossy /\ outcome' = outcome
        /\ sent' = t.sent /\ asm' = t.asm
        /\ parser' = [rest |-> t.rest, name |-> t.name, data |-> t.data]
    BY <1>2, <1>8, <2>1 DEF ReceiveWhole
  <2>3. Connection' = t
    <3>1. Connection' = [rest |-> t.rest, name |-> t.name, data |-> t.data, asm |-> t.asm, sent |-> t.sent]
      BY <2>2 DEF Connection
    <3>2. t = [rest |-> t.rest, name |-> t.name, data |-> t.data, asm |-> t.asm, sent |-> t.sent]
      BY DEF States
    <3> QED
      BY <3>1, <3>2
  <2>4. sent' # <<>>
    BY <1>3, <1>6, <2>1, <2>2, ReadingSends
  <2>5. Typed'
    BY <1>1, <1>6, <2>2, <2>3 DEF Typed
  <2>6. ASSUME NEW p \in Nat PROVE Follows(Held(adapter, p, t) \o Flow(p, rest), Told(p, said))
    <3>1. PICK h, a, b, c, w : /\ h = Held(adapter, p, st) /\ a = Flow(p, chunk) /\ b = Flow(p, rest)
                               /\ c = Held(adapter, p, t) /\ w = Told(p, said)
      OBVIOUS
    <3>2. /\ h \in Seq(Pieces) /\ a \in Seq(Pieces) /\ b \in Seq(Pieces) /\ c \in Seq(Pieces)
          /\ w \in Seq(Pieces) /\ Follows(h \o (a \o b), w)
      BY <1>7, <3>1, HeldIs
    <3>3. Follows(c, h \o a) /\ Follows(b, b)
      BY <1>3, <1>6, <2>1, <3>1, <3>2, ReadingFollows, FollowsItself
    <3>4. h \o a \in Seq(Pieces) /\ c \o b \in Seq(Pieces) /\ (h \o a) \o b \in Seq(Pieces)
          /\ (h \o a) \o b = h \o (a \o b)
      BY <3>2
    <3>5. Follows(c \o b, (h \o a) \o b)
      BY <3>2, <3>3, <3>4, FollowsJoined
    <3>6. Follows(c \o b, w)
      BY <3>2, <3>4, <3>5, FollowsThrough
    <3> QED
      BY <3>1, <3>6
  <2>7. Spoken'
    <3>1. \A p \in Nat : Follows(Held(adapter', p, Connection') \o Flow(p, wire'), Told(p, said'))
      BY <1>6, <2>2, <2>3, <2>6
    <3> QED
      BY <3>1 DEF Spoken
  <2>8. Whole'
    <3>1. ~lossy => Matches(adapter, said, Reading(adapter, st, wire))
      BY <1>2, <1>3 DEF Whole
    <3>2. Reading(adapter, st, wire) = Reading(adapter, t, rest)
      BY <1>3, <1>6, <2>1, ReadingJoined
    <3>3. ~lossy => Matches(adapter, said, Reading(adapter, t, rest))
      BY <3>1, <3>2
    <3> QED
      BY <1>6, <2>2, <2>3, <3>3 DEF Whole
  <2>9. Running'
    BY <2>4, <2>5, <2>7, <2>8 DEF Running
  <2> QED
    BY <1>3, <2>2, <2>9 DEF StreamInv, CallsOnly
<1>9. ASSUME ReceiveCut(chunk), adapter = "ollama" PROVE StreamInv'
  <2>1. adapter' = adapter /\ said' = said /\ outcome' = "err" /\ sent' = sent
    BY <1>9 DEF ReceiveCut, Fail
  <2> QED
    BY <2>1, FailStep DEF Receive
<1>10. ASSUME ReceiveCut(chunk), adapter # "ollama" PROVE StreamInv'
  <2>1. /\ adapter' = adapter /\ said' = said /\ outcome' = outcome /\ sent' = sent
        /\ lossy' = TRUE /\ parser' = parser /\ asm' = asm
    BY <1>10 DEF ReceiveCut, client
  <2>2. Connection' = st
    BY <1>2, <2>1 DEF Connection
  <2>3. Typed'
    BY <1>1, <1>3, <1>6, <2>1, <2>2 DEF Typed
  <2>4. ASSUME NEW p \in Nat PROVE Follows(Held(adapter, p, st) \o Flow(p, rest), Told(p, said))
    <3>1. PICK h, a, b, w : /\ h = Held(adapter, p, st) /\ a = Flow(p, chunk) /\ b = Flow(p, rest)
                            /\ w = Told(p, said)
      OBVIOUS
    <3>2. /\ h \in Seq(Pieces) /\ a \in Seq(Pieces) /\ b \in Seq(Pieces)
          /\ w \in Seq(Pieces) /\ Follows(h \o (a \o b), w)
      BY <1>7, <3>1
    <3>3. Follows(b, b) /\ Follows(h, h)
      BY <3>2, FollowsItself
    <3>4. Follows(b, a \o b)
      BY <3>2, <3>3, FollowsEnds
    <3>5. a \o b \in Seq(Pieces) /\ h \o b \in Seq(Pieces) /\ h \o (a \o b) \in Seq(Pieces)
      BY <3>2
    <3>6. Follows(h \o b, h \o (a \o b))
      BY <3>2, <3>3, <3>4, <3>5, FollowsJoined
    <3>7. Follows(h \o b, w)
      BY <3>2, <3>5, <3>6, FollowsThrough
    <3> QED
      BY <3>1, <3>7
  <2>5. Spoken'
    <3>1. \A p \in Nat : Follows(Held(adapter', p, Connection') \o Flow(p, wire'), Told(p, said'))
      BY <1>6, <2>1, <2>2, <2>4
    <3> QED
      BY <3>1 DEF Spoken
  <2>6. Running'
    BY <1>3, <2>1, <2>3, <2>5 DEF Running, Whole
  <2> QED
    BY <1>3, <2>1, <2>6 DEF StreamInv, CallsOnly
<1> QED
  BY <1>4, <1>5, <1>8, <1>9, <1>10

\* A connection that breaks preserves it.
LEMMA BrokenStep == ASSUME StreamInv, TransportError PROVE StreamInv'
BY FailStep DEF TransportError, Fail

-----------------------------------------------------------------------------
(* The end of the response. *)

\* Arguments, those that are none, and those of a sequence of calls.
Args == Seq(Frags \cup {"__id__"})
NoArgs == {<<>>, <<"__id__">>}
ArgsIn(calls) == [i \in 1 .. Len(calls) |-> calls[i].args]
There(args) == {i \in 1 .. Len(args) : args[i] \notin NoArgs}
HaveArgs(V) == \A v \in V : v.args \in Args

\* The arguments of calls, in their order.
LEMMA ArgsInIs ==
  ASSUME NEW V, HaveArgs(V), NEW s \in Seq(V)
  PROVE  /\ ArgsIn(s) \in Seq(Args) /\ Len(ArgsIn(s)) = Len(s)
         /\ \A i \in 1 .. Len(s) : ArgsIn(s)[i] = s[i].args
         /\ ArgsOf(s) = Chosen(ArgsIn(s), There(ArgsIn(s)))
<1>1. PICK n \in Nat : n = Len(s) /\ DOMAIN s = 1 .. n
  OBVIOUS
<1>2. PICK a : a = ArgsIn(s)
  OBVIOUS
<1>3. a = [i \in 1 .. n |-> s[i].args] /\ \A i \in 1 .. n : s[i].args \in Args
  BY <1>1, <1>2 DEF ArgsIn, HaveArgs
<1>4. a \in Seq(Args) /\ Len(a) = n /\ DOMAIN a = 1 .. n /\ \A i \in 1 .. n : a[i] = s[i].args
  BY <1>3
<1>5. ArgsOf(s) = Chosen(a, {i \in DOMAIN a : a[i] \notin {<<>>, <<"__id__">>}})
  BY <1>1, <1>3 DEF ArgsOf
<1>6. There(a) = {i \in DOMAIN a : a[i] \notin {<<>>, <<"__id__">>}}
  BY <1>4 DEF There, NoArgs
<1> QED
  BY <1>1, <1>2, <1>4, <1>5, <1>6

\* The arguments of one call more.
LEMMA ArgsAppend ==
  ASSUME NEW V, HaveArgs(V), NEW s \in Seq(V), NEW x \in V
  PROVE  ArgsOf(Append(s, x)) = IF x.args \notin NoArgs THEN Append(ArgsOf(s), x.args)
                                                        ELSE ArgsOf(s)
<1>1. PICK n \in Nat : n = Len(s)
  OBVIOUS
<1>2. PICK t, y, a, b, c : /\ t = Append(s, x) /\ y = x.args /\ a = ArgsIn(s) /\ b = ArgsIn(t)
                           /\ c = Append(a, y)
  OBVIOUS
<1>3. t \in Seq(V) /\ Len(t) = n + 1 /\ t[n + 1] = x /\ \A i \in 1 .. n : t[i] = s[i]
  BY <1>1, <1>2
<1>4. /\ a \in Seq(Args) /\ Len(a) = n /\ \A i \in 1 .. n : a[i] = s[i].args
      /\ b \in Seq(Args) /\ Len(b) = n + 1 /\ \A i \in 1 .. n + 1 : b[i] = t[i].args
      /\ ArgsOf(s) = Chosen(a, There(a)) /\ ArgsOf(t) = Chosen(b, There(b))
  BY <1>1, <1>2, <1>3, ArgsInIs
<1>5. y \in Args
  BY <1>2 DEF HaveArgs
<1>6. c \in Seq(Args) /\ Len(c) = n + 1 /\ c[n + 1] = y /\ \A i \in 1 .. n : c[i] = a[i]
  BY <1>2, <1>4, <1>5
<1>7. \A i \in 1 .. n + 1 : i \in 1 .. n \/ i = n + 1
  OBVIOUS
<1>8. \A i \in 1 .. n : i \in 1 .. n + 1
  OBVIOUS
<1>9. \A i \in 1 .. n + 1 : b[i] = c[i]
  BY <1>2, <1>3, <1>4, <1>6, <1>7, <1>8
<1>10. b = c
  BY <1>4, <1>6, <1>9
<1>11. Chosen(c, There(b)) = IF n + 1 \in There(b) THEN Append(Chosen(a, There(b)), y)
                                                  ELSE Chosen(a, There(b))
  <2>1. PICK J : J = There(b)
    OBVIOUS
  <2>2. a \in Seq(Args) /\ Len(a) = n
    BY <1>4
  <2>3. Chosen(Append(a, y), J) = IF Len(a) + 1 \in J THEN Append(Chosen(a, J), y) ELSE Chosen(a, J)
    BY <1>5, <2>2, ChosenAppend
  <2> QED
    BY <1>2, <2>1, <2>2, <2>3
<1>12. Chosen(a, There(b)) = Chosen(a, There(a))
  <2>1. \A i \in 1 .. n : i \in There(b) <=> i \in There(a)
    BY <1>4, <1>6, <1>8, <1>10 DEF There
  <2> QED
    BY <1>4, <2>1, ChosenSame
<1>13. n + 1 \in There(b) <=> y \notin NoArgs
  <2>1. n + 1 \in 1 .. n + 1
    OBVIOUS
  <2> QED
    BY <1>4, <1>6, <1>10, <2>1 DEF There
<1> QED
  BY <1>2, <1>4, <1>10, <1>11, <1>12, <1>13

\* u is the arguments of s, where s is left out of I it has none.
Agrees(s, I, u) ==
  \A i \in 1 .. Len(s) :
    IF i \in I THEN s[i].args = u[i] \/ (s[i].args \in NoArgs /\ u[i] \in NoArgs)
               ELSE u[i] \in NoArgs

\* The arguments of the calls chosen are those chosen of the arguments.
LEMMA ArgsChosen ==
  ASSUME NEW V, HaveArgs(V), NEW s \in Seq(V), NEW I, NEW u \in Seq(Args), Len(u) = Len(s),
         Agrees(s, I, u)
  PROVE  ArgsOf(Chosen(s, I)) = Chosen(u, There(u))
<1>1. PICK n \in Nat : n = Len(s) /\ Len(u) = n
  OBVIOUS
<1>2. PICK g : ChosenRun(s, I, Seq(V), g)
  BY ChosenSteps
<1>3. PICK h : ChosenRun(u, There(u), Seq(Args), h)
  BY ChosenSteps
<1>4. /\ g \in [0 .. n -> Seq(V)] /\ Chosen(s, I) = g[n] /\ g[0] = <<>>
      /\ \A k \in 1 .. n : g[k] = IF k \in I THEN Append(g[k - 1], s[k]) ELSE g[k - 1]
  BY <1>1, <1>2 DEF ChosenRun
<1>5. /\ Chosen(u, There(u)) = h[n] /\ h[0] = <<>>
      /\ \A k \in 1 .. n : h[k] = IF k \in There(u) THEN Append(h[k - 1], u[k]) ELSE h[k - 1]
  BY <1>1, <1>3 DEF ChosenRun
<1> DEFINE T == {k \in 0 .. n : ArgsOf(g[k]) = h[k]}
<1>6. 0 \in T
  <2>1. PICK none : none = <<>> /\ none \in Seq(V) /\ Len(none) = 0
    <3>1. <<>> \in Seq(V) /\ Len(<<>>) = 0
      OBVIOUS
    <3> QED
      BY <3>1, Zenon
  <2>2. ArgsIn(none) \in Seq(Args) /\ Len(ArgsIn(none)) = 0
        /\ ArgsOf(none) = Chosen(ArgsIn(none), There(ArgsIn(none)))
    BY <2>1, ArgsInIs
  <2>3. ArgsIn(none) = <<>>
    BY <2>2
  <2>4. ArgsOf(none) = <<>>
    BY <2>2, <2>3, ChosenNone
  <2> QED
    BY <1>1, <1>4, <1>5, <2>1, <2>4
<1>7. \A k \in 0 .. n : k < n /\ k \in T => k + 1 \in T
  <2> SUFFICES ASSUME NEW k \in 0 .. n, k < n, k \in T PROVE k + 1 \in T
    OBVIOUS
  <2>1. PICK j \in 1 .. n : j = k + 1 /\ j - 1 = k
    OBVIOUS
  <2>2. /\ g[j] = IF j \in I THEN Append(g[k], s[j]) ELSE g[k]
        /\ h[j] = IF j \in There(u) THEN Append(h[k], u[j]) ELSE h[k]
    BY <1>4, <1>5, <2>1
  <2>3. g[k] \in Seq(V) /\ s[j] \in V /\ ArgsOf(g[k]) = h[k]
    <3>1. g[k] \in Seq(V)
      BY <1>4
    <3>2. j \in 1 .. Len(s)
      BY <1>1
    <3>3. s[j] \in V
      BY <3>2
    <3> QED
      BY <3>1, <3>3
  <2>4. j \in There(u) <=> u[j] \notin NoArgs
    BY <1>1 DEF There
  <2>5. ArgsOf(Append(g[k], s[j])) = IF s[j].args \notin NoArgs THEN Append(h[k], s[j].args) ELSE h[k]
    BY <2>3, ArgsAppend
  <2>6. IF j \in I THEN s[j].args = u[j] \/ (s[j].args \in NoArgs /\ u[j] \in NoArgs)
                   ELSE u[j] \in NoArgs
    BY <1>1 DEF Agrees
  <2>7. ArgsOf(g[j]) = h[j]
    BY <2>2, <2>3, <2>4, <2>5, <2>6
  <2>8. j \in 0 .. n
    OBVIOUS
  <2> QED
    BY <2>1, <2>7, <2>8
<1>8. n \in T
  <2> HIDE DEF T
  <2>1. 0 .. n \subseteq T
    BY <1>6, <1>7, Climb
  <2>2. n \in 0 .. n
    OBVIOUS
  <2> QED
    BY <2>1, <2>2
<1> QED
  BY <1>4, <1>5, <1>8


\* What finalize makes of each buffer, and the buffers it keeps.
FinalCall == [args : Args, id : Ids]
CallFrom(api, b, i) == IF api = "openai" THEN OpenAiCall(b, i) ELSE AnthropicCall(b, i)
AllCalls(api, buffers) == [i \in 1 .. Len(buffers) |-> CallFrom(api, buffers[i], i)]
Used(calls) == {i \in 1 .. Len(calls) : calls[i].args # <<>>}

\* What has arguments here.
LEMMA ArgsAre == HaveArgs(FinalCall) /\ HaveArgs(SaidBlock) /\ HaveArgs(Call) /\ Seq(Frags) \subseteq Args
<1>1. Seq(Frags) \subseteq Args
  <2>1. Frags \subseteq Frags \cup {"__id__"}
    OBVIOUS
  <2> QED
    BY <2>1, SeqGrows DEF Args
<1> QED
  BY <1>1 DEF HaveArgs, FinalCall, SaidBlock, Call

\* The calls of the buffers, and those that are used.
LEMMA FinalIs ==
  ASSUME NEW n \in Nat, NEW b \in Buffers(n)
  PROVE  /\ AllCalls(adapter, b) \in Seq(FinalCall) /\ Len(AllCalls(adapter, b)) = Len(b)
         /\ \A i \in 1 .. Len(b) : AllCalls(adapter, b)[i] = CallFrom(adapter, b[i], i)
         /\ FinalCalls(b) = Chosen(AllCalls(adapter, b), Used(AllCalls(adapter, b)))
<1>1. b \in Seq(Buffer)
  BY DEF Buffers
<1>2. PICK m \in Nat : m = Len(b) /\ DOMAIN b = 1 .. m
  BY <1>1
<1>3. ASSUME NEW i \in 1 .. m PROVE CallFrom(adapter, b[i], i) \in FinalCall
  <2>1. b[i] \in Buffer
    BY <1>1, <1>2
  <2>2. b[i].args \in Args /\ b[i].id \in Ids /\ <<"__id__">> \in Args /\ i - 1 \in Ids
    BY <2>1, ArgsAre DEF Buffer, Args, Ids
  <2> QED
    BY <2>2 DEF CallFrom, OpenAiCall, AnthropicCall, FinalCall
<1>4. PICK a : a = AllCalls(adapter, b)
  OBVIOUS
<1>5. a = [i \in 1 .. m |-> CallFrom(adapter, b[i], i)]
  BY <1>2, <1>4 DEF AllCalls
<1>6. /\ a \in Seq(FinalCall) /\ Len(a) = m /\ DOMAIN a = 1 .. m
      /\ \A i \in 1 .. m : a[i] = CallFrom(adapter, b[i], i)
  BY <1>3, <1>5
<1>7. FinalCalls(b) = Chosen(a, {i \in DOMAIN a : a[i].args # <<>>})
  <2>1. a = [i \in DOMAIN b |-> IF adapter = "openai" THEN OpenAiCall(b[i], i)
                                                      ELSE AnthropicCall(b[i], i)]
    BY <1>2, <1>5 DEF CallFrom
  <2> QED
    BY <2>1 DEF FinalCalls
<1>8. Used(a) = {i \in DOMAIN a : a[i].args # <<>>}
  BY <1>6 DEF Used
<1> QED
  BY <1>2, <1>4, <1>6, <1>7, <1>8

\* All there is was said.
LEMMA GotTold ==
  ASSUME StreamInv, outcome = "running", wire = <<>>, NEW p \in Nat
  PROVE  Follows(Got(p, asm), Told(p, said))
<1>1. PICK n \in Nat : n = Len(said.blocks) /\ Connection \in States(n) /\ said \in Described /\ Spoken
  BY DescribedIs DEF StreamInv, Running, Typed
<1>2. PICK g, w, r, t : /\ g = Got(p, asm) /\ w = Waiting(adapter, p, parser.data)
                        /\ r = PartOf(p, Payload(parser.rest)) /\ t = Told(p, said)
  OBVIOUS
<1>3. Held(adapter, p, Connection) = g \o (w \o r)
  BY <1>2 DEF Held, Connection
<1>4. g \in Seq(Pieces) /\ w \in Seq(Pieces) /\ r \in Seq(Pieces) /\ t \in Seq(Pieces)
  <2>1. PICK st \in States(n) : st = Connection
    BY <1>1
  <2>2. st.asm = asm /\ st.data = parser.data /\ st.rest = parser.rest
    BY <2>1 DEF Connection
  <2> QED
    BY <1>1, <1>2, <2>2, HeldIs, ToldIs
<1>5. Follows((g \o (w \o r)) \o <<>>, t)
  <2>1. Flow(p, wire) = <<>>
    BY FlowNone
  <2> QED
    BY <1>1, <1>2, <1>3, <2>1 DEF Spoken
<1>6. w \o r \in Seq(Pieces) /\ g \o (w \o r) \in Seq(Pieces) /\ (g \o (w \o r)) \o <<>> = g \o (w \o r)
  BY <1>4
<1>7. Follows(g, g \o (w \o r))
  BY <1>4, <1>6, FollowsItself, FollowsEnds
<1>8. Follows(g \o (w \o r), t)
  BY <1>5, <1>6
<1> QED
  BY <1>2, <1>4, <1>6, <1>7, <1>8, FollowsThrough

\* Every call in the final response is of a block the server said, and holds no more.
LEMMA CallsSaid ==
  ASSUME StreamInv, outcome = "running", wire = <<>>,
         NEW i \in DOMAIN FinalCalls(asm.buffers), NEW c, c = FinalCalls(asm.buffers)[i]
  PROVE  \/ c.args = <<"__id__">>
         \/ \E j \in DOMAIN said.blocks :
              /\ Follows(c.args, said.blocks[j].args)
              /\ c.id \in {said.blocks[j].id, j - 1, NoId}
<1>1. PICK n \in Nat : n = Len(said.blocks) /\ Connection \in States(n) /\ said \in Described
  BY DescribedIs DEF StreamInv, Running, Typed
<1>2. PICK b \in Buffers(n) : b = asm.buffers
  BY <1>1, StateParts DEF Connection
<1>3. PICK a : a = AllCalls(adapter, b)
  OBVIOUS
<1>4. /\ a \in Seq(FinalCall) /\ Len(a) = Len(b)
      /\ \A k \in 1 .. Len(b) : a[k] = CallFrom(adapter, b[k], k)
      /\ FinalCalls(b) = Chosen(a, Used(a))
  BY <1>3, FinalIs
<1>5. PICK u : u = Used(a)
  OBVIOUS
<1>6. PICK s : s = Chosen(a, u)
  OBVIOUS
<1>7. s \in Seq(FinalCall) /\ \A j \in 1 .. Len(s) : \E k \in 1 .. Len(a) \cap u : s[j] = a[k]
  BY <1>4, <1>6, ChosenFrom
<1>8. s = FinalCalls(asm.buffers)
  BY <1>2, <1>4, <1>5, <1>6
<1>9. i \in 1 .. Len(s) /\ c = s[i]
  BY <1>7, <1>8
<1>10. PICK k \in 1 .. Len(a) : k \in u /\ c = a[k]
  BY <1>7, <1>9
<1>11. c = CallFrom(adapter, b[k], k) /\ c.args # <<>> /\ k \in 1 .. Len(b)
  BY <1>4, <1>5, <1>10 DEF Used
<1>12. b \in Seq(Buffer) /\ Len(b) <= n /\ b[k].id \in {NoId, k - 1} /\ Len(b) \in Nat
  BY <1>11 DEF Buffers
<1>13. k \in Nat /\ k # 0 /\ k <= Len(b) /\ k <= n /\ k \in 1 .. n
  BY <1>11, <1>12
<1>14. c.args = <<"__id__">> \/ c.args = b[k].args
  BY <1>11 DEF CallFrom, OpenAiCall, AnthropicCall
<1>15. c.id \in {k - 1, NoId}
  BY <1>11, <1>12 DEF CallFrom, OpenAiCall, AnthropicCall
<1>16. Follows(b[k].args, said.blocks[k].args)
  <2>1. Follows(Got(k, asm), Told(k, said))
    BY <1>13, GotTold
  <2>2. Got(k, asm) = b[k].args
    BY <1>2, <1>13 DEF Got
  <2>3. Told(k, said) = said.blocks[k].args
    BY <1>1, <1>13 DEF Told
  <2> QED
    BY <2>1, <2>2, <2>3
<1>17. k \in DOMAIN said.blocks
  <2>1. said.blocks \in Seq(SaidBlock)
    BY <1>1, DescribedIs
  <2> QED
    BY <1>1, <1>13, <2>1
<1> QED
  BY <1>14, <1>15, <1>16, <1>17

\* A block is text or a tool's.
LEMMA BlockKind ==
  ASSUME NEW bl \in Seq(SaidBlock), NEW i \in 1 .. Len(bl) PROVE bl[i].kind \in {"text", "tool_use"}
<1>1. bl[i] \in SaidBlock
  OBVIOUS
<1> QED
  BY <1>1 DEF SaidBlock

\* Three ways to the arguments that were said.
Calling(blocks) == Chosen(blocks, {i \in DOMAIN blocks : blocks[i].kind = "tool_use"})

\* Buffers, sink and server agree on the arguments in order.
LEMMA SameArgs ==
  ASSUME adapter \in Apis, adapter # "ollama", NEW n \in Nat, NEW s \in Described, NEW b \in Buffers(n),
         NEW calls, Alike(adapter, s.blocks, b, calls), NEW u, u = ArgsIn(s.blocks)
  PROVE  /\ ArgsOf(FinalCalls(b)) = Chosen(u, There(u))
         /\ ArgsOf(calls) = Chosen(u, There(u))
         /\ ArgsOf(Calling(s.blocks)) = Chosen(u, There(u))
<1>1. PICK bl, m : bl = s.blocks /\ m = Len(bl)
  OBVIOUS
<1>2. /\ bl \in Seq(SaidBlock) /\ m \in Nat /\ DOMAIN bl = 1 .. m
      /\ \A i \in 1 .. m : bl[i].kind = "text" => bl[i].args = <<>>
  BY <1>1, DescribedIs
<1>3. /\ u \in Seq(Args) /\ Len(u) = m /\ \A i \in 1 .. m : u[i] = bl[i].args
  BY <1>1, <1>2, ArgsAre, ArgsInIs
<1>4. <<>> \in NoArgs /\ <<"__id__">> \in NoArgs
  BY DEF NoArgs
<1>5. ArgsOf(Calling(bl)) = Chosen(u, There(u))
  <2>1. PICK I : I = {i \in DOMAIN bl : bl[i].kind = "tool_use"}
    OBVIOUS
  <2>2. \A i \in 1 .. m : bl[i].kind \in {"text", "tool_use"}
    BY <1>1, <1>2, BlockKind
  <2>3. \A i \in 1 .. m : i \in I <=> bl[i].kind = "tool_use"
    BY <1>2, <2>1
  <2>4. Agrees(bl, I, u)
    BY <1>1, <1>2, <1>3, <1>4, <2>2, <2>3 DEF Agrees
  <2>5. ArgsOf(Chosen(bl, I)) = Chosen(u, There(u))
    BY <1>1, <1>2, <1>3, <2>4, ArgsAre, ArgsChosen
  <2> QED
    BY <2>1, <2>5 DEF Calling
<1>6. /\ b \in Seq(Buffer) /\ Len(b) = m
      /\ \A i \in 1 .. m :
           /\ b[i].args = bl[i].args
           /\ adapter # "openai" /\ b[i].marker => bl[i].args = <<>>
  <2>1. b \in Seq(Buffer)
    BY DEF Buffers
  <2>2. CASE adapter = "openai"
    <3>1. /\ Len(b) = Len(s.blocks)
          /\ \A i \in 1 .. Len(s.blocks) :
               b[i] = [id |-> i - 1, marker |-> FALSE, args |-> s.blocks[i].args]
      BY <2>2 DEF Alike
    <3>2. Len(b) = m /\ \A i \in 1 .. m : b[i].args = bl[i].args
      <4>1. Len(b) = m /\ \A i \in 1 .. m : b[i] = [id |-> i - 1, marker |-> FALSE, args |-> bl[i].args]
        BY <1>1, <3>1, Zenon
      <4>2. ASSUME NEW i \in 1 .. m PROVE b[i].args = bl[i].args
        <5>1. b[i] = [id |-> i - 1, marker |-> FALSE, args |-> bl[i].args]
          BY <4>1
        <5> QED
          BY <5>1
      <4> QED
        BY <4>1, <4>2
    <3> QED
      BY <2>1, <2>2, <3>2
  <2>3. CASE adapter = "anthropic"
    <3>1. /\ Len(b) = Len(s.blocks)
          /\ \A i \in 1 .. Len(s.blocks) :
               /\ b[i].args = s.blocks[i].args
               /\ b[i].marker => b[i] = [id |-> i - 1, marker |-> TRUE, args |-> <<>>]
      BY <2>3 DEF Alike
    <3>2. Len(b) = m /\ \A i \in 1 .. m : b[i].args = bl[i].args /\ (b[i].marker => b[i].args = <<>>)
      <4>1. /\ Len(b) = m
            /\ \A i \in 1 .. m :
                 /\ b[i].args = bl[i].args
                 /\ b[i].marker => b[i] = [id |-> i - 1, marker |-> TRUE, args |-> <<>>]
        BY <1>1, <3>1, Zenon
      <4>2. ASSUME NEW i \in 1 .. m
            PROVE  b[i].args = bl[i].args /\ (b[i].marker => b[i].args = <<>>)
        <5>1. /\ b[i].args = bl[i].args
              /\ b[i].marker => b[i] = [id |-> i - 1, marker |-> TRUE, args |-> <<>>]
          BY <4>1
        <5> QED
          BY <5>1
      <4> QED
        BY <4>1, <4>2
    <3>3. \A i \in 1 .. m : b[i].marker => bl[i].args = <<>>
      BY <3>2
    <3> QED
      BY <2>1, <3>2, <3>3
  <2> QED
    BY <2>2, <2>3 DEF Apis
<1>7. ArgsOf(FinalCalls(b)) = Chosen(u, There(u))
  <2>1. PICK a : a = AllCalls(adapter, b)
    OBVIOUS
  <2>2. /\ a \in Seq(FinalCall) /\ Len(a) = m
        /\ \A i \in 1 .. m : a[i] = CallFrom(adapter, b[i], i)
        /\ FinalCalls(b) = Chosen(a, Used(a))
    BY <1>6, <2>1, FinalIs
  <2>3. ASSUME NEW i \in 1 .. m
        PROVE  a[i].args = u[i] \/ (a[i].args = <<"__id__">> /\ u[i] = <<>>)
    <3>1. CASE adapter = "openai"
      <4>1. a[i].args = b[i].args
        BY <2>2, <3>1 DEF CallFrom, OpenAiCall
      <4> QED
        BY <1>3, <1>6, <4>1
    <3>2. CASE adapter # "openai"
      <4>1. a[i].args = IF b[i].marker THEN <<"__id__">> ELSE b[i].args
        BY <2>2, <3>2 DEF CallFrom, AnthropicCall
      <4>2. b[i].args = u[i] /\ (b[i].marker => u[i] = <<>>)
        BY <1>3, <1>6, <3>2
      <4> QED
        BY <4>1, <4>2
    <3> QED
      BY <3>1, <3>2
  <2>4. \A i \in 1 .. m : i \in Used(a) <=> a[i].args # <<>>
    BY <2>2 DEF Used
  <2>5. Agrees(a, Used(a), u)
    BY <1>4, <2>2, <2>3, <2>4 DEF Agrees
  <2>6. ArgsOf(Chosen(a, Used(a))) = Chosen(u, There(u))
    BY <1>3, <2>2, <2>5, ArgsAre, ArgsChosen
  <2> QED
    BY <2>2, <2>6
<1>8. PICK k : k = CallOf(bl)
  OBVIOUS
<1>9. k \in Seq(Call) /\ Len(k) = m /\ \A i \in 1 .. m : k[i].args = u[i]
  <2>1. /\ CallOf(bl) \in Seq(Call) /\ Len(CallOf(bl)) = Len(bl)
        /\ \A i \in 1 .. Len(bl) : CallOf(bl)[i] = [id |-> i - 1, args |-> bl[i].args]
    BY <1>2, CallOfIs
  <2>2. /\ k \in Seq(Call) /\ Len(k) = m
        /\ \A i \in 1 .. m : k[i] = [id |-> i - 1, args |-> bl[i].args]
    BY <1>1, <1>8, <2>1
  <2>3. \A i \in 1 .. m : k[i].args = bl[i].args
    BY <2>2
  <2> QED
    BY <1>3, <2>2, <2>3
<1>10. ArgsOf(calls) = Chosen(u, There(u))
  <2>1. PICK I : /\ calls = Chosen(k, I)
                 /\ \A i \in 1 .. m : i \in I \/ u[i] = <<>>
    <3>1. CASE adapter = "openai"
      <4>1. calls = k
        BY <1>1, <1>8, <3>1 DEF Alike
      <4>2. Chosen(k, 1 .. m) = k
        BY <1>9, ChosenAll
      <4> QED
        BY <4>1, <4>2
    <3>2. CASE adapter = "anthropic"
      <4>1. calls = Chosen(k, Begun(bl, b))
        BY <1>1, <1>8, <3>2 DEF Alike
      <4>2. \A i \in 1 .. m : i \in Begun(bl, b) \/ u[i] = <<>>
        <5>1. \A i \in 1 .. m : bl[i].kind \in {"text", "tool_use"}
          BY <1>1, <1>2, BlockKind
        <5> QED
          BY <1>1, <1>2, <1>3, <1>6, <3>2, <5>1 DEF Begun
      <4> QED
        BY <4>1, <4>2
    <3> QED
      BY <3>1, <3>2 DEF Apis
  <2>2. Agrees(k, I, u)
    BY <1>4, <1>9, <2>1 DEF Agrees
  <2>3. ArgsOf(Chosen(k, I)) = Chosen(u, There(u))
    BY <1>3, <1>9, <2>2, ArgsAre, ArgsChosen
  <2> QED
    BY <2>1, <2>3
<1> QED
  BY <1>1, <1>5, <1>7, <1>10


\* Nothing was lost: the response, the sink and the one-shot answer agree.
LEMMA NothingLost ==
  ASSUME StreamInv, outcome = "running", wire = <<>>, ~lossy
  PROVE  /\ asm.text = said.text /\ asm.stop = said.stop /\ Captured(sent).text = said.text
         /\ OneShot(adapter, [text |-> said.text, calls |-> SaidCalls]).text = said.text
         /\ ArgsOf(FinalCalls(asm.buffers))
              = ArgsOf(OneShot(adapter, [text |-> said.text, calls |-> SaidCalls]).calls)
         /\ ArgsOf(Captured(sent).calls) = ArgsOf(FinalCalls(asm.buffers))
<1>1. PICK n \in Nat : n = Len(said.blocks) /\ Connection \in States(n) /\ said \in Described
                       /\ Whole /\ adapter \in Apis
  BY DescribedIs DEF StreamInv, Running, Typed
<1>2. PICK b \in Buffers(n) : b = asm.buffers
  BY <1>1, StateParts DEF Connection
<1>3. Same(adapter, said, asm, sent)
  <2>1. Reading(adapter, Connection, wire) = Connection
    BY <1>1, ReadingNone
  <2>2. Matches(adapter, said, Connection)
    BY <1>1, <2>1 DEF Whole
  <2>3. Connection.asm = asm /\ Connection.sent = sent
    BY DEF Connection
  <2> QED
    BY <2>2, <2>3, SameIs
<1>4. /\ asm.text = said.text /\ asm.stop = said.stop /\ Captured(sent).text = said.text
      /\ Alike(adapter, said.blocks, b, Captured(sent).calls)
  BY <1>2, <1>3 DEF Same
<1>5. PICK one, calls : /\ one = OneShot(adapter, [text |-> said.text, calls |-> SaidCalls])
                        /\ calls = Captured(sent).calls
  OBVIOUS
<1>6. one.text = said.text /\ one.calls = IF adapter = "ollama" THEN <<>> ELSE SaidCalls
  BY <1>1, <1>5 DEF OneShot, AnthropicResponse, OpenAiResponse, OllamaResponse, Apis
<1>7. ArgsOf(FinalCalls(b)) = ArgsOf(one.calls) /\ ArgsOf(calls) = ArgsOf(FinalCalls(b))
  <2>1. CASE adapter = "ollama"
    <3>1. b = <<>> /\ calls = <<>>
      BY <1>4, <1>5, <2>1 DEF Alike
    <3>2. PICK a : a = AllCalls(adapter, b)
      OBVIOUS
    <3>3. a \in Seq(FinalCall) /\ Len(a) = Len(b) /\ FinalCalls(b) = Chosen(a, Used(a))
      BY <3>2, FinalIs
    <3>4. Len(b) = 0
      BY <3>1
    <3>5. a = <<>>
      BY <3>3, <3>4
    <3>6. FinalCalls(b) = <<>>
      BY <3>3, <3>5, ChosenNone
    <3> QED
      BY <1>6, <2>1, <3>1, <3>6
  <2>2. CASE adapter # "ollama"
    <3>1. PICK u : u = ArgsIn(said.blocks)
      OBVIOUS
    <3>2. Alike(adapter, said.blocks, b, calls)
      BY <1>4, <1>5
    <3>3. /\ ArgsOf(FinalCalls(b)) = Chosen(u, There(u)) /\ ArgsOf(calls) = Chosen(u, There(u))
          /\ ArgsOf(Calling(said.blocks)) = Chosen(u, There(u))
      BY <1>1, <2>2, <3>1, <3>2, SameArgs
    <3>4. one.calls = Calling(said.blocks)
      BY <1>6, <2>2 DEF SaidCalls, Calling
    <3> QED
      BY <3>3, <3>4
  <2> QED
    BY <2>1, <2>2
<1> QED
  BY <1>2, <1>4, <1>5, <1>6, <1>7

\* The end of the response preserves the invariant: what is final is what was said.
LEMMA EndStep == ASSUME StreamInv, Stop PROVE StreamInv'
<1>1. /\ outcome = "running" /\ sent # <<>> /\ wire = <<>> /\ outcome' = "ok"
      /\ adapter' = adapter /\ said' = said /\ lossy' = lossy /\ asm' = asm
  BY DEF Stop, Streaming, server
<1>2. PICK e : e = [type |-> "MessageStop", response |-> Final] /\ sent' = Append(sent, e)
  BY DEF Stop
<1>3. e.type = "MessageStop" /\ e.response = Final
  BY <1>2
<1>4. sent \in Seq(Streamed)
  <2>1. Connection \in States(Len(said.blocks)) /\ Len(said.blocks) \in Nat
    BY <1>1, DescribedIs DEF StreamInv, Running, Typed
  <2> QED
    BY <2>1, StateParts DEF Connection
<1>5. Last(sent') = e
  BY <1>2, <1>4 DEF Last
<1>6. Response' = Final
  BY <1>3, <1>5 DEF Response
<1>7. /\ Final.text = asm.text /\ Final.calls = FinalCalls(asm.buffers) /\ Final.stop = asm.stop
  BY DEF Final
<1>8. Follows(asm.text, said.text)
  <2>1. Follows(Got(0, asm), Told(0, said))
    BY <1>1, GotTold
  <2> QED
    BY <2>1 DEF Got, Told
<1>9. \A i \in DOMAIN FinalCalls(asm.buffers) :
        LET c == FinalCalls(asm.buffers)[i] IN
        \/ c.args = <<"__id__">>
        \/ \E j \in DOMAIN said.blocks :
             /\ Follows(c.args, said.blocks[j].args)
             /\ c.id \in {said.blocks[j].id, j - 1, NoId}
  BY <1>1, CallsSaid
<1>10. Captured(sent') = Captured(sent)
  <2>1. PICK V : V = Streamed \cup {e}
    OBVIOUS
  <2>2. sent \in Seq(V) /\ e \in V
    BY <1>4, <2>1, SeqGrows
  <2>3. \A x \in V : x \in Streamed \/ x.type = "MessageStop"
    BY <1>3, <2>1
  <2>4. Captured(Append(sent, e)) = SinkSend(Captured(sent), e)
    BY <2>2, <2>3, CapturedAppend
  <2>5. SinkSend(Captured(sent), e) = Captured(sent)
    BY <1>3 DEF SinkSend
  <2> QED
    BY <1>2, <2>4, <2>5
<1>11. PICK one : one = OneShot(adapter, [text |-> said.text, calls |-> SaidCalls])
  OBVIOUS
<1>12. /\ OneShot(adapter, [text |-> said.text, calls |-> SaidCalls])' = one
       /\ Sink' = Captured(sent)
  BY <1>1, <1>10, <1>11 DEF SaidCalls, Sink
<1>13. ~lossy => /\ Final.text = one.text
                 /\ Final.stop = said.stop
                 /\ ArgsOf(Final.calls) = ArgsOf(one.calls)
                 /\ Captured(sent).text = Final.text
                 /\ ArgsOf(Captured(sent).calls) = ArgsOf(Final.calls)
  BY <1>1, <1>7, <1>11, NothingLost
<1>14. FinalIsWhatWasSaid'
  <2>1. Follows(Response.text, said.text)'
    BY <1>1, <1>6, <1>7, <1>8
  <2>2. (\A i \in DOMAIN Response.calls :
           LET c == Response.calls[i] IN
           \/ c.args = <<"__id__">>
           \/ \E j \in DOMAIN said.blocks :
                /\ Follows(c.args, said.blocks[j].args)
                /\ c.id \in {said.blocks[j].id, j - 1, NoId})'
    BY <1>1, <1>6, <1>7, <1>9
  <2>3. (~lossy =>
           LET whole == OneShot(adapter, [text |-> said.text, calls |-> SaidCalls]) IN
           /\ Response.text = whole.text
           /\ Response.stop = said.stop
           /\ ArgsOf(Response.calls) = ArgsOf(whole.calls)
           /\ Sink.text = Response.text
           /\ ArgsOf(Sink.calls) = ArgsOf(Response.calls))'
    BY <1>1, <1>6, <1>12, <1>13
  <2> QED
    BY <2>1, <2>2, <2>3 DEF FinalIsWhatWasSaid
<1> QED
  BY <1>1, <1>14 DEF StreamInv, CallsOnly

\* A step that changes nothing here preserves it.
LEMMA StutterStep == ASSUME StreamInv, UNCHANGED streamVars PROVE StreamInv'
<1>1. /\ adapter' = adapter /\ said' = said /\ outcome' = outcome /\ sent' = sent /\ wire' = wire
      /\ lossy' = lossy /\ parser' = parser /\ asm' = asm
  BY DEF streamVars, server, client
<1>2. Connection' = Connection
  BY <1>1 DEF Connection
<1>3. Running => Running'
  BY <1>1, <1>2 DEF Running, Typed, Spoken, Whole
<1>4. FinalIsWhatWasSaid => FinalIsWhatWasSaid'
  BY <1>1 DEF FinalIsWhatWasSaid, Stopped, Response, SaidCalls, Sink
<1> QED
  BY <1>1, <1>3, <1>4 DEF StreamInv, CallsOnly

\* While the response is read nothing is complete yet.
LEMMA InvSays == StreamInv => FinalIsWhatWasSaid
<1> SUFFICES ASSUME StreamInv, outcome = "running", sent # <<>> PROVE ~Stopped
  BY DEF StreamInv, FinalIsWhatWasSaid, Stopped
<1>1. Connection \in States(Len(said.blocks)) /\ Len(said.blocks) \in Nat
  BY DescribedIs DEF StreamInv, Running, Typed
<1>2. sent \in Seq(Streamed)
  BY <1>1, StateParts DEF Connection
<1>3. Last(sent) \in Streamed
  BY <1>2 DEF Last
<1> QED
  BY <1>3 DEF Stopped, Streamed, TextDeltas, CallDeltas

\* The final response says nothing the server did not say; and all of it, and
\* what the sink was told is the same, if nothing was lost on the way.
\* (SseParser, decode_*_event, finalize, CapturingStreamSink)
THEOREM TheAnswerIsWhatWasSaid == StreamSpec => []FinalIsWhatWasSaid
<1>1. StreamInit => StreamInv
  BY InitHolds
<1>2. StreamInv /\ [StreamNext]_streamVars => StreamInv'
  <2> SUFFICES ASSUME StreamInv, [StreamNext]_streamVars PROVE StreamInv'
    OBVIOUS
  <2>1. ASSUME Respond PROVE StreamInv'
    BY <2>1, RespondStep
  <2>2. ASSUME sent # <<>>, outcome = "running", AnthropicServer PROVE StreamInv'
    BY <2>2, AnthropicStep
  <2>3. ASSUME sent # <<>>, outcome = "running", OpenAiServer PROVE StreamInv'
    BY <2>3, OpenAiStep
  <2>4. ASSUME sent # <<>>, outcome = "running", OllamaServer PROVE StreamInv'
    BY <2>4, OllamaStep
  <2>5. ASSUME ServerCloses PROVE StreamInv'
    BY <2>5, ClosesStep
  <2>6. ASSUME Receive PROVE StreamInv'
    BY <2>6, ReceiveStep
  <2>7. ASSUME TransportError PROVE StreamInv'
    BY <2>7, BrokenStep
  <2>8. ASSUME Stop PROVE StreamInv'
    BY <2>8, EndStep
  <2>9. ASSUME UNCHANGED streamVars PROVE StreamInv'
    BY <2>9, StutterStep
  <2> QED
    BY <2>1, <2>2, <2>3, <2>4, <2>5, <2>6, <2>7, <2>8, <2>9 DEF StreamNext
<1>3. StreamInv => FinalIsWhatWasSaid
  BY InvSays
<1> QED
  BY <1>1, <1>2, <1>3, PTL DEF StreamSpec

-----------------------------------------------------------------------------
(* Edits applied to files *)

Strings == Seq(Chars)

-----------------------------------------------------------------------------
(* Recursive functions *)

\* The lines joined so far.
LEMMA JoinedSteps ==
  ASSUME NEW lines \in Seq(Strings)
  PROVE  \E g \in [0 .. Len(lines) -> Strings] :
           /\ Joined(lines) = g[Len(lines)] /\ g[0] = <<>>
           /\ \A n \in 1 .. Len(lines) :
                 g[n] = IF n = 1 THEN lines[1] ELSE g[n - 1] \o <<NL>> \o lines[n]
<1> DEFINE k == Len(lines)
           S == Strings
           step(n, x) == IF n = 1 THEN lines[1] ELSE x \o <<NL>> \o lines[n]
           next == [n \in 1 .. k |-> [x \in S |-> step(n, x)]]
           Fits(f) == f = [n \in 0 .. k |->
                        CASE n = 0 -> <<>>
                        [] n = 1 -> lines[1] [] OTHER -> f[n - 1] \o <<NL>> \o lines[n]]
<1>1. k \in Nat /\ <<>> \in S
  BY DEF Strings
<1>2. \A n \in 1 .. k, x \in S : step(n, x) \in S
  BY ContentsAssumption DEF Strings
<1>3. Joined(lines) = (CHOOSE f : Fits(f))[k]
  BY DEF Joined
<1>4. next \in [1 .. k -> [S -> S]]
  <2> HIDE DEF k, S, step
  <2> QED
    BY <1>2
<1>5. PICK g \in [0 .. k -> S] : g[0] = <<>> /\ \A n \in 1 .. k : g[n] = step(n, g[n - 1])
  <2> HIDE DEF step, k, S
  <2>1. next \in [1 .. k -> [S -> S]] /\ \A n \in 1 .. k, x \in S : next[n][x] = step(n, x)
    BY <1>4
  <2> HIDE DEF next
  <2>2. PICK g : Recursion(g, k, S, <<>>, next)
    BY <1>1, <2>1, RecursionExists
  <2>3. \A n \in 1 .. k : n - 1 \in 0 .. k
    BY <1>1
  <2> QED
    BY <2>1, <2>2, <2>3 DEF Recursion
<1>6. Fits(g)
  <2> DEFINE value(n) ==
              CASE n = 0 -> <<>> [] n = 1 -> lines[1] [] OTHER -> g[n - 1] \o <<NL>> \o lines[n]
  <2>1. \A n \in 0 .. k : n = 0 \/ (n # 0 /\ n \in 1 .. k)
    BY <1>1
  <2>2. \A n \in 0 .. k : g[n] = value(n)
    <3> HIDE DEF k, S
    <3> QED
      BY <1>5, <2>1
  <2>3. g = [n \in 0 .. k |-> g[n]]
    BY <1>5
  <2>4. g = [n \in 0 .. k |-> value(n)]
    <3> HIDE DEF value, k, S
    <3> QED
      BY <2>2, <2>3
  <2> QED
    BY <2>4
<1>7. PICK f : f = CHOOSE h : Fits(h)
  OBVIOUS
<1>8. Fits(f)
  <2> HIDE DEF Fits
  <2> QED
    BY <1>6, <1>7
<1> HIDE DEF k, S
<1> DEFINE T == {n \in Nat : f[n] = g[n]}
<1>9. 0 \in T
  BY <1>1, <1>5, <1>8
<1>10. ASSUME NEW n \in 0 .. k, n < k, n \in T PROVE n + 1 \in T
  <2>1. PICK m \in 1 .. k : m = n + 1
    BY <1>1, <1>10
  <2>2. m # 0 /\ m - 1 = n /\ m \in 0 .. k /\ m \in Nat
    BY <1>1, <1>10, <2>1
  <2>3. f[m] = step(m, f[m - 1])
    BY <1>8, <2>2
  <2>4. g[m] = step(m, g[m - 1])
    BY <1>5
  <2>5. f[m - 1] = g[m - 1]
    BY <1>10, <2>2
  <2> HIDE DEF step
  <2>6. f[m] = g[m]
    BY <2>3, <2>4, <2>5
  <2> QED
    BY <2>1, <2>2, <2>6
<1>11. k \in T
  <2> HIDE DEF T
  <2>1. 0 .. k \subseteq T
    BY <1>1, <1>9, <1>10, Climb
  <2> QED
    BY <1>1, <2>1
<1>12. Joined(lines) = g[k]
  BY <1>3, <1>7, <1>11
<1> QED
  BY <1>5, <1>12 DEF k, S

\* The starts of lines among the first characters.
LEMMA StartsSteps ==
  ASSUME NEW text \in Strings
  PROVE  \E g \in [0 .. Len(text) -> Seq(Nat)] :
           /\ LineStarts(text) = g[Len(text)] /\ g[0] = <<1>>
           /\ \A n \in 1 .. Len(text) :
                 g[n] = IF text[n] = NL THEN Append(g[n - 1], n + 1) ELSE g[n - 1]
<1> DEFINE k == Len(text)
           S == Seq(Nat)
           step(n, x) == IF text[n] = NL THEN Append(x, n + 1) ELSE x
           next == [n \in 1 .. k |-> [x \in S |-> step(n, x)]]
           Fits(f) == f = [n \in 0 .. k |->
                        CASE n = 0 -> <<1>>
                        [] n # 0 /\ text[n] = NL -> Append(f[n - 1], n + 1) [] OTHER -> f[n - 1]]
<1>1. k \in Nat /\ <<1>> \in S
  BY DEF Strings
<1>2. \A n \in 1 .. k, x \in S : step(n, x) \in S
  BY DEF Strings
<1>3. LineStarts(text) = (CHOOSE f : Fits(f))[k]
  BY DEF LineStarts
<1>4. next \in [1 .. k -> [S -> S]]
  <2> HIDE DEF k, S, step
  <2> QED
    BY <1>2
<1>5. PICK g \in [0 .. k -> S] : g[0] = <<1>> /\ \A n \in 1 .. k : g[n] = step(n, g[n - 1])
  <2> HIDE DEF step, k, S
  <2>1. next \in [1 .. k -> [S -> S]] /\ \A n \in 1 .. k, x \in S : next[n][x] = step(n, x)
    BY <1>4
  <2> HIDE DEF next
  <2>2. PICK g : Recursion(g, k, S, <<1>>, next)
    BY <1>1, <2>1, RecursionExists
  <2>3. \A n \in 1 .. k : n - 1 \in 0 .. k
    BY <1>1
  <2> QED
    BY <2>1, <2>2, <2>3 DEF Recursion
<1>6. Fits(g)
  <2> DEFINE value(n) ==
              CASE n = 0 -> <<1>> [] n # 0 /\ text[n] = NL -> Append(g[n - 1], n + 1) [] OTHER -> g[n - 1]
  <2>1. \A n \in 0 .. k : n = 0 \/ (n # 0 /\ n \in 1 .. k)
    BY <1>1
  <2>2. \A n \in 0 .. k : g[n] = value(n)
    <3> HIDE DEF k, S
    <3> QED
      BY <1>5, <2>1
  <2>3. g = [n \in 0 .. k |-> g[n]]
    BY <1>5
  <2>4. g = [n \in 0 .. k |-> value(n)]
    <3> HIDE DEF value, k, S
    <3> QED
      BY <2>2, <2>3
  <2> QED
    BY <2>4
<1>7. PICK f : f = CHOOSE h : Fits(h)
  OBVIOUS
<1>8. Fits(f)
  <2> HIDE DEF Fits
  <2> QED
    BY <1>6, <1>7
<1> HIDE DEF k, S
<1> DEFINE T == {n \in Nat : f[n] = g[n]}
<1>9. 0 \in T
  BY <1>1, <1>5, <1>8
<1>10. ASSUME NEW n \in 0 .. k, n < k, n \in T PROVE n + 1 \in T
  <2>1. PICK m \in 1 .. k : m = n + 1
    BY <1>1, <1>10
  <2>2. m # 0 /\ m - 1 = n /\ m \in 0 .. k /\ m \in Nat
    BY <1>1, <1>10, <2>1
  <2>3. f[m] = step(m, f[m - 1])
    BY <1>8, <2>2
  <2>4. g[m] = step(m, g[m - 1])
    BY <1>5
  <2>5. f[m - 1] = g[m - 1]
    BY <1>10, <2>2
  <2> HIDE DEF step
  <2>6. f[m] = g[m]
    BY <2>3, <2>4, <2>5
  <2> QED
    BY <2>1, <2>2, <2>6
<1>11. k \in T
  <2> HIDE DEF T
  <2>1. 0 .. k \subseteq T
    BY <1>1, <1>9, <1>10, Climb
  <2> QED
    BY <1>1, <2>1
<1>12. LineStarts(text) = g[k]
  BY <1>3, <1>7, <1>11
<1> QED
  BY <1>5, <1>12 DEF k, S

-----------------------------------------------------------------------------
(* Lines *)

\* s holds the starts of the lines that begin in the first n characters or
\* right after them, in their order.
StartsUpTo(s, text, n) ==
  /\ s \in Seq(Nat) /\ Len(s) >= 1 /\ s[1] = 1
  /\ \A i \in 1 .. Len(s) : /\ s[i] >= 1 /\ s[i] <= n + 1
                            /\ i # 1 => \E p \in 1 .. n : text[p] = NL /\ s[i] = p + 1
  /\ \A i, j \in 1 .. Len(s) : i < j => s[i] < s[j]
  /\ \A p \in 1 .. n : text[p] = NL => \E i \in 1 .. Len(s) : i # 1 /\ s[i] = p + 1

\* LineStarts finds them all.
LEMMA StartsProps ==
  ASSUME NEW text \in Strings PROVE StartsUpTo(LineStarts(text), text, Len(text))
<1>0. Len(text) \in Nat
  BY DEF Strings
<1>1. PICK g \in [0 .. Len(text) -> Seq(Nat)] :
        /\ LineStarts(text) = g[Len(text)] /\ g[0] = <<1>>
        /\ \A n \in 1 .. Len(text) :
             g[n] = IF text[n] = NL THEN Append(g[n - 1], n + 1) ELSE g[n - 1]
  BY StartsSteps
<1> DEFINE T == {n \in Nat : StartsUpTo(g[n], text, n)}
<1>2. 0 \in T
  <2>1. PICK s \in Seq(Nat) : s = <<1>>
    OBVIOUS
  <2>2. Len(s) = 1 /\ s[1] = 1
    BY <2>1
  <2>3. StartsUpTo(s, text, 0)
    BY <2>2 DEF StartsUpTo
  <2> QED
    BY <1>1, <2>1, <2>3
<1>3. ASSUME NEW n \in 0 .. Len(text), n < Len(text), n \in T PROVE n + 1 \in T
  <2>1. PICK m \in 1 .. Len(text) : m = n + 1
    BY <1>0, <1>3
  <2>2. m - 1 = n /\ m \in Nat /\ n \in Nat
    BY <2>1
  <2>3. PICK s : s = g[n]
    OBVIOUS
  <2>4. StartsUpTo(s, text, n)
    BY <1>3, <2>3
  <2>5. g[m] = IF text[m] = NL THEN Append(s, m + 1) ELSE s
    BY <1>1, <2>2, <2>3
  <2>6. ASSUME text[m] # NL PROVE StartsUpTo(s, text, m)
    <3>1. /\ s \in Seq(Nat) /\ Len(s) >= 1 /\ s[1] = 1 /\ Len(s) \in Nat
          /\ \A i, j \in 1 .. Len(s) : i < j => s[i] < s[j]
      BY <2>4 DEF StartsUpTo
    <3>2. ASSUME NEW i \in 1 .. Len(s)
          PROVE  /\ s[i] >= 1 /\ s[i] <= m + 1
                 /\ i # 1 => \E p \in 1 .. m : text[p] = NL /\ s[i] = p + 1
      <4>1. s[i] \in Nat /\ s[i] >= 1 /\ s[i] <= n + 1
        BY <2>4 DEF StartsUpTo
      <4>2. i # 1 => \E p \in 1 .. n : text[p] = NL /\ s[i] = p + 1
        BY <2>4 DEF StartsUpTo
      <4>3. 1 .. n \subseteq 1 .. m
        BY <2>1, <2>2
      <4> QED
        BY <2>1, <2>2, <4>1, <4>2, <4>3
    <3>3. ASSUME NEW p \in 1 .. m, text[p] = NL PROVE \E i \in 1 .. Len(s) : i # 1 /\ s[i] = p + 1
      <4>1. p \in 1 .. n
        BY <2>1, <2>2, <2>6, <3>3
      <4> QED
        BY <2>4, <3>3, <4>1 DEF StartsUpTo
    <3> QED
      BY <3>1, <3>2, <3>3 DEF StartsUpTo
  <2>7. ASSUME text[m] = NL PROVE StartsUpTo(Append(s, m + 1), text, m)
    <3>1. /\ s \in Seq(Nat) /\ Len(s) >= 1 /\ s[1] = 1 /\ Len(s) \in Nat
          /\ \A i, j \in 1 .. Len(s) : i < j => s[i] < s[j]
      BY <2>4 DEF StartsUpTo
    <3>2. PICK t : t = Append(s, m + 1)
      OBVIOUS
    <3>3. /\ t \in Seq(Nat) /\ Len(t) = Len(s) + 1 /\ t[Len(s) + 1] = m + 1
          /\ \A i \in 1 .. Len(s) : t[i] = s[i] /\ i \in 1 .. Len(t)
      BY <2>2, <3>1, <3>2
    <3>4. \A i \in 1 .. Len(t) : i \in 1 .. Len(s) \/ i = Len(s) + 1
      BY <3>1, <3>3
    <3>5. ASSUME NEW i \in 1 .. Len(s)
          PROVE  /\ s[i] \in Nat /\ s[i] >= 1 /\ s[i] <= n + 1
                 /\ i # 1 => \E p \in 1 .. n : text[p] = NL /\ s[i] = p + 1
      <4>1. s[i] \in Nat /\ s[i] >= 1 /\ s[i] <= n + 1
        BY <2>4 DEF StartsUpTo
      <4>2. i # 1 => \E p \in 1 .. n : text[p] = NL /\ s[i] = p + 1
        BY <2>4 DEF StartsUpTo
      <4> QED
        BY <4>1, <4>2
    <3>6. 1 .. n \subseteq 1 .. m
      BY <2>1, <2>2
    <3>7. ASSUME NEW i \in 1 .. Len(t)
          PROVE  /\ t[i] >= 1 /\ t[i] <= m + 1
                 /\ i # 1 => \E p \in 1 .. m : text[p] = NL /\ t[i] = p + 1
      <4>1. CASE i \in 1 .. Len(s)
        <5>1. t[i] = s[i] /\ s[i] \in Nat /\ s[i] >= 1 /\ s[i] <= n + 1
          BY <3>3, <3>5, <4>1
        <5>2. i # 1 => \E p \in 1 .. m : text[p] = NL /\ t[i] = p + 1
          BY <3>3, <3>5, <3>6, <4>1
        <5> QED
          BY <2>1, <2>2, <5>1, <5>2
      <4>2. CASE i = Len(s) + 1
        BY <2>2, <2>7, <3>3, <4>2
      <4> QED
        BY <3>4, <4>1, <4>2
    <3>8. ASSUME NEW i \in 1 .. Len(t), NEW j \in 1 .. Len(t), i < j PROVE t[i] < t[j]
      <4>1. i \in 1 .. Len(s) /\ t[i] = s[i]
        BY <3>1, <3>3, <3>4, <3>8, SMTT(30)
      <4>2. CASE j \in 1 .. Len(s)
        BY <3>1, <3>3, <3>8, <4>1, <4>2
      <4>3. CASE j = Len(s) + 1
        BY <2>1, <2>2, <3>3, <3>5, <4>1, <4>3
      <4> QED
        BY <3>4, <4>2, <4>3
    <3>9. ASSUME NEW p \in 1 .. m, text[p] = NL PROVE \E i \in 1 .. Len(t) : i # 1 /\ t[i] = p + 1
      <4>1. CASE p = m
        <5>1. Len(s) + 1 \in 1 .. Len(t) /\ Len(s) + 1 # 1
          BY <3>1, <3>3
        <5> QED
          BY <3>3, <4>1, <5>1
      <4>2. CASE p # m
        <5>1. p \in 1 .. n
          BY <2>1, <2>2, <4>2
        <5>2. PICK i \in 1 .. Len(s) : i # 1 /\ s[i] = p + 1
          BY <2>4, <3>9, <5>1 DEF StartsUpTo
        <5> QED
          BY <3>3, <5>2
      <4> QED
        BY <4>1, <4>2
    <3>10. t[1] = 1 /\ Len(t) >= 1
      BY <3>1, <3>3
    <3>11. StartsUpTo(t, text, m)
      BY <3>3, <3>7, <3>8, <3>9, <3>10 DEF StartsUpTo
    <3> QED
      BY <3>2, <3>11
  <2>8. StartsUpTo(g[m], text, m)
    <3>1. CASE text[m] = NL
      BY <2>5, <2>7, <3>1
    <3>2. CASE text[m] # NL
      BY <2>5, <2>6, <3>2
    <3> QED
      BY <3>1, <3>2
  <2> QED
    BY <2>1, <2>2, <2>8
<1>4. Len(text) \in T
  <2> HIDE DEF T
  <2>1. 0 .. Len(text) \subseteq T
    BY <1>0, <1>2, <1>3, Climb
  <2> QED
    BY <1>0, <2>1
<1> QED
  BY <1>1, <1>4

\* Where a line ends.
Ends(text, m) ==
  IF m = Len(LineStarts(text)) THEN Len(text) ELSE LineStarts(text)[m + 1] - 2

\* The starts as numbers, and what is between two of them.
LEMMA LinesProps ==
  ASSUME NEW text \in Strings
  PROVE  /\ Len(text) \in Nat /\ Len(LineStarts(text)) \in Nat \ {0} /\ LineStarts(text)[1] = 1
         /\ \A i \in 1 .. Len(LineStarts(text)) :
              /\ LineStarts(text)[i] \in 1 .. Len(text) + 1
              /\ Ends(text, i) \in Nat /\ Ends(text, i) <= Len(text)
              /\ LineStarts(text)[i] <= Ends(text, i) + 1
              /\ Line(text, i) = SubSeq(text, LineStarts(text)[i], Ends(text, i))
         /\ \A i, j \in 1 .. Len(LineStarts(text)) :
              i < j => LineStarts(text)[i] < LineStarts(text)[j]
         /\ \A i, j \in 1 .. Len(LineStarts(text)) :
              j = i + 1 => /\ Ends(text, i) + 2 = LineStarts(text)[j]
                           /\ Ends(text, i) + 1 <= Len(text) /\ text[Ends(text, i) + 1] = NL
         /\ \A p \in 1 .. Len(text) : text[p] = NL =>
              \E i \in 1 .. Len(LineStarts(text)) : i # 1 /\ LineStarts(text)[i] = p + 1
         /\ \A i \in 1 .. Len(LineStarts(text)) : i # 1 =>
              \E p \in 1 .. Len(text) : text[p] = NL /\ LineStarts(text)[i] = p + 1
<1> DEFINE s == LineStarts(text)
<1>0. Len(text) \in Nat
  BY DEF Strings
<1>1. StartsUpTo(s, text, Len(text))
  BY StartsProps
<1>2. /\ s \in Seq(Nat) /\ Len(s) \in Nat \ {0} /\ s[1] = 1
      /\ \A i, j \in 1 .. Len(s) : i < j => s[i] < s[j]
      /\ \A p \in 1 .. Len(text) : text[p] = NL => \E i \in 1 .. Len(s) : i # 1 /\ s[i] = p + 1
  BY <1>1 DEF StartsUpTo
<1>3. \A i \in 1 .. Len(s) : s[i] \in 1 .. Len(text) + 1
  <2> SUFFICES ASSUME NEW i \in 1 .. Len(s) PROVE s[i] \in 1 .. Len(text) + 1
    OBVIOUS
  <2>1. s[i] \in Nat /\ s[i] >= 1 /\ s[i] <= Len(text) + 1
    BY <1>1, <1>2 DEF StartsUpTo
  <2> QED
    BY <1>0, <2>1
<1>4. \A i \in 1 .. Len(s) : i # 1 => \E p \in 1 .. Len(text) : text[p] = NL /\ s[i] = p + 1
  BY <1>1 DEF StartsUpTo
<1>5. \A i \in 1 .. Len(s) : Ends(text, i) = IF i = Len(s) THEN Len(text) ELSE s[i + 1] - 2
  BY DEF Ends
<1>6. \A i \in 1 .. Len(s) : Line(text, i) = SubSeq(text, s[i], Ends(text, i))
  BY <1>5 DEF Line
<1> HIDE DEF s
<1>7. ASSUME NEW i \in 1 .. Len(s), NEW j \in 1 .. Len(s), j = i + 1
      PROVE  /\ Ends(text, i) \in Nat /\ Ends(text, i) + 2 = s[j] /\ s[i] <= Ends(text, i) + 1
             /\ Ends(text, i) + 1 <= Len(text) /\ text[Ends(text, i) + 1] = NL
  <2>1. i # Len(s) /\ Ends(text, i) = s[j] - 2
    BY <1>2, <1>5, <1>7
  <2>2. j # 1 /\ i < j
    BY <1>7
  <2>3. PICK p \in 1 .. Len(text) : text[p] = NL /\ s[j] = p + 1
    BY <1>4, <2>2
  <2>4. Ends(text, i) + 1 = p /\ s[i] < s[j] /\ s[i] \in Nat
    BY <1>0, <1>2, <1>3, <2>1, <2>2, <2>3, SMTT(30)
  <2> QED
    BY <1>0, <2>1, <2>3, <2>4
<1>8. ASSUME NEW i \in 1 .. Len(s)
      PROVE  Ends(text, i) \in Nat /\ Ends(text, i) <= Len(text) /\ s[i] <= Ends(text, i) + 1
  <2>1. CASE i = Len(s)
    BY <1>0, <1>3, <1>5, <2>1
  <2>2. CASE i # Len(s)
    <3>1. PICK j \in 1 .. Len(s) : j = i + 1
      BY <1>2, <2>2
    <3> QED
      BY <1>0, <1>7, <3>1
  <2> QED
    BY <2>1, <2>2
<1> QED
  BY <1>0, <1>2, <1>3, <1>4, <1>6, <1>7, <1>8 DEF s

\* A newline at the end begins no line.
LEMMA LineCountProps ==
  ASSUME NEW text \in Strings, text # <<>>
  PROVE  /\ LineCount(text) \in Nat \ {0}
         /\ text[Len(text)] = NL => LineCount(text) + 1 = Len(LineStarts(text))
         /\ text[Len(text)] # NL => LineCount(text) = Len(LineStarts(text))
<1> DEFINE s == LineStarts(text)
           m == Len(s)
<1>1. Len(text) \in Nat \ {0}
  BY DEF Strings
<1>2. /\ m \in Nat \ {0} /\ s[1] = 1
      /\ \A i \in 1 .. m : s[i] \in 1 .. Len(text) + 1
      /\ \A i, j \in 1 .. m : i < j => s[i] < s[j]
      /\ \A p \in 1 .. Len(text) : text[p] = NL => \E i \in 1 .. m : i # 1 /\ s[i] = p + 1
      /\ \A i \in 1 .. m : i # 1 => \E p \in 1 .. Len(text) : text[p] = NL /\ s[i] = p + 1
  BY LinesProps
<1>3. LineCount(text) = IF s[m] > Len(text) THEN m - 1 ELSE m
  BY DEF LineCount, Last
<1> HIDE DEF s, m
<1>4. ASSUME text[Len(text)] = NL PROVE s[m] > Len(text) /\ m # 1
  <2>1. PICK i \in 1 .. m : i # 1 /\ s[i] = Len(text) + 1
    BY <1>1, <1>2, <1>4
  <2>2. i = m \/ i < m
    BY <1>2
  <2>3. s[m] \in 1 .. Len(text) + 1 /\ m \in 1 .. m
    BY <1>2
  <2>4. i < m => s[i] < s[m]
    BY <1>2, <2>3
  <2> QED
    BY <1>1, <1>2, <2>1, <2>2, <2>3, <2>4
<1>5. ASSUME text[Len(text)] # NL PROVE ~(s[m] > Len(text))
  <2> SUFFICES ASSUME s[m] > Len(text) PROVE FALSE
    OBVIOUS
  <2>1. m \in 1 .. m /\ m # 1
    BY <1>1, <1>2
  <2>2. PICK p \in 1 .. Len(text) : text[p] = NL /\ s[m] = p + 1
    BY <1>2, <2>1
  <2>3. p = Len(text)
    BY <1>1, <2>2
  <2> QED
    BY <1>5, <2>2, <2>3
<1> QED
  BY <1>2, <1>3, <1>4, <1>5 DEF s, m

\* Two parts of a text and the character between them.
LEMMA Glue ==
  ASSUME NEW t \in Strings, NEW a \in Nat, NEW b \in Nat, NEW c \in Nat,
         1 <= a, a <= b + 1, b + 1 <= c, c <= Len(t), t[b + 1] = NL
  PROVE  SubSeq(t, a, b) \o <<NL>> \o SubSeq(t, b + 2, c) = SubSeq(t, a, c)
<1> DEFINE u == SubSeq(t, a, b)
           v == SubSeq(t, b + 2, c)
           w == SubSeq(t, a, c)
<1>1. u \in Seq(Chars) /\ v \in Seq(Chars) /\ w \in Seq(Chars) /\ NL \in Chars
  BY ContentsAssumption DEF Strings
<1>2. Len(u) = b + 1 - a /\ Len(v) = c - b - 1 /\ Len(w) = c + 1 - a
  BY DEF Strings
<1>3. /\ \A i \in 1 .. Len(u) : u[i] = t[a + i - 1]
      /\ \A i \in 1 .. Len(v) : v[i] = t[b + 1 + i]
      /\ \A i \in 1 .. Len(w) : w[i] = t[a + i - 1]
  BY DEF Strings
<1> HIDE DEF u, v, w
<1>4. PICK x : x = u \o <<NL>> \o v
  OBVIOUS
<1>5. PICK y : y = u \o <<NL>>
  OBVIOUS
<1>6. /\ y \in Seq(Chars) /\ Len(y) = Len(u) + 1 /\ y[Len(u) + 1] = NL
      /\ \A i \in 1 .. Len(u) : y[i] = u[i]
  BY <1>1, <1>5
<1>7. x = y \o v
  BY <1>4, <1>5
<1>8. /\ x \in Seq(Chars) /\ Len(x) = Len(w)
      /\ \A i \in 1 .. Len(y) : x[i] = y[i]
      /\ \A i \in 1 .. Len(v) : x[Len(y) + i] = v[i]
  <2>1. x \in Seq(Chars) /\ Len(x) = Len(y) + Len(v)
    BY <1>1, <1>6, <1>7, ConcatProperties
  <2>2. \A i \in 1 .. Len(y) : x[i] = y[i]
    BY <1>1, <1>6, <1>7
  <2>3. \A i \in 1 .. Len(v) : x[Len(y) + i] = v[i]
    <3> SUFFICES ASSUME NEW i \in 1 .. Len(v) PROVE x[Len(y) + i] = v[i]
      OBVIOUS
    <3>1. PICK h \in Nat : h = Len(y) + i
      BY <1>1, <1>6
    <3>2. h > Len(y) /\ h <= Len(y) + Len(v) /\ h - Len(y) = i
      BY <1>1, <1>6, <3>1
    <3>3. x[h] = v[h - Len(y)]
      BY <1>1, <1>6, <1>7, <3>1, <3>2
    <3> QED
      BY <3>1, <3>2, <3>3
  <2>4. Len(x) = Len(w)
    BY <1>2, <1>6, <2>1
  <2> QED
    BY <2>1, <2>2, <2>3, <2>4
<1>9. ASSUME NEW i \in 1 .. Len(w) PROVE x[i] = w[i]
  <2>1. CASE i <= Len(u)
    BY <1>2, <1>3, <1>6, <1>8, <1>9, <2>1
  <2>2. CASE i = Len(u) + 1
    <3>1. a + i - 1 = b + 1
      BY <1>2, <2>2
    <3>2. x[i] = NL
      BY <1>2, <1>6, <1>8, <2>2
    <3> QED
      BY <1>3, <3>1, <3>2
  <2>3. CASE i > Len(u) + 1
    <3>1. PICK j \in 1 .. Len(v) : j = i - (Len(u) + 1)
      BY <1>2, <2>3
    <3>2. i = Len(y) + j /\ a + i - 1 = b + 1 + j
      BY <1>2, <1>6, <3>1
    <3>3. x[i] = v[j]
      BY <1>8, <3>2
    <3> QED
      BY <1>3, <3>2, <3>3
  <2> QED
    BY <1>2, <2>1, <2>2, <2>3
<1>10. x = w
  BY <1>1, <1>8, <1>9
<1> QED
  BY <1>4, <1>10 DEF u, v, w

\* A window of lines, joined again, is a part of the text.
LEMMA WindowIs ==
  ASSUME NEW text \in Strings, NEW k \in Nat \ {0}, NEW n \in Nat \ {0},
         k + n - 1 <= Len(LineStarts(text))
  PROVE  Window(text, k, n) = SubSeq(text, LineStarts(text)[k], Ends(text, k + n - 1))
<1> DEFINE s == LineStarts(text)
           end(i) == Ends(text, i)
           lines == [i \in 1 .. n |-> Line(text, k + i - 1)]
<1>1. /\ Len(text) \in Nat /\ Len(s) \in Nat \ {0}
      /\ \A i \in 1 .. Len(s) :
           /\ s[i] \in 1 .. Len(text) + 1
           /\ end(i) \in Nat /\ end(i) <= Len(text) /\ s[i] <= end(i) + 1
           /\ Line(text, i) = SubSeq(text, s[i], end(i))
      /\ \A i, j \in 1 .. Len(s) : i < j => s[i] < s[j]
      /\ \A i, j \in 1 .. Len(s) : j = i + 1 =>
           end(i) + 2 = s[j] /\ end(i) + 1 <= Len(text) /\ text[end(i) + 1] = NL
  BY LinesProps
<1>2. Window(text, k, n) = Joined(lines)
  BY DEF Window
<1> HIDE DEF s, end
<1>3. \A i \in 1 .. n : k + i - 1 \in 1 .. Len(s)
  BY <1>1 DEF s
<1>4. \A i \in 1 .. n : Line(text, k + i - 1) \in Strings
  <2> SUFFICES ASSUME NEW i \in 1 .. n PROVE Line(text, k + i - 1) \in Strings
    OBVIOUS
  <2>1. PICK m \in 1 .. Len(s) : m = k + i - 1
    BY <1>3
  <2>2. Line(text, m) = SubSeq(text, s[m], end(m)) /\ s[m] \in Nat \ {0} /\ end(m) \in Nat
        /\ end(m) <= Len(text)
    BY <1>1
  <2>3. SubSeq(text, s[m], end(m)) \in Strings
    BY <2>2 DEF Strings
  <2> QED
    BY <2>1, <2>2, <2>3
<1>5. lines \in Seq(Strings) /\ Len(lines) = n /\ \A i \in 1 .. n : lines[i] = Line(text, k + i - 1)
  BY <1>4
<1> HIDE DEF lines
<1>6. PICK g \in [0 .. Len(lines) -> Strings] :
        /\ Joined(lines) = g[Len(lines)] /\ g[0] = <<>>
        /\ \A i \in 1 .. Len(lines) :
             g[i] = IF i = 1 THEN lines[1] ELSE g[i - 1] \o <<NL>> \o lines[i]
  BY <1>5, JoinedSteps
<1> DEFINE T == {i \in Nat : g[i] = SubSeq(text, s[k], end(k + i - 1))}
<1>7. 1 \in T
  <2>1. g[1] = lines[1] /\ 1 \in 1 .. n
    BY <1>5, <1>6
  <2>2. PICK m \in 1 .. Len(s) : m = k + 1 - 1
    BY <1>3, <2>1
  <2>3. m = k
    BY <2>2
  <2>4. g[1] = SubSeq(text, s[m], end(m))
    BY <1>1, <1>5, <2>1, <2>2
  <2> QED
    BY <2>2, <2>3, <2>4
<1>8. ASSUME NEW i \in 1 .. n, i < n, i \in T PROVE i + 1 \in T
  <2>1. PICK h \in 1 .. n : h = i + 1
    BY <1>8
  <2>2. PICK m \in 1 .. Len(s) : m = k + i - 1
    BY <1>3
  <2>3. PICK p \in 1 .. Len(s) : p = k + h - 1
    BY <1>3
  <2>4. p = m + 1 /\ h # 1 /\ h - 1 = i /\ k \in 1 .. Len(s) /\ (k = m \/ k < m) /\ h \in Nat
    BY <1>1, <2>1, <2>2, <2>3
  <2>5. g[h] = g[i] \o <<NL>> \o lines[h]
    BY <1>5, <1>6, <2>4
  <2>6. g[i] = SubSeq(text, s[k], end(m))
    BY <1>8, <2>2
  <2>7. lines[h] = SubSeq(text, s[p], end(p))
    BY <1>1, <1>5, <2>3
  <2>8. PICK a \in Nat : a = s[k]
    <3>1. s[k] \in 1 .. Len(text) + 1
      BY <1>1, <2>4
    <3> QED
      BY <3>1
  <2>9. PICK b \in Nat : b = end(m)
    BY <1>1
  <2>10. PICK c \in Nat : c = end(p)
    BY <1>1
  <2>11. b + 2 = s[p] /\ text[b + 1] = NL
    BY <1>1, <2>4, <2>9
  <2>12. 1 <= a /\ c <= Len(text)
    BY <1>1, <2>4, <2>8, <2>10, SMTT(30)
  <2>13. b + 1 <= c
    <3>1. s[p] <= c + 1
      BY <1>1, <2>10
    <3> QED
      BY <2>11, <3>1
  <2>14. a <= b + 1
    <3>1. s[m] <= b + 1 /\ s[m] \in Nat
      BY <1>1, <2>9
    <3>2. k < m => s[k] < s[m]
      BY <1>1, <2>4
    <3> QED
      BY <2>4, <2>8, <3>1, <3>2
  <2>15. SubSeq(text, a, b) \o <<NL>> \o SubSeq(text, b + 2, c) = SubSeq(text, a, c)
    BY <2>11, <2>12, <2>13, <2>14, Glue
  <2>16. g[h] = SubSeq(text, s[k], end(p))
    BY <2>5, <2>6, <2>7, <2>8, <2>9, <2>10, <2>11, <2>15
  <2> QED
    BY <2>1, <2>3, <2>4, <2>16
<1>9. n \in T
  <2> HIDE DEF T
  <2>1. 1 \in Nat /\ n \in Nat
    OBVIOUS
  <2>2. 1 .. n \subseteq T
    BY <1>7, <1>8, <2>1, Climb
  <2> QED
    BY <2>2
<1> QED
  BY <1>2, <1>5, <1>6, <1>9 DEF s, end

\* The range of a window of lines is that part.
LEMMA RangeIs ==
  ASSUME NEW text \in Strings, text # <<>>, NEW k \in Nat \ {0}, NEW n \in Nat \ {0},
         k + n - 1 <= LineCount(text)
  PROVE  RangeOfLines(text, k, n) = Found(LineStarts(text)[k], Ends(text, k + n - 1))
<1> DEFINE s == LineStarts(text)
<1>1. /\ Len(text) \in Nat \ {0} /\ Len(s) \in Nat \ {0}
      /\ \A i \in 1 .. Len(s) : s[i] \in 1 .. Len(text) + 1
      /\ \A i, j \in 1 .. Len(s) : i < j => s[i] < s[j]
      /\ \A i, j \in 1 .. Len(s) : j = i + 1 =>
           Ends(text, i) + 2 = s[j] /\ Ends(text, i) + 1 <= Len(text)
             /\ text[Ends(text, i) + 1] = NL
  BY LinesProps DEF Strings
<1>2. /\ LineCount(text) \in Nat
      /\ text[Len(text)] = NL => LineCount(text) + 1 = Len(s)
      /\ text[Len(text)] # NL => LineCount(text) = Len(s)
  BY LineCountProps
<1>3. PICK m \in 1 .. Len(s) : m = k + n - 1
  BY <1>1, <1>2
<1>4. PICK p \in Nat : p = k + n
  OBVIOUS
<1>5. p = m + 1 /\ k \in 1 .. Len(s) /\ (k = m \/ k < m)
  BY <1>1, <1>2, <1>3, <1>4
<1>6. PICK e : e = IF p <= Len(s) THEN s[p] - 1 ELSE Len(text)
  OBVIOUS
<1>7. RangeOfLines(text, k, n)
        = Found(s[k], IF e >= s[k] /\ text[e] = NL THEN e - 1 ELSE e)
  BY <1>4, <1>6 DEF RangeOfLines
<1>8. Ends(text, m) = IF m = Len(s) THEN Len(text) ELSE s[p] - 2
  BY <1>5 DEF Ends
<1> HIDE DEF s
<1>9. CASE m = Len(s)
  <2>1. e = Len(text) /\ Ends(text, m) = Len(text)
    BY <1>1, <1>5, <1>6, <1>8, <1>9
  <2>2. text[Len(text)] # NL
    BY <1>1, <1>2, <1>3, <1>9
  <2> QED
    BY <1>3, <1>7, <2>1, <2>2 DEF s
<1>10. CASE m # Len(s)
  <2>1. p \in 1 .. Len(s)
    BY <1>1, <1>5, <1>10
  <2>2. e = s[p] - 1 /\ s[p] = Ends(text, m) + 2 /\ text[Ends(text, m) + 1] = NL
    BY <1>1, <1>5, <1>6, <2>1
  <2>3. s[k] < s[p] /\ s[k] \in Nat /\ s[p] \in Nat
    BY <1>1, <1>5, <2>1
  <2>4. PICK x \in Int : x = Ends(text, m)
    BY <1>8, <1>10, <2>3
  <2>5. e = x + 1 /\ text[e] = NL /\ e >= s[k] /\ e - 1 = x
    BY <2>2, <2>3, <2>4
  <2> QED
    BY <1>3, <1>7, <2>4, <2>5 DEF s
<1> QED
  BY <1>9, <1>10

\* Where a newline stands.
LEMMA NewlinesOf ==
  ASSUME NEW part \in Strings
  PROVE  Occurrences(part, <<NL>>) = {i \in 1 .. Len(part) : part[i] = NL}
<1>1. Len(part) \in Nat /\ Len(<<NL>>) = 1
  BY DEF Strings
<1>2. Occurrences(part, <<NL>>)
        = {i \in 1 .. (Len(part) - 1 + 1) : SubSeq(part, i, i + 1 - 1) = <<NL>>}
  BY <1>1 DEF Occurrences
<1>3. Len(part) - 1 + 1 = Len(part)
  BY <1>1
<1>4. ASSUME NEW i \in 1 .. Len(part)
      PROVE  SubSeq(part, i, i + 1 - 1) = <<NL>> <=> part[i] = NL
  <2>1. i + 1 - 1 = i
    OBVIOUS
  <2>2. SubSeq(part, i, i) = <<part[i]>>
    <3>1. PICK u : u = SubSeq(part, i, i)
      OBVIOUS
    <3>2. i \in Int /\ i - i + 1 = 1 /\ i + 1 - 1 = i /\ (\A h \in i .. i : h = i) /\ part[i] \in Chars
      BY <1>1 DEF Strings
    <3>3. u \in Seq(Chars) /\ Len(u) = 1 /\ u[1] = part[i]
      <4>1. /\ SubSeq(part, i, i) \in Seq(Chars)
            /\ Len(SubSeq(part, i, i)) = IF i <= i THEN i - i + 1 ELSE 0
            /\ \A h \in 1 .. i - i + 1 : SubSeq(part, i, i)[h] = part[i + h - 1]
        <5>1. i \in Int /\ \A h \in i .. i : part[h] \in Chars
          BY <3>2
        <5> QED
          BY <5>1, SubSeqProperties
      <4>2. /\ u \in Seq(Chars) /\ Len(u) = IF i <= i THEN i - i + 1 ELSE 0
            /\ \A h \in 1 .. i - i + 1 : u[h] = part[i + h - 1]
        BY <3>1, <4>1
      <4>3. i <= i /\ 1 \in 1 .. 1
        BY <3>2
      <4>4. Len(u) = 1 /\ u[1] = part[i]
        BY <3>2, <4>2, <4>3
      <4> QED
        BY <4>2, <4>4
    <3>4. PICK w : w = <<part[i]>>
      OBVIOUS
    <3>5. w \in Seq(Chars) /\ Len(w) = 1 /\ w[1] = part[i]
      BY <3>2, <3>4
    <3>6. Len(u) = Len(w) /\ \A h \in 1 .. Len(u) : u[h] = w[h]
      BY <3>3, <3>5
    <3>7. u = w
      BY <3>3, <3>5, <3>6, SeqEqual
    <3> QED
      BY <3>1, <3>4, <3>7
  <2> QED
    BY <2>1, <2>2
<1> QED
  BY <1>2, <1>3, <1>4

\* From one line to another there is a newline less than there are lines.
LEMMA NewlinesBetween ==
  ASSUME NEW text \in Strings, NEW k \in 1 .. Len(LineStarts(text)),
         NEW m \in 1 .. Len(LineStarts(text)), k <= m
  PROVE  Cardinality(Occurrences(SubSeq(text, LineStarts(text)[k], Ends(text, m)), <<NL>>))
           = m - k
<1> DEFINE s == LineStarts(text)
           part == SubSeq(text, s[k], Ends(text, m))
<1>1. /\ Len(text) \in Nat /\ Len(s) \in Nat \ {0}
      /\ \A i \in 1 .. Len(s) :
           /\ s[i] \in 1 .. Len(text) + 1
           /\ Ends(text, i) \in Nat /\ Ends(text, i) <= Len(text) /\ s[i] <= Ends(text, i) + 1
      /\ \A i, j \in 1 .. Len(s) : i < j => s[i] < s[j]
      /\ \A i, j \in 1 .. Len(s) : j = i + 1 => Ends(text, i) + 2 = s[j]
      /\ \A p \in 1 .. Len(text) : text[p] = NL =>
           \E i \in 1 .. Len(s) : i # 1 /\ s[i] = p + 1
      /\ \A i \in 1 .. Len(s) : i # 1 => \E p \in 1 .. Len(text) : text[p] = NL /\ s[i] = p + 1
  BY LinesProps
<1>2. k \in Nat /\ m \in Nat /\ k \in 1 .. Len(s) /\ m \in 1 .. Len(s)
  OBVIOUS
<1> HIDE DEF s
<1>3. PICK a \in Nat : a = s[k] /\ a >= 1
  <2>1. s[k] \in 1 .. Len(text) + 1
    BY <1>1, <1>2
  <2> QED
    BY <2>1
<1>4. PICK b \in Nat : b = Ends(text, m) /\ b <= Len(text) /\ a <= b + 1
  <2>1. Ends(text, m) \in Nat /\ Ends(text, m) <= Len(text)
    BY <1>1, <1>2
  <2>2. s[m] <= Ends(text, m) + 1 /\ s[m] \in Nat
    BY <1>1, <1>2
  <2>3. k = m \/ s[k] < s[m]
    BY <1>1, <1>2
  <2> QED
    BY <1>3, <2>1, <2>2, <2>3
<1>5. /\ part \in Strings /\ Len(part) = b + 1 - a
      /\ \A i \in 1 .. Len(part) : part[i] = text[a + i - 1]
  <2>1. part = SubSeq(text, a, b)
    BY <1>3, <1>4
  <2> HIDE DEF part
  <2>2. text \in Seq(Chars) /\ \A i \in a .. b : text[i] \in Chars
    BY <1>1, <1>3, <1>4 DEF Strings
  <2>3. /\ SubSeq(text, a, b) \in Seq(Chars)
        /\ Len(SubSeq(text, a, b)) = IF a <= b THEN b - a + 1 ELSE 0
        /\ \A i \in 1 .. b - a + 1 : SubSeq(text, a, b)[i] = text[a + i - 1]
    BY <2>2, SubSeqProperties
  <2> QED
    BY <1>4, <2>1, <2>3 DEF Strings
<1> HIDE DEF part
<1>6. Occurrences(part, <<NL>>) = {i \in 1 .. Len(part) : part[i] = NL}
  BY <1>5, NewlinesOf
<1> DEFINE O == {i \in 1 .. Len(part) : part[i] = NL}
           J == k + 1 .. m
           f == [j \in J |-> s[j] - a]
<1>7. ASSUME NEW j \in J PROVE j \in 1 .. Len(s) /\ s[j] \in Nat /\ s[j] - a \in O
  <2>1. j \in 1 .. Len(s) /\ k < j /\ j <= m /\ j # 1 /\ j \in Nat
    BY <1>2
  <2>2. PICK p \in 1 .. Len(text) : text[p] = NL /\ s[j] = p + 1
    BY <1>1, <2>1
  <2>3. s[k] < s[j]
    BY <1>1, <1>2, <2>1
  <2>4. s[j] <= b + 1
    <3>1. s[m] <= b + 1 /\ s[m] \in Nat
      BY <1>1, <1>2, <1>4
    <3>2. j = m \/ s[j] < s[m]
      BY <1>1, <1>2, <2>1
    <3> QED
      BY <2>2, <3>1, <3>2
  <2>5. PICK i \in Nat : i = s[j] - a
    BY <1>3, <2>2, <2>3
  <2>6. i \in 1 .. Len(part) /\ a + i - 1 = p
    <3>1. PICK v \in Nat : v = s[j]
      BY <2>2
    <3>2. v = p + 1 /\ a < v /\ v <= b + 1 /\ i = v - a
      BY <1>3, <2>2, <2>3, <2>4, <2>5, <3>1
    <3>3. Len(part) = b + 1 - a
      BY <1>5
    <3> QED
      BY <3>2, <3>3
  <2>7. part[i] = NL
    BY <1>5, <2>2, <2>6
  <2> QED
    BY <2>1, <2>2, <2>5, <2>6, <2>7
<1>8. ASSUME NEW i \in O PROVE \E j \in J : s[j] - a = i
  <2>1. PICK p \in Nat : p = a + i - 1
    BY <1>3
  <2>2. p \in 1 .. Len(text) /\ text[p] = NL /\ p <= b /\ p >= a
    <3>1. i \in 1 .. Len(part) /\ part[i] = NL
      BY <1>8
    <3>2. text[p] = NL
      BY <1>5, <2>1, <3>1
    <3>3. Len(part) = b + 1 - a /\ i \in Nat /\ i >= 1 /\ i <= Len(part)
      BY <1>5, <3>1
    <3>4. p <= b /\ p >= a
      BY <2>1, <3>3
    <3> QED
      BY <1>1, <1>3, <1>4, <3>2, <3>4
  <2>3. PICK j \in 1 .. Len(s) : s[j] = p + 1
    BY <1>1, <2>2
  <2>4. k < j
    <3>1. j = k \/ j < k => s[j] <= a
      <4>1. s[j] \in Nat
        BY <2>3
      <4>2. j < k => s[j] < s[k]
        BY <1>1, <1>2
      <4> QED
        BY <1>3, <4>1, <4>2
    <3> QED
      BY <1>2, <2>2, <2>3, <3>1
  <2>5. j <= m
    <3> SUFFICES ASSUME m < j PROVE FALSE
      BY <1>2
    <3>1. PICK h \in 1 .. Len(s) : h = m + 1
      BY <1>2
    <3>2. Ends(text, m) + 2 = s[h] /\ s[h] \in Nat
      <4>1. s[h] \in 1 .. Len(text) + 1
        BY <1>1
      <4>2. m \in 1 .. Len(s)
        BY <1>2
      <4>3. Ends(text, m) + 2 = s[h]
        BY <1>1, <3>1, <4>2
      <4> QED
        BY <4>1, <4>3
    <3>3. h = j \/ s[h] < s[j]
      <4>1. h = j \/ h < j
        BY <1>2, <3>1
      <4> QED
        BY <1>1, <4>1
    <3> QED
      BY <1>4, <2>2, <2>3, <3>2, <3>3, SMTT(30)
  <2> QED
    BY <1>2, <1>3, <2>1, <2>3, <2>4, <2>5
<1>9. ASSUME NEW i \in J, NEW j \in J, f[i] = f[j] PROVE i = j
  <2>1. i \in 1 .. Len(s) /\ j \in 1 .. Len(s) /\ s[i] \in Nat /\ s[j] \in Nat
    BY <1>7
  <2>2. s[i] = s[j]
    BY <1>3, <1>9, <2>1
  <2>3. i < j \/ j < i \/ i = j
    OBVIOUS
  <2> QED
    BY <1>1, <2>1, <2>2, <2>3
<1>10. f \in [J -> O]
  <2>1. \A j \in J : s[j] - a \in O
    BY <1>7
  <2> HIDE DEF J, O
  <2> QED
    BY <2>1
<1>11. f \in Surjection(J, O)
  <2>1. \A i \in O : \E j \in J : f[j] = i
    BY <1>8
  <2> HIDE DEF f, J, O
  <2> QED
    BY <1>10, <2>1 DEF Surjection
<1>12. ExistsBijection(J, O)
  <2> HIDE DEF f, J, O
  <2> QED
    BY <1>9, <1>10, <1>11, Fun_IsBij DEF ExistsBijection
<1>13. IsFiniteSet(J) /\ Cardinality(J) = m - k
  <2>1. k + 1 \in Int /\ m \in Int
    BY <1>2
  <2>2. IsFiniteSet(J) /\ Cardinality(J) = IF k + 1 > m THEN 0 ELSE m - (k + 1) + 1
    BY <2>1, FS_Interval
  <2> QED
    BY <1>2, <2>2
<1>14. Cardinality(O) = m - k
  <2> HIDE DEF J, O
  <2> QED
    BY <1>12, <1>13, FS_Bijection
<1> QED
  BY <1>6, <1>14 DEF s, part

\* The windows of whole lines, counted by lines.
LEMMA WindowsAre ==
  ASSUME NEW text \in Strings, text # <<>>, NEW needle \in Strings, needle # <<>>,
         NEW n, n = LineCount(needle)
  PROVE  /\ \A k \in 1 .. LineCount(text) - n + 1 :
              <<LineStarts(text)[k], Ends(text, k + n - 1)>> \in LineWindows(text, needle)
         /\ \A r \in LineWindows(text, needle) : \E k \in 1 .. LineCount(text) - n + 1 :
              r = <<LineStarts(text)[k], Ends(text, k + n - 1)>>
<1> DEFINE s == LineStarts(text)
           c == LineCount(text)
<1>1. /\ Len(text) \in Nat \ {0} /\ Len(s) \in Nat \ {0} /\ s[1] = 1
      /\ \A i \in 1 .. Len(s) :
           /\ s[i] \in 1 .. Len(text) + 1
           /\ Ends(text, i) \in Nat /\ Ends(text, i) <= Len(text) /\ s[i] <= Ends(text, i) + 1
      /\ \A i, j \in 1 .. Len(s) : i < j => s[i] < s[j]
      /\ \A i, j \in 1 .. Len(s) : j = i + 1 =>
           /\ Ends(text, i) + 2 = s[j]
           /\ Ends(text, i) + 1 <= Len(text) /\ text[Ends(text, i) + 1] = NL
      /\ \A p \in 1 .. Len(text) : text[p] = NL =>
           \E i \in 1 .. Len(s) : i # 1 /\ s[i] = p + 1
      /\ \A i \in 1 .. Len(s) : i # 1 => \E p \in 1 .. Len(text) : text[p] = NL /\ s[i] = p + 1
  BY LinesProps DEF Strings
<1>2. /\ c \in Nat \ {0}
      /\ text[Len(text)] = NL => c + 1 = Len(s)
      /\ text[Len(text)] # NL => c = Len(s)
  BY LineCountProps
<1>3. n \in Nat \ {0}
  BY LineCountProps
<1>4. Ends(text, Len(s)) = Len(text)
  BY DEF Ends
<1>5. \A r : r \in LineWindows(text, needle) <=>
        /\ r \in (1..Len(text) + 1) \X (0..Len(text))
        /\ r[1] <= r[2] + 1
        /\ r[1] = 1 \/ text[r[1] - 1] = NL
        /\ r[1] <= Len(text)
        /\ IF r[2] = Len(text) THEN text[r[2]] # NL ELSE text[r[2] + 1] = NL
        /\ Cardinality(Occurrences(SubSeq(text, r[1], r[2]), <<NL>>)) = n - 1
  BY DEF LineWindows
<1> HIDE DEF s, c
<1>6. ASSUME NEW k \in 1 .. c - n + 1 PROVE <<s[k], Ends(text, k + n - 1)>> \in LineWindows(text, needle)
  <2>1. PICK m \in Nat : m = k + n - 1
    BY <1>3
  <2>2. m \in 1 .. c /\ m \in 1 .. Len(s) /\ k \in 1 .. Len(s) /\ k <= m /\ k \in 1 .. c /\ k \in Nat
    <3>1. c <= Len(s) /\ c \in Nat /\ Len(s) \in Nat
      BY <1>1, <1>2
    <3>2. k \in Nat /\ k >= 1 /\ k <= c - n + 1
      BY <1>3, <3>1
    <3>3. m <= c /\ k <= m /\ m >= 1
      BY <1>3, <2>1, <3>1, <3>2, SMTT(30)
    <3> QED
      BY <2>1, <3>1, <3>2, <3>3
  <2>3. PICK a \in 1 .. Len(text) + 1 : a = s[k]
    BY <1>1, <2>2
  <2>4. PICK b \in 0 .. Len(text) : b = Ends(text, m)
    <3>1. Ends(text, m) \in Nat /\ Ends(text, m) <= Len(text)
      BY <1>1, <2>2
    <3> QED
      BY <1>1, <3>1
  <2>5. a <= b + 1
    <3>1. s[m] <= b + 1 /\ s[m] \in Nat
      BY <1>1, <2>2, <2>4
    <3>2. k = m \/ s[k] < s[m]
      BY <1>1, <2>2
    <3> QED
      BY <2>3, <2>4, <3>1, <3>2
  <2>6. a = 1 \/ (text[a - 1] = NL /\ a # 1 /\ a - 1 \in 1 .. Len(text))
    <3>1. CASE k = 1
      BY <1>1, <2>3, <3>1
    <3>2. CASE k # 1
      <4>1. PICK p \in 1 .. Len(text) : text[p] = NL /\ s[k] = p + 1
        BY <1>1, <2>2, <3>2
      <4>2. a - 1 = p
        BY <2>3, <4>1
      <4> QED
        BY <4>1, <4>2
    <3> QED
      BY <3>1, <3>2
  <2>7. a <= Len(text)
    <3> SUFFICES ASSUME a = Len(text) + 1 PROVE FALSE
      BY <1>1, <2>3
    <3>1. text[Len(text)] = NL
      <4>1. a - 1 = Len(text) /\ a # 1
        BY <1>1
      <4> QED
        BY <2>6, <4>1
    <3>2. Len(s) \in 1 .. Len(s) /\ k < Len(s)
      BY <1>1, <1>2, <2>2, <3>1
    <3>3. s[k] < s[Len(s)] /\ s[Len(s)] \in 1 .. Len(text) + 1
      BY <1>1, <2>2, <3>2
    <3> QED
      BY <1>1, <2>3, <3>3
  <2>8. IF b = Len(text) THEN text[b] # NL ELSE text[b + 1] = NL
    <3>1. CASE m = Len(s)
      BY <1>2, <1>4, <2>2, <2>4, <3>1
    <3>2. CASE m # Len(s)
      <4>1. PICK h \in 1 .. Len(s) : h = m + 1
        BY <1>1, <2>2, <3>2
      <4>2. b + 1 <= Len(text) /\ text[b + 1] = NL
        BY <1>1, <2>2, <2>4, <4>1
      <4> QED
        BY <1>1, <4>2
    <3> QED
      BY <3>1, <3>2
  <2>9. Cardinality(Occurrences(SubSeq(text, a, b), <<NL>>)) = n - 1
    <3>1. Cardinality(Occurrences(SubSeq(text, s[k], Ends(text, m)), <<NL>>)) = m - k
      BY <2>2, NewlinesBetween DEF s
    <3>2. m - k = n - 1
      BY <1>3, <2>1, <2>2
    <3> QED
      BY <2>3, <2>4, <3>1, <3>2
  <2>10. PICK r : r = <<a, b>>
    OBVIOUS
  <2>11. r[1] = a /\ r[2] = b /\ r \in (1..Len(text) + 1) \X (0..Len(text))
    BY <2>10
  <2>12. r \in LineWindows(text, needle)
    BY <1>5, <2>5, <2>6, <2>7, <2>8, <2>9, <2>11
  <2> QED
    BY <2>1, <2>3, <2>4, <2>10, <2>12
<1>7. ASSUME NEW r \in LineWindows(text, needle)
      PROVE  \E k \in 1 .. c - n + 1 : r = <<s[k], Ends(text, k + n - 1)>>
  <2>1. PICK a \in 1..Len(text) + 1, b \in 0..Len(text) : r = <<a, b>>
    BY <1>5
  <2>2. /\ r[1] = a /\ r[2] = b /\ a <= b + 1 /\ a <= Len(text)
        /\ a = 1 \/ text[a - 1] = NL
        /\ IF b = Len(text) THEN text[b] # NL ELSE text[b + 1] = NL
        /\ Cardinality(Occurrences(SubSeq(text, a, b), <<NL>>)) = n - 1
    BY <1>5, <2>1
  <2>3. PICK k \in 1 .. Len(s) : s[k] = a
    <3>1. CASE a = 1
      <4>1. 1 \in 1 .. Len(s)
        BY <1>1
      <4> QED
        BY <1>1, <3>1, <4>1
    <3>2. CASE a # 1
      <4>1. PICK p \in 1 .. Len(text) : p = a - 1
        BY <1>1, <2>2, <3>2
      <4>2. text[p] = NL /\ p + 1 = a
        BY <2>2, <3>2, <4>1
      <4> QED
        BY <1>1, <4>2
    <3> QED
      BY <3>1, <3>2
  <2>4. PICK m \in 1 .. Len(s) : Ends(text, m) = b /\ m <= c /\ k <= m
    <3>1. CASE b = Len(text)
      <4>1. Len(s) \in 1 .. Len(s) /\ Len(s) = c /\ k <= Len(s)
        BY <1>1, <1>2, <2>2, <3>1
      <4> QED
        BY <1>4, <3>1, <4>1
    <3>2. CASE b # Len(text)
      <4>1. PICK p \in 1 .. Len(text) : p = b + 1
        BY <1>1, <3>2
      <4>2. text[p] = NL
        BY <2>2, <3>2, <4>1
      <4>3. PICK j \in 1 .. Len(s) : j # 1 /\ s[j] = p + 1
        BY <1>1, <4>2
      <4>4. PICK m \in 1 .. Len(s) : m = j - 1
        BY <1>1, <4>3
      <4>5. j = m + 1
        BY <4>4
      <4>6. Ends(text, m) + 2 = s[j] /\ Ends(text, m) \in Nat
        BY <1>1, <4>5
      <4>7. Ends(text, m) = b /\ m <= c
        <5>1. m < Len(s)
          BY <1>1, <4>5
        <5>2. PICK e \in Nat : e = Ends(text, m)
          BY <4>6
        <5>3. e + 2 = p + 1
          BY <4>3, <4>6, <5>2
        <5>4. e = b
          BY <4>1, <5>2, <5>3
        <5>5. m <= c
          <6>1. c = Len(s) \/ c + 1 = Len(s)
            BY <1>2
          <6>2. c \in Nat /\ m \in Nat /\ Len(s) \in Nat
            BY <1>1, <1>2
          <6> QED
            BY <5>1, <6>1, <6>2
        <5> QED
          BY <5>2, <5>4, <5>5
      <4>8. k < j
        <5>1. s[k] < s[j]
          BY <2>2, <2>3, <4>1, <4>3
        <5>2. j < k => s[j] < s[k]
          BY <1>1
        <5>3. s[j] \in Nat /\ s[k] \in Nat
          BY <2>2, <2>3, <4>1, <4>3
        <5> QED
          BY <5>1, <5>2, <5>3
      <4> QED
        BY <4>5, <4>7, <4>8
    <3> QED
      BY <3>1, <3>2
  <2>5. Cardinality(Occurrences(SubSeq(text, s[k], Ends(text, m)), <<NL>>)) = m - k
    BY <2>4, NewlinesBetween DEF s
  <2>6. m - k = n - 1
    BY <2>2, <2>3, <2>4, <2>5
  <2>7. k + n - 1 = m /\ k \in 1 .. c - n + 1
    BY <1>2, <1>3, <2>4, <2>6
  <2> QED
    BY <2>1, <2>3, <2>4, <2>7
<1> QED
  BY <1>6, <1>7 DEF s, c

-----------------------------------------------------------------------------
(* Distances *)

Rows(t) == {r \in Seq(Int) : Len(r) = Len(t) + 1}
Cells == {r \in Seq(Int) : Len(r) >= 1}
FirstCell(row) == <<row[1] + 1>>
WithNextCell(row, c, t, n, left) ==
  Append(left, Smaller(Smaller(row[n + 1], Last(left)) + 1,
                       row[n] + (IF c = t[n] THEN 0 ELSE 1)))

\* The cells of a row so far.
LEMMA CellsSteps ==
  ASSUME NEW t \in Strings, NEW row \in Rows(t), NEW c
  PROVE  \E g \in [0 .. Len(t) -> Cells] :
           /\ NextRow(row, c, t) = g[Len(t)] /\ g[0] = FirstCell(row)
           /\ \A n \in 1 .. Len(t) : g[n] = WithNextCell(row, c, t, n, g[n - 1])
<1> DEFINE k == Len(t)
           S == Cells
           step(n, x) == WithNextCell(row, c, t, n, x)
           next == [n \in 1 .. k |-> [x \in S |-> step(n, x)]]
           Fits(f) == f = [n \in 0 .. k |->
                        IF n = 0 THEN FirstCell(row) ELSE WithNextCell(row, c, t, n, f[n - 1])]
<1>1. k \in Nat /\ FirstCell(row) \in S
  <2>1. row \in Seq(Int) /\ 1 \in 1 .. Len(row) /\ Len(t) \in Nat
    BY DEF Rows, Strings
  <2>2. row[1] + 1 \in Int
    BY <2>1
  <2> QED
    BY <2>1, <2>2 DEF Cells, FirstCell
<1>2. \A n \in 1 .. k, x \in S : step(n, x) \in S
  <2> SUFFICES ASSUME NEW n \in 1 .. k, NEW x \in S PROVE step(n, x) \in S
    OBVIOUS
  <2>1. x \in Seq(Int) /\ Len(x) >= 1 /\ Len(x) \in Nat
    BY DEF Cells
  <2>2. Last(x) \in Int
    BY <2>1 DEF Last
  <2>3. row \in Seq(Int) /\ n \in 1 .. Len(row) /\ n + 1 \in 1 .. Len(row)
    BY DEF Rows, Strings
  <2>4. row[n] \in Int /\ row[n + 1] \in Int
    BY <2>3
  <2>5. PICK v : v = Smaller(Smaller(row[n + 1], Last(x)) + 1, row[n] + (IF c = t[n] THEN 0 ELSE 1))
    OBVIOUS
  <2>6. v \in Int
    BY <2>2, <2>4, <2>5 DEF Smaller
  <2>7. Append(x, v) \in Seq(Int) /\ Len(Append(x, v)) = Len(x) + 1
    BY <2>1, <2>6
  <2> QED
    BY <2>1, <2>5, <2>7 DEF Cells, WithNextCell
<1>3. NextRow(row, c, t) = (CHOOSE f : Fits(f))[k]
  BY DEF NextRow, FirstCell, WithNextCell
<1>4. next \in [1 .. k -> [S -> S]]
  <2> HIDE DEF k, S, step
  <2> QED
    BY <1>2
<1>5. PICK g \in [0 .. k -> S] : g[0] = FirstCell(row) /\ \A n \in 1 .. k :
                 g[n] = step(n, g[n - 1])
  <2> HIDE DEF step, k, S
  <2>1. next \in [1 .. k -> [S -> S]] /\ \A n \in 1 .. k, x \in S : next[n][x] = step(n, x)
    BY <1>4
  <2> HIDE DEF next
  <2>2. PICK g : Recursion(g, k, S, FirstCell(row), next)
    BY <1>1, <2>1, RecursionExists
  <2>3. \A n \in 1 .. k : n - 1 \in 0 .. k
    BY <1>1
  <2> QED
    BY <2>1, <2>2, <2>3 DEF Recursion
<1>6. Fits(g)
  <2> DEFINE value(n) == IF n = 0 THEN FirstCell(row) ELSE WithNextCell(row, c, t, n, g[n - 1])
  <2>1. \A n \in 0 .. k : n = 0 \/ (n # 0 /\ n \in 1 .. k)
    BY <1>1
  <2>2. \A n \in 0 .. k : g[n] = value(n)
    <3> HIDE DEF k, S
    <3> QED
      BY <1>5, <2>1
  <2>3. g = [n \in 0 .. k |-> g[n]]
    BY <1>5
  <2>4. g = [n \in 0 .. k |-> value(n)]
    <3> HIDE DEF value, k, S
    <3> QED
      BY <2>2, <2>3
  <2> QED
    BY <2>4
<1>7. PICK f : f = CHOOSE h : Fits(h)
  OBVIOUS
<1>8. Fits(f)
  <2> HIDE DEF Fits
  <2> QED
    BY <1>6, <1>7
<1> HIDE DEF k, S
<1> DEFINE T == {n \in Nat : f[n] = g[n]}
<1>9. 0 \in T
  BY <1>1, <1>5, <1>8
<1>10. ASSUME NEW n \in 0 .. k, n < k, n \in T PROVE n + 1 \in T
  <2>1. PICK m \in 1 .. k : m = n + 1
    BY <1>1, <1>10
  <2>2. m # 0 /\ m - 1 = n /\ m \in 0 .. k /\ m \in Nat
    BY <1>1, <1>10, <2>1
  <2>3. f[m] = step(m, f[m - 1])
    BY <1>8, <2>2
  <2>4. g[m] = step(m, g[m - 1])
    BY <1>5
  <2>5. f[m - 1] = g[m - 1]
    BY <1>10, <2>2
  <2> HIDE DEF step
  <2>6. f[m] = g[m]
    BY <2>3, <2>4, <2>5
  <2> QED
    BY <2>1, <2>2, <2>6
<1>11. k \in T
  <2> HIDE DEF T
  <2>1. 0 .. k \subseteq T
    BY <1>1, <1>9, <1>10, Climb
  <2> QED
    BY <1>1, <2>1
<1>12. NextRow(row, c, t) = g[k]
  BY <1>3, <1>7, <1>11
<1>13. g \in [0 .. Len(t) -> Cells] /\ g[0] = FirstCell(row)
  BY <1>5 DEF k, S
<1>14. \A n \in 1 .. Len(t) : g[n] = WithNextCell(row, c, t, n, g[n - 1])
  BY <1>5 DEF k
<1>15. NextRow(row, c, t) = g[Len(t)]
  BY <1>12 DEF k
<1> HIDE DEF k, S, step, next, Fits, T
<1> QED
  BY <1>13, <1>14, <1>15

\* A row has a cell more than the text has characters.
LEMMA RowFollows ==
  ASSUME NEW t \in Strings, NEW row \in Rows(t), NEW c PROVE NextRow(row, c, t) \in Rows(t)
<1>0. Len(t) \in Nat
  BY DEF Strings
<1>1. PICK g \in [0 .. Len(t) -> Cells] :
        /\ NextRow(row, c, t) = g[Len(t)] /\ g[0] = FirstCell(row)
        /\ \A n \in 1 .. Len(t) : g[n] = WithNextCell(row, c, t, n, g[n - 1])
  BY CellsSteps
<1> DEFINE T == {n \in Nat : Len(g[n]) = n + 1}
<1>2. 0 \in T
  <2>1. PICK v : v = row[1] + 1
    OBVIOUS
  <2>2. g[0] = <<v>> /\ Len(<<v>>) = 1
    BY <1>1, <2>1 DEF FirstCell
  <2> QED
    BY <2>2
<1>3. ASSUME NEW n \in 0 .. Len(t), n < Len(t), n \in T PROVE n + 1 \in T
  <2>1. PICK m \in 1 .. Len(t) : m = n + 1
    BY <1>0, <1>3
  <2>2. m - 1 = n /\ m \in Nat
    BY <2>1
  <2>3. PICK v : g[m] = Append(g[n], v)
    BY <1>1, <2>2 DEF WithNextCell
  <2>4. g[n] \in Seq(Int) /\ g[m] \in Seq(Int) /\ m \in 0 .. Len(t)
    BY <1>0, <1>1, <2>1 DEF Cells
  <2>5. Len(g[m]) = Len(g[n]) + 1
    BY <2>3, <2>4
  <2> QED
    BY <1>3, <2>1, <2>2, <2>5
<1>4. Len(t) \in T
  <2> HIDE DEF T
  <2>1. 0 .. Len(t) \subseteq T
    BY <1>0, <1>2, <1>3, Climb
  <2> QED
    BY <1>0, <2>1
<1>5. Len(t) \in 0 .. Len(t) /\ g[Len(t)] \in Seq(Int)
  BY <1>0, <1>1 DEF Cells
<1> QED
  BY <1>1, <1>4, <1>5 DEF Rows

\* The rows so far.
LEMMA RowsSteps ==
  ASSUME NEW s \in Strings, NEW t \in Strings
  PROVE  \E g \in [0 .. Len(s) -> Rows(t)] :
           /\ Levenshtein(s, t) = g[Len(s)][Len(t) + 1] /\ g[0] = [j \in 1 .. (Len(t) + 1) |-> j - 1]
           /\ \A n \in 1 .. Len(s) : g[n] = NextRow(g[n - 1], s[n], t)
<1> DEFINE k == Len(s)
           S == Rows(t)
           step(n, x) == NextRow(x, s[n], t)
           next == [n \in 1 .. k |-> [x \in S |-> step(n, x)]]
           Fits(f) == f = [n \in 0 .. k |->
                        IF n = 0 THEN [j \in 1 .. (Len(t) + 1) |-> j - 1]
                        ELSE NextRow(f[n - 1], s[n], t)]
<1>1. k \in Nat /\ [j \in 1 .. (Len(t) + 1) |-> j - 1] \in S
  BY DEF Strings, Rows
<1>2. \A n \in 1 .. k, x \in S : step(n, x) \in S
  BY RowFollows
<1>3. Levenshtein(s, t) = (CHOOSE f : Fits(f))[k][Len(t) + 1]
  BY DEF Levenshtein
<1>4. next \in [1 .. k -> [S -> S]]
  <2> HIDE DEF k, S, step
  <2> QED
    BY <1>2
<1>5. PICK g \in [0 .. k -> S] : g[0] = [j \in 1 .. (Len(t) + 1) |-> j - 1] /\ \A n \in 1 .. k :
                 g[n] = step(n, g[n - 1])
  <2> HIDE DEF step, k, S
  <2>1. next \in [1 .. k -> [S -> S]] /\ \A n \in 1 .. k, x \in S : next[n][x] = step(n, x)
    BY <1>4
  <2> HIDE DEF next
  <2>2. PICK g : Recursion(g, k, S, [j \in 1 .. (Len(t) + 1) |-> j - 1], next)
    BY <1>1, <2>1, RecursionExists
  <2>3. \A n \in 1 .. k : n - 1 \in 0 .. k
    BY <1>1
  <2> QED
    BY <2>1, <2>2, <2>3, ZenonT(60) DEF Recursion
<1>6. Fits(g)
  <2> DEFINE value(n) ==
              IF n = 0 THEN [j \in 1 .. (Len(t) + 1) |-> j - 1] ELSE NextRow(g[n - 1], s[n], t)
  <2>1. \A n \in 0 .. k : n = 0 \/ (n # 0 /\ n \in 1 .. k)
    BY <1>1
  <2>2. \A n \in 0 .. k : g[n] = value(n)
    <3> HIDE DEF k, S
    <3> QED
      BY <1>5, <2>1
  <2>3. g = [n \in 0 .. k |-> g[n]]
    BY <1>5
  <2>4. g = [n \in 0 .. k |-> value(n)]
    <3> HIDE DEF value, k, S
    <3> QED
      BY <2>2, <2>3
  <2> QED
    BY <2>4
<1>7. PICK f : f = CHOOSE h : Fits(h)
  OBVIOUS
<1>8. Fits(f)
  <2> HIDE DEF Fits
  <2> QED
    BY <1>6, <1>7
<1> HIDE DEF k, S
<1> DEFINE T == {n \in Nat : f[n] = g[n]}
<1>9. 0 \in T
  BY <1>1, <1>5, <1>8
<1>10. ASSUME NEW n \in 0 .. k, n < k, n \in T PROVE n + 1 \in T
  <2>1. PICK m \in 1 .. k : m = n + 1
    BY <1>1, <1>10
  <2>2. m # 0 /\ m - 1 = n /\ m \in 0 .. k /\ m \in Nat
    BY <1>1, <1>10, <2>1
  <2>3. f[m] = step(m, f[m - 1])
    BY <1>8, <2>2
  <2>4. g[m] = step(m, g[m - 1])
    BY <1>5
  <2>5. f[m - 1] = g[m - 1]
    BY <1>10, <2>2
  <2> HIDE DEF step
  <2>6. f[m] = g[m]
    BY <2>3, <2>4, <2>5
  <2> QED
    BY <2>1, <2>2, <2>6
<1>11. k \in T
  <2> HIDE DEF T
  <2>1. 0 .. k \subseteq T
    BY <1>1, <1>9, <1>10, Climb
  <2> QED
    BY <1>1, <2>1
<1>12. Levenshtein(s, t) = g[k][Len(t) + 1]
  BY <1>3, <1>7, <1>11
<1> QED
  BY <1>5, <1>12 DEF k, S

\* Fractions.
Scores == {x \in Int \X Int : x[2] >= 1}

\* A similarity is one.
LEMMA ScoreIsFraction ==
  ASSUME NEW s \in Strings, NEW t \in Strings PROVE Score(s, t) \in Scores
<1>1. Len(s) \in Nat /\ Len(t) \in Nat
  BY DEF Strings
<1>2. PICK g \in [0 .. Len(s) -> Rows(t)] : Levenshtein(s, t) = g[Len(s)][Len(t) + 1]
  BY RowsSteps
<1>3. g[Len(s)] \in Rows(t)
  BY <1>1, <1>2
<1>4. Levenshtein(s, t) \in Int
  BY <1>1, <1>2, <1>3 DEF Rows
<1>5. PICK m \in Nat : m = Larger(Len(s), Len(t))
  BY <1>1 DEF Larger
<1>6. Score(s, t) = IF m = 0 THEN <<1, 1>> ELSE <<m - Levenshtein(s, t), m>>
  BY <1>5 DEF Score
<1>7. m # 0 => m - Levenshtein(s, t) \in Int /\ m >= 1
  BY <1>4
<1> QED
  BY <1>6, <1>7 DEF Scores

\* What is more than 0.02 above a score is above all that are within 0.02 of it
\* or below.
LEMMA FarAbove ==
  ASSUME NEW p \in Scores, NEW o \in Scores, NEW q \in Scores,
         50 * Difference(p, o) > p[2] * o[2], 50 * Difference(q, o) <= q[2] * o[2]
  PROVE  Difference(p, q) >= 0
<1>1. PICK p1 \in Int, d1 \in Int : p1 = p[1] /\ d1 = p[2] /\ d1 >= 1
  BY DEF Scores
<1>2. PICK p0 \in Int, d0 \in Int : p0 = o[1] /\ d0 = o[2] /\ d0 >= 1
  BY DEF Scores
<1>3. PICK p2 \in Int, d2 \in Int : p2 = q[1] /\ d2 = q[2] /\ d2 >= 1
  BY DEF Scores
<1>4. PICK x \in Int : x = p1 * d0 - p0 * d1
  OBVIOUS
<1>5. PICK y \in Int : y = p2 * d0 - p0 * d2
  OBVIOUS
<1>6. PICK z \in Int : z = p1 * d2 - p2 * d1
  OBVIOUS
<1>7. 50 * x > d1 * d0 /\ 50 * y <= d2 * d0 /\ Difference(p, q) = z
  BY <1>1, <1>2, <1>3, <1>4, <1>5, <1>6 DEF Difference
<1>8. d2 * x - d1 * y = d0 * z
  BY <1>4, <1>5, <1>6
<1>9. d2 * (50 * x) > d2 * (d1 * d0)
  BY <1>3, <1>7
<1>10. d1 * (50 * y) <= d1 * (d2 * d0)
  BY <1>1, <1>7
<1>11. d2 * (d1 * d0) = d1 * (d2 * d0) /\ d2 * (50 * x) = 50 * (d2 * x) /\ d1 * (50 * y) = 50 * (d1 * y)
  OBVIOUS
<1>12. d0 * z > 0
  <2>1. PICK e \in Int : e = d2 * x
    OBVIOUS
  <2>2. PICK f \in Int : f = d1 * y
    OBVIOUS
  <2>3. PICK h \in Int : h = d1 * (d2 * d0)
    OBVIOUS
  <2>4. 50 * e > h /\ 50 * f <= h
    BY <1>9, <1>10, <1>11, <2>1, <2>2, <2>3
  <2>5. e - f > 0
    BY <2>4
  <2> QED
    BY <1>8, <2>1, <2>2, <2>5
<1>13. z >= 0
  <2> SUFFICES ASSUME ~(z >= 0) PROVE FALSE
    OBVIOUS
  <2>1. d0 * z <= 0
    BY <1>2
  <2>2. PICK h \in Int : h = d0 * z
    OBVIOUS
  <2> QED
    BY <1>12, <2>1, <2>2
<1> QED
  BY <1>7, <1>13

-----------------------------------------------------------------------------
(* The best window *)

Scans == [best : Nat, score : Scores, tied : Nat]

\* What one window does to the scan.
LEMMA WeighIs ==
  ASSUME NEW scan \in Scans, NEW k \in Nat, NEW score \in Scores
  PROVE  /\ Weigh(scan, k, score) \in Scans
         /\ ~AtLeastThreshold(score) => Weigh(scan, k, score) = scan
         /\ AtLeastThreshold(score) /\ scan.best = 0 =>
              Weigh(scan, k, score) = [best |-> k, score |-> score, tied |-> 0]
         /\ AtLeastThreshold(score) /\ scan.best # 0 /\ Tied(score, scan.score) =>
              Weigh(scan, k, score) = [scan EXCEPT !.tied = @ + 1]
         /\ AtLeastThreshold(score) /\ scan.best # 0 /\ ~Tied(score, scan.score) =>
              IF Difference(score, scan.score) > 0
              THEN Weigh(scan, k, score) = [best |-> k, score |-> score, tied |-> 0]
              ELSE Weigh(scan, k, score) = scan
<1> DEFINE new == [best |-> k, score |-> score, tied |-> 0]
           more == [scan EXCEPT !.tied = @ + 1]
           A == AtLeastThreshold(score)
           E == scan.best = 0
           T == Tied(score, scan.score)
           D == Difference(score, scan.score) > 0
<1>1. new \in Scans /\ more \in Scans
  BY DEF Scans
<1>2. Weigh(scan, k, score) = CASE ~A -> scan [] A /\ E -> new [] A /\ ~E /\ T -> more
                                [] A /\ ~E /\ ~T /\ D -> new [] OTHER -> scan
  BY DEF Weigh
<1> HIDE DEF new, more, A, E, T, D
<1>3. CASE ~A
  <2>1. Weigh(scan, k, score) = scan
    BY <1>2, <1>3
  <2> QED
    BY <1>3, <2>1 DEF A
<1>4. CASE A /\ E
  <2>1. Weigh(scan, k, score) = new
    BY <1>2, <1>4
  <2> QED
    BY <1>1, <1>4, <2>1 DEF A, E, new
<1>5. CASE A /\ ~E /\ T
  <2>1. Weigh(scan, k, score) = more
    BY <1>2, <1>5
  <2> QED
    BY <1>1, <1>5, <2>1 DEF A, E, T, more
<1>6. CASE A /\ ~E /\ ~T /\ D
  <2>1. Weigh(scan, k, score) = new
    BY <1>2, <1>6
  <2> QED
    BY <1>1, <1>6, <2>1 DEF A, E, T, D, new
<1>7. CASE A /\ ~E /\ ~T /\ ~D
  <2>1. Weigh(scan, k, score) = scan
    BY <1>2, <1>7
  <2> QED
    BY <1>7, <2>1 DEF A, E, T, D
<1> QED
  BY <1>3, <1>4, <1>5, <1>6, <1>7

WeightOf(text, needle, size, j) == Score(Window(needle, 1, size), Window(text, j, size))

\* The windows so far.
LEMMA ScanSteps ==
  ASSUME NEW text \in Strings, NEW needle \in Strings, NEW size \in Nat,
         LineCount(text) - size + 1 \in Nat,
         \A j \in 1 .. (LineCount(text) - size + 1) : WeightOf(text, needle, size, j) \in Scores
  PROVE  \E g \in [0 .. (LineCount(text) - size + 1) -> Scans] :
           /\ Scan(text, needle, size) = g[(LineCount(text) - size + 1)] /\ g[0] = NothingYet
           /\ \A n \in 1 .. (LineCount(text) - size + 1) :
                 g[n] = Weigh(g[n - 1], n, WeightOf(text, needle, size, n))
<1> DEFINE k == (LineCount(text) - size + 1)
           S == Scans
           step(n, x) == Weigh(x, n, WeightOf(text, needle, size, n))
           next == [n \in 1 .. k |-> [x \in S |-> step(n, x)]]
           Fits(f) == f = [n \in 0 .. k |->
                        IF n = 0 THEN NothingYet
                        ELSE Weigh(f[n - 1], n, WeightOf(text, needle, size, n))]
<1>1. k \in Nat /\ NothingYet \in S
  BY DEF NothingYet, Scans, Scores
<1>2. \A n \in 1 .. k, x \in S : step(n, x) \in S
  BY WeighIs
<1>3. Scan(text, needle, size) = (CHOOSE f : Fits(f))[k]
  BY DEF Scan, WeightOf
<1>4. next \in [1 .. k -> [S -> S]]
  <2> HIDE DEF k, S, step
  <2> QED
    BY <1>2
<1>5. PICK g \in [0 .. k -> S] : g[0] = NothingYet /\ \A n \in 1 .. k : g[n] = step(n, g[n - 1])
  <2> HIDE DEF step, k, S
  <2>1. next \in [1 .. k -> [S -> S]] /\ \A n \in 1 .. k, x \in S : next[n][x] = step(n, x)
    BY <1>4
  <2> HIDE DEF next
  <2>2. PICK g : Recursion(g, k, S, NothingYet, next)
    BY <1>1, <2>1, RecursionExists
  <2>3. \A n \in 1 .. k : n - 1 \in 0 .. k
    BY <1>1
  <2> QED
    BY <2>1, <2>2, <2>3 DEF Recursion
<1>6. Fits(g)
  <2> DEFINE value(n) ==
              IF n = 0 THEN NothingYet ELSE Weigh(g[n - 1], n, WeightOf(text, needle, size, n))
  <2>1. \A n \in 0 .. k : n = 0 \/ (n # 0 /\ n \in 1 .. k)
    BY <1>1
  <2>2. \A n \in 0 .. k : g[n] = value(n)
    <3> HIDE DEF k, S
    <3> QED
      BY <1>5, <2>1
  <2>3. g = [n \in 0 .. k |-> g[n]]
    BY <1>5
  <2>4. g = [n \in 0 .. k |-> value(n)]
    <3> HIDE DEF value, k, S
    <3> QED
      BY <2>2, <2>3
  <2> QED
    BY <2>4
<1>7. PICK f : f = CHOOSE h : Fits(h)
  OBVIOUS
<1>8. Fits(f)
  <2> HIDE DEF Fits
  <2> QED
    BY <1>6, <1>7
<1> HIDE DEF k, S
<1> DEFINE T == {n \in Nat : f[n] = g[n]}
<1>9. 0 \in T
  BY <1>1, <1>5, <1>8
<1>10. ASSUME NEW n \in 0 .. k, n < k, n \in T PROVE n + 1 \in T
  <2>1. PICK m \in 1 .. k : m = n + 1
    BY <1>1, <1>10
  <2>2. m # 0 /\ m - 1 = n /\ m \in 0 .. k /\ m \in Nat
    BY <1>1, <1>10, <2>1
  <2>3. f[m] = step(m, f[m - 1])
    BY <1>8, <2>2
  <2>4. g[m] = step(m, g[m - 1])
    BY <1>5
  <2>5. f[m - 1] = g[m - 1]
    BY <1>10, <2>2
  <2> HIDE DEF step
  <2>6. f[m] = g[m]
    BY <2>3, <2>4, <2>5
  <2> QED
    BY <2>1, <2>2, <2>6
<1>11. k \in T
  <2> HIDE DEF T
  <2>1. 0 .. k \subseteq T
    BY <1>1, <1>9, <1>10, Climb
  <2> QED
    BY <1>1, <2>1
<1>12. Scan(text, needle, size) = g[k]
  BY <1>3, <1>7, <1>11
<1> QED
  BY <1>5, <1>12 DEF k, S

\* Among the first k of the scores of(1), of(2), ... the scan holds the best,
\* and knows whether another is close to it.
HoldsBest(scan, of, k) ==
  /\ scan.best = 0 => scan.tied = 0 /\ \A j \in 1 .. k : ~AtLeastThreshold(of[j])
  /\ scan.best # 0 =>
       /\ scan.best \in 1 .. k /\ scan.score = of[scan.best] /\ AtLeastThreshold(scan.score)
       /\ \A j \in 1 .. k : AtLeastThreshold(of[j]) =>
            /\ 50 * Difference(of[j], scan.score) <= of[j][2] * scan.score[2]
            /\ scan.tied = 0 => Difference(scan.score, of[j]) >= 0
       /\ scan.tied # 0 =>
            \E j \in 1 .. k : j # scan.best /\ AtLeastThreshold(of[j]) /\ Tied(of[j], scan.score)

\* Differences as numbers.
LEMMA DifferenceIs ==
  ASSUME NEW p \in Scores, NEW q \in Scores
  PROVE  /\ Difference(p, q) \in Int /\ Difference(q, p) = - Difference(p, q)
         /\ p[2] * q[2] \in Int /\ p[2] * q[2] >= 0 /\ p[2] * q[2] = q[2] * p[2]
         /\ Difference(p, p) = 0
         /\ Tied(p, q) <=> (50 * Difference(p, q) <= p[2] * q[2]
                              /\ - (50 * Difference(p, q)) <= p[2] * q[2])
<1>1. PICK p1 \in Int, d1 \in Int : p1 = p[1] /\ d1 = p[2] /\ d1 >= 1
  BY DEF Scores
<1>2. PICK q1 \in Int, d2 \in Int : q1 = q[1] /\ d2 = q[2] /\ d2 >= 1
  BY DEF Scores
<1>3. PICK x \in Int : x = p1 * d2 - q1 * d1
  OBVIOUS
<1>4. PICK y \in Int : y = d1 * d2
  OBVIOUS
<1>5. y >= 0
  BY <1>1, <1>2, <1>4
<1>6. Difference(p, q) = x /\ Difference(q, p) = q1 * d1 - p1 * d2
  BY <1>1, <1>2, <1>3 DEF Difference
<1>7. q1 * d1 - p1 * d2 = - x
  BY <1>3
<1>8. Difference(p, p) = 0
  BY <1>1 DEF Difference
<1>9. p[2] * q[2] = y /\ q[2] * p[2] = y
  BY <1>1, <1>2, <1>4
<1>10. Tied(p, q) <=> 50 * Larger(x, -x) <= y
  BY <1>6, <1>9 DEF Tied
<1>11. 50 * Larger(x, -x) <= y <=> (50 * x <= y /\ - (50 * x) <= y)
  BY <1>5 DEF Larger
<1> QED
  BY <1>5, <1>6, <1>7, <1>8, <1>9, <1>10, <1>11

\* The next window.
LEMMA BestFollows ==
  ASSUME NEW k \in Nat, NEW m \in Nat, m = k + 1, NEW of \in [1 .. m -> Scores],
         NEW scan \in Scans, HoldsBest(scan, of, k)
  PROVE  HoldsBest(Weigh(scan, m, of[m]), of, m)
<1>1. m \in 1 .. m /\ of[m] \in Scores /\ 1 .. k \subseteq 1 .. m /\ m # 0
      /\ \A j \in 1 .. m : of[j] \in Scores /\ (j = m \/ j \in 1 .. k)
  OBVIOUS
<1>2. PICK p \in Scores : p = of[m]
  BY <1>1
<1>3. /\ ~AtLeastThreshold(p) => Weigh(scan, m, p) = scan
      /\ AtLeastThreshold(p) /\ scan.best = 0 =>
           Weigh(scan, m, p) = [best |-> m, score |-> p, tied |-> 0]
      /\ AtLeastThreshold(p) /\ scan.best # 0 /\ Tied(p, scan.score) =>
           Weigh(scan, m, p) = [scan EXCEPT !.tied = @ + 1]
      /\ AtLeastThreshold(p) /\ scan.best # 0 /\ ~Tied(p, scan.score) =>
           IF Difference(p, scan.score) > 0
           THEN Weigh(scan, m, p) = [best |-> m, score |-> p, tied |-> 0]
           ELSE Weigh(scan, m, p) = scan
  BY WeighIs
<1>4. PICK x : x = Weigh(scan, m, p)
  OBVIOUS
<1>5. scan.score \in Scores /\ scan.best \in Nat /\ scan.tied \in Nat
  BY DEF Scans
<1>6. CASE ~AtLeastThreshold(p)
  <2>1. x = scan
    BY <1>3, <1>4, <1>6
  <2>2. \A j \in 1 .. m : AtLeastThreshold(of[j]) => j \in 1 .. k
    BY <1>1, <1>2, <1>6
  <2>3. HoldsBest(scan, of, m)
    <3>1. CASE scan.best = 0
      BY <2>2, <3>1 DEF HoldsBest
    <3>2. CASE scan.best # 0
      BY <1>1, <2>2, <3>2 DEF HoldsBest
    <3> QED
      BY <3>1, <3>2
  <2> QED
    BY <1>2, <1>4, <2>1, <2>3
<1>7. ASSUME AtLeastThreshold(p), x = [best |-> m, score |-> p, tied |-> 0],
             \A j \in 1 .. k : AtLeastThreshold(of[j]) => Difference(p, of[j]) >= 0
      PROVE  HoldsBest(x, of, m)
  <2>1. x.best = m /\ x.score = p /\ x.tied = 0 /\ x.best # 0
    BY <1>1, <1>7
  <2>2. ASSUME NEW j \in 1 .. m, AtLeastThreshold(of[j])
        PROVE  /\ 50 * Difference(of[j], p) <= of[j][2] * p[2]
               /\ Difference(p, of[j]) >= 0
    <3>1. Difference(p, of[j]) >= 0
      <4>1. CASE j = m
        BY <1>2, <4>1, DifferenceIs
      <4>2. CASE j # m
        BY <1>1, <1>7, <2>2, <4>2
      <4> QED
        BY <4>1, <4>2
    <3>2. of[j] \in Scores
      BY <1>1
    <3>3. /\ Difference(of[j], p) \in Int /\ Difference(p, of[j]) = - Difference(of[j], p)
          /\ of[j][2] * p[2] \in Int /\ of[j][2] * p[2] >= 0
      BY <3>2, DifferenceIs
    <3> QED
      BY <3>1, <3>3
  <2> QED
    BY <1>1, <1>2, <1>7, <2>1, <2>2 DEF HoldsBest
<1>8. CASE AtLeastThreshold(p) /\ scan.best = 0
  <2>1. x = [best |-> m, score |-> p, tied |-> 0]
    BY <1>3, <1>4, <1>8
  <2>2. \A j \in 1 .. k : ~AtLeastThreshold(of[j])
    BY <1>8 DEF HoldsBest
  <2> QED
    BY <1>2, <1>4, <1>7, <1>8, <2>1, <2>2
<1>9. CASE AtLeastThreshold(p) /\ scan.best # 0 /\ Tied(p, scan.score)
  <2>1. x = [scan EXCEPT !.tied = @ + 1]
    BY <1>3, <1>4, <1>9
  <2>2. x.best = scan.best /\ x.score = scan.score /\ x.tied = scan.tied + 1 /\ x.tied # 0
    BY <1>5, <2>1 DEF Scans
  <2>3. /\ scan.best \in 1 .. k /\ scan.score = of[scan.best] /\ AtLeastThreshold(scan.score)
        /\ \A j \in 1 .. k : AtLeastThreshold(of[j]) =>
             50 * Difference(of[j], scan.score) <= of[j][2] * scan.score[2]
    BY <1>9 DEF HoldsBest
  <2>4. 50 * Difference(p, scan.score) <= p[2] * scan.score[2]
    BY <1>5, <1>9, DifferenceIs
  <2>5. ASSUME NEW j \in 1 .. m, AtLeastThreshold(of[j])
        PROVE  50 * Difference(of[j], scan.score) <= of[j][2] * scan.score[2]
    BY <1>1, <1>2, <2>3, <2>4, <2>5
  <2>6. m # scan.best /\ scan.best \in 1 .. m
    BY <1>1, <2>3
  <2> QED
    BY <1>1, <1>2, <1>4, <1>9, <2>2, <2>3, <2>5, <2>6 DEF HoldsBest
<1>10. CASE /\ AtLeastThreshold(p) /\ scan.best # 0 /\ ~Tied(p, scan.score)
            /\ Difference(p, scan.score) > 0
  <2>1. x = [best |-> m, score |-> p, tied |-> 0]
    BY <1>3, <1>4, <1>10
  <2>2. /\ Difference(p, scan.score) \in Int /\ p[2] * scan.score[2] \in Int
        /\ p[2] * scan.score[2] >= 0
        /\ ~(50 * Difference(p, scan.score) <= p[2] * scan.score[2]
               /\ - (50 * Difference(p, scan.score)) <= p[2] * scan.score[2])
    BY <1>5, <1>10, DifferenceIs
  <2>3. 50 * Difference(p, scan.score) > p[2] * scan.score[2]
    BY <1>10, <2>2
  <2>4. ASSUME NEW j \in 1 .. k, AtLeastThreshold(of[j]) PROVE Difference(p, of[j]) >= 0
    <3>1. of[j] \in Scores
      BY <1>1
    <3>2. 50 * Difference(of[j], scan.score) <= of[j][2] * scan.score[2]
      BY <1>10, <2>4 DEF HoldsBest
    <3> QED
      BY <1>5, <2>3, <3>1, <3>2, FarAbove
  <2> QED
    BY <1>2, <1>4, <1>7, <1>10, <2>1, <2>4
<1>11. CASE /\ AtLeastThreshold(p) /\ scan.best # 0 /\ ~Tied(p, scan.score)
            /\ ~(Difference(p, scan.score) > 0)
  <2>1. x = scan
    BY <1>3, <1>4, <1>11
  <2>2. /\ Difference(p, scan.score) \in Int /\ p[2] * scan.score[2] \in Int
        /\ p[2] * scan.score[2] >= 0
        /\ Difference(scan.score, p) = - Difference(p, scan.score)
    BY <1>5, DifferenceIs
  <2>3. 50 * Difference(p, scan.score) <= p[2] * scan.score[2] /\ Difference(scan.score, p) >= 0
    BY <1>11, <2>2
  <2>4. /\ scan.best \in 1 .. k /\ scan.score = of[scan.best] /\ AtLeastThreshold(scan.score)
        /\ \A j \in 1 .. k : AtLeastThreshold(of[j]) =>
             /\ 50 * Difference(of[j], scan.score) <= of[j][2] * scan.score[2]
             /\ scan.tied = 0 => Difference(scan.score, of[j]) >= 0
        /\ scan.tied # 0 =>
             \E j \in 1 .. k : j # scan.best /\ AtLeastThreshold(of[j]) /\ Tied(of[j], scan.score)
    BY <1>11 DEF HoldsBest
  <2>5. ASSUME NEW j \in 1 .. m, AtLeastThreshold(of[j])
        PROVE  /\ 50 * Difference(of[j], scan.score) <= of[j][2] * scan.score[2]
               /\ scan.tied = 0 => Difference(scan.score, of[j]) >= 0
    BY <1>1, <1>2, <2>3, <2>4, <2>5
  <2>6. HoldsBest(scan, of, m)
    BY <1>1, <1>11, <2>4, <2>5 DEF HoldsBest
  <2> QED
    BY <1>2, <1>4, <2>1, <2>6
<1> QED
  BY <1>6, <1>8, <1>9, <1>10, <1>11

\* The whole scan.
LEMMA ScanHoldsBest ==
  ASSUME NEW text \in Strings, NEW needle \in Strings, NEW size \in Nat,
         NEW count \in Nat, count = LineCount(text) - size + 1,
         NEW of \in [1 .. count -> Scores],
         \A j \in 1 .. count : of[j] = WeightOf(text, needle, size, j)
  PROVE  /\ Scan(text, needle, size) \in Scans
         /\ HoldsBest(Scan(text, needle, size), of, count)
<1>1. PICK g \in [0 .. count -> Scans] :
        /\ Scan(text, needle, size) = g[count] /\ g[0] = NothingYet
        /\ \A n \in 1 .. count : g[n] = Weigh(g[n - 1], n, WeightOf(text, needle, size, n))
  <2>1. \A j \in 1 .. count : WeightOf(text, needle, size, j) \in Scores
    OBVIOUS
  <2> QED
    <3>1. LineCount(text) - size + 1 \in Nat
      OBVIOUS
    <3>2. \A j \in 1 .. (LineCount(text) - size + 1) : WeightOf(text, needle, size, j) \in Scores
      BY <2>1
    <3>3. \E g \in [0 .. (LineCount(text) - size + 1) -> Scans] :
            /\ Scan(text, needle, size) = g[(LineCount(text) - size + 1)] /\ g[0] = NothingYet
            /\ \A n \in 1 .. (LineCount(text) - size + 1) :
                 g[n] = Weigh(g[n - 1], n, WeightOf(text, needle, size, n))
      BY <3>1, <3>2, ScanSteps
    <3> QED
      BY <3>3
<1> DEFINE T == {n \in Nat : HoldsBest(g[n], of, n)}
<1>2. 0 \in T
  <2>1. HoldsBest(NothingYet, of, 0)
    BY DEF NothingYet, HoldsBest
  <2> QED
    BY <1>1, <2>1
<1>3. ASSUME NEW n \in 0 .. count, n < count, n \in T PROVE n + 1 \in T
  <2>1. PICK m \in 1 .. count : m = n + 1
    BY <1>3
  <2>2. m - 1 = n /\ m \in Nat /\ n \in Nat
    BY <2>1
  <2>3. g[m] = Weigh(g[n], m, of[m]) /\ g[n] \in Scans
    BY <1>1, <2>1, <2>2
  <2>4. PICK o : o = [j \in 1 .. m |-> of[j]]
    OBVIOUS
  <2>5. o \in [1 .. m -> Scores] /\ o[m] = of[m] /\ \A j \in 1 .. m : o[j] = of[j]
    BY <2>1, <2>4
  <2>6. \A s, i : i \in 0 .. m => (HoldsBest(s, o, i) <=> HoldsBest(s, of, i))
    <3> SUFFICES ASSUME NEW s, NEW i \in 0 .. m PROVE HoldsBest(s, o, i) <=> HoldsBest(s, of, i)
      OBVIOUS
    <3>1. \A j \in 1 .. i : o[j] = of[j]
      BY <2>2, <2>5
    <3>2. s.best \in 1 .. i => o[s.best] = of[s.best]
      BY <3>1
    <3> QED
      BY <3>1, <3>2 DEF HoldsBest
  <2>7. HoldsBest(g[n], o, n)
    BY <1>3, <2>1, <2>2, <2>6
  <2>8. HoldsBest(Weigh(g[n], m, o[m]), o, m)
    BY <2>1, <2>2, <2>3, <2>5, <2>7, BestFollows
  <2>9. HoldsBest(g[m], of, m)
    <3>1. m \in 0 .. m
      BY <2>2
    <3> QED
      BY <2>3, <2>5, <2>6, <2>8, <3>1
  <2> QED
    BY <2>1, <2>2, <2>9
<1>4. count \in T
  <2> HIDE DEF T
  <2>1. 0 .. count \subseteq T
    BY <1>2, <1>3, Climb, ZenonT(60)
  <2> QED
    BY <2>1
<1>5. count \in 0 .. count
  OBVIOUS
<1> QED
  BY <1>1, <1>4, <1>5

-----------------------------------------------------------------------------
(* find_block *)

\* What EditLandsOnBest scores, by itself.
SimilarityOf(text, needle, r) ==
  Score(Window(needle, 1, LineCount(needle)), SubSeq(text, r[1], r[2]))
Scored(text, needle) ==
  {r \in LineWindows(text, needle) : AtLeastThreshold(SimilarityOf(text, needle, r))}

\* There are no more lines than starts.
LEMMA LinesHaveStarts ==
  ASSUME NEW text \in Strings, text # <<>>
  PROVE  LineCount(text) <= Len(LineStarts(text)) /\ Len(LineStarts(text)) \in Nat
<1>1. PICK c : c = LineCount(text)
  OBVIOUS
<1>2. PICK m : m = Len(LineStarts(text))
  OBVIOUS
<1>3. c \in Nat /\ m \in Nat
  BY <1>1, <1>2, LineCountProps, LinesProps
<1>4. c + 1 = m \/ c = m
  <2>1. text[Len(text)] = NL \/ text[Len(text)] # NL
    OBVIOUS
  <2> QED
    BY <1>1, <1>2, <2>1, LineCountProps
<1>5. c <= m
  BY <1>3, <1>4
<1> QED
  BY <1>1, <1>2, <1>3, <1>5

\* Without the text as it is, find_block names the best window or says why not.
LEMMA FindsTheBest ==
  ASSUME NEW text \in Strings, NEW needle \in Strings, needle # <<>>,
         Occurrences(text, needle) = {}
  PROVE  \/ FindBlock(text, needle) = NotFound /\ Scored(text, needle) = {}
         \/ \E r \in Scored(text, needle) :
              /\ FindBlock(text, needle) = Found(r[1], r[2])
              /\ \A q \in Scored(text, needle) :
                   Difference(SimilarityOf(text, needle, r), SimilarityOf(text, needle, q)) >= 0
         \/ \E m \in Nat :
              /\ FindBlock(text, needle) = Ambiguous(m)
              /\ \E r, q \in Scored(text, needle) :
                   r # q /\ Tied(SimilarityOf(text, needle, r), SimilarityOf(text, needle, q))
<1> DEFINE n == LineCount(needle)
           c == LineCount(text)
           scan == Scan(text, needle, n)
           W == LineWindows(text, needle)
           range(k) == <<LineStarts(text)[k], Ends(text, k + n - 1)>>
           Of(r) == SimilarityOf(text, needle, r)
<1>1. n \in Nat \ {0}
  BY LineCountProps
<1>2. FindBlock(text, needle)
        = IF text = <<>> THEN NotFound
          ELSE IF c < n THEN NotFound
          ELSE IF scan.best = 0 THEN NotFound
          ELSE IF scan.tied > 0 THEN Ambiguous(scan.tied + 1)
          ELSE RangeOfLines(text, scan.best, n)
  BY DEF FindBlock
<1>3. \A r : r \in Scored(text, needle) <=> r \in W /\ AtLeastThreshold(Of(r))
  BY DEF Scored
<1>4. CASE text = <<>>
  <2>1. W = {}
    BY <1>4 DEF LineWindows
  <2> QED
    BY <1>2, <1>3, <1>4, <2>1
<1>5. ASSUME text # <<>>
      PROVE  /\ c \in Nat
             /\ \A k \in 1 .. c - n + 1 : range(k) \in W
             /\ \A r \in W : \E k \in 1 .. c - n + 1 : r = range(k)
  <2>1. c \in Nat
    BY <1>5, LineCountProps
  <2>2. /\ \A k \in 1 .. c - n + 1 : range(k) \in W
        /\ \A r \in W : \E k \in 1 .. c - n + 1 : r = range(k)
    BY <1>5, WindowsAre
  <2> QED
    BY <2>1, <2>2
<1>6. CASE text # <<>> /\ c < n
  <2>1. 1 .. c - n + 1 = {}
    BY <1>1, <1>5, <1>6
  <2>2. W = {}
    <3> HIDE DEF W, range, c, n
    <3> QED
      BY <1>5, <1>6, <2>1
  <2> QED
    BY <1>2, <1>3, <1>6, <2>2
<1>7. CASE text # <<>> /\ ~(c < n)
  <2>1. PICK count \in Nat : count = c - n + 1
    BY <1>1, <1>5, <1>7
  <2>2. ASSUME NEW k \in 1 .. count
        PROVE  /\ k \in Nat \ {0} /\ k \in 1 .. Len(LineStarts(text))
               /\ k + n - 1 \in 1 .. Len(LineStarts(text)) /\ k + n - 1 <= c
    <3>1. c <= Len(LineStarts(text)) /\ Len(LineStarts(text)) \in Nat
      BY <1>7, LinesHaveStarts
    <3>2. k + n - 1 <= c /\ k + n - 1 \in Nat /\ k <= k + n - 1 /\ k >= 1 /\ k \in Nat
      BY <1>1, <1>5, <1>7, <2>1
    <3> HIDE DEF c, n
    <3> QED
      BY <1>5, <1>7, <3>1, <3>2
  <2>3. \A k \in 1 .. Len(LineStarts(text)) : \A m \in 1 .. Len(LineStarts(text)) :
          /\ LineStarts(text)[k] \in Nat \ {0} /\ Ends(text, m) \in Nat /\ Ends(text, m) <= Len(text)
    BY LinesProps
  <2>4. Window(needle, 1, n) \in Strings
    <3>1. /\ 1 + n - 1 \in 1 .. Len(LineStarts(needle)) /\ 1 \in 1 .. Len(LineStarts(needle))
          /\ 1 + n - 1 <= Len(LineStarts(needle))
      <4>1. n <= Len(LineStarts(needle)) /\ Len(LineStarts(needle)) \in Nat
        BY LinesHaveStarts
      <4> HIDE DEF n
      <4> QED
        BY <1>1, <4>1
    <3>2. Window(needle, 1, n) = SubSeq(needle, LineStarts(needle)[1], Ends(needle, 1 + n - 1))
      <4> HIDE DEF n
      <4> QED
        BY <1>1, <3>1, WindowIs
    <3>3. /\ LineStarts(needle)[1] = 1 /\ Ends(needle, 1 + n - 1) \in Nat
          /\ Ends(needle, 1 + n - 1) <= Len(needle)
      <4> HIDE DEF n
      <4> QED
        BY <3>1, LinesProps
    <3> HIDE DEF n
    <3>4. PICK e \in Nat : e = Ends(needle, 1 + n - 1) /\ e <= Len(needle)
      BY <3>3
    <3>5. SubSeq(needle, 1, e) \in Strings
      BY <3>4 DEF Strings
    <3> QED
      BY <3>2, <3>3, <3>4, <3>5
  <2>5. ASSUME NEW k \in 1 .. count
        PROVE  /\ WeightOf(text, needle, n, k) = Of(range(k))
               /\ WeightOf(text, needle, n, k) \in Scores
    <3>1. Window(text, k, n) = SubSeq(text, range(k)[1], range(k)[2])
      <4>1. k + n - 1 <= Len(LineStarts(text)) /\ k \in Nat \ {0}
        BY <2>2
      <4>2. Window(text, k, n) = SubSeq(text, LineStarts(text)[k], Ends(text, k + n - 1))
        <5> HIDE DEF n
        <5> QED
          BY <1>1, <4>1, WindowIs
      <4> QED
        BY <4>2
    <3>2. SubSeq(text, range(k)[1], range(k)[2]) \in Strings
      <4>1. PICK a \in Nat : a = LineStarts(text)[k] /\ a >= 1
        BY <2>2, <2>3, SMTT(30)
      <4>2. PICK b \in Nat : b = Ends(text, k + n - 1) /\ b <= Len(text)
        <5>1. k + n - 1 \in 1 .. Len(LineStarts(text)) /\ k \in 1 .. Len(LineStarts(text))
          BY <2>2
        <5> HIDE DEF n
        <5> QED
          BY <2>3, <5>1
      <4>3. SubSeq(text, a, b) \in Strings
        BY <4>1, <4>2 DEF Strings
      <4> QED
        BY <4>1, <4>2, <4>3
    <3>3. WeightOf(text, needle, n, k) = Score(Window(needle, 1, n), Window(text, k, n))
      BY DEF WeightOf
    <3>4. Of(range(k)) = Score(Window(needle, 1, n), SubSeq(text, range(k)[1], range(k)[2]))
      BY DEF SimilarityOf
    <3> HIDE DEF range, n, Of
    <3>5. WeightOf(text, needle, n, k) = Of(range(k))
      BY <3>1, <3>3, <3>4
    <3>6. Score(Window(needle, 1, n), Window(text, k, n)) \in Scores
      BY <2>4, <3>1, <3>2, ScoreIsFraction
    <3> QED
      BY <3>3, <3>5, <3>6
  <2>6. PICK of : of = [k \in 1 .. count |-> WeightOf(text, needle, n, k)]
    OBVIOUS
  <2>7. of \in [1 .. count -> Scores] /\ \A k \in 1 .. count : of[k] = WeightOf(text, needle, n, k)
    BY <2>5, <2>6
  <2>8. scan \in Scans /\ HoldsBest(scan, of, count)
    <3>1. n \in Nat /\ count = LineCount(text) - n + 1
      BY <1>1, <2>1
    <3> HIDE DEF n
    <3> QED
      BY <2>7, <3>1, ScanHoldsBest
  <2>9. \A k \in 1 .. count : of[k] = Of(range(k)) /\ range(k) \in W
    BY <1>5, <1>7, <2>1, <2>5, <2>7
  <2>10. \A r \in W : \E k \in 1 .. count : r = range(k)
    BY <1>5, <1>7, <2>1
  <2>11. \A i, j \in 1 .. count : range(i) = range(j) => i = j
    <3> SUFFICES ASSUME NEW i \in 1 .. count, NEW j \in 1 .. count, range(i) = range(j) PROVE i = j
      OBVIOUS
    <3>1. LineStarts(text)[i] = LineStarts(text)[j]
      OBVIOUS
    <3>2. i \in 1 .. Len(LineStarts(text)) /\ j \in 1 .. Len(LineStarts(text))
      BY <2>2
    <3>3. \A x, y \in 1 .. Len(LineStarts(text)) : x < y => LineStarts(text)[x] < LineStarts(text)[y]
      BY LinesProps
    <3>4. LineStarts(text)[i] \in Nat
      BY <2>3, <3>2
    <3> QED
      BY <3>1, <3>2, <3>3, <3>4
  <2>12. FindBlock(text, needle)
        = IF scan.best = 0 THEN NotFound
          ELSE IF scan.tied > 0 THEN Ambiguous(scan.tied + 1)
          ELSE RangeOfLines(text, scan.best, n)
    BY <1>2, <1>7
  <2>13. scan.best \in Nat /\ scan.tied \in Nat
    BY <2>8 DEF Scans
  <2>14. scan.best # 0 =>
           RangeOfLines(text, scan.best, n) = Found(range(scan.best)[1], range(scan.best)[2])
    <3> SUFFICES ASSUME scan.best # 0
                 PROVE  RangeOfLines(text, scan.best, n) = Found(range(scan.best)[1], range(scan.best)[2])
      OBVIOUS
    <3>1. PICK k \in 1 .. count : k = scan.best
      BY <2>8 DEF HoldsBest
    <3>2. k + n - 1 <= c /\ k \in Nat \ {0}
      BY <2>2
    <3>3. RangeOfLines(text, k, n) = Found(LineStarts(text)[k], Ends(text, k + n - 1))
      <4> HIDE DEF n
      <4> QED
        BY <1>1, <1>7, <3>2, RangeIs
    <3> QED
      BY <3>1, <3>3
  <2> HIDE DEF scan, range, W, n, c, Of
  <2>15. CASE scan.best = 0
    <3>1. \A j \in 1 .. count : ~AtLeastThreshold(of[j])
      BY <2>8, <2>15 DEF HoldsBest
    <3>2. \A r : r \notin Scored(text, needle)
      BY <1>3, <2>9, <2>10, <3>1
    <3> QED
      BY <2>12, <2>15, <3>2
  <2>16. ASSUME scan.best # 0
         PROVE  /\ scan.best \in 1 .. count /\ scan.score = Of(range(scan.best))
                /\ range(scan.best) \in Scored(text, needle)
    <3>1. scan.best \in 1 .. count /\ scan.score = of[scan.best] /\ AtLeastThreshold(scan.score)
      BY <2>8, <2>16 DEF HoldsBest
    <3> QED
      BY <1>3, <2>9, <3>1
  <2>17. CASE scan.best # 0 /\ scan.tied = 0
    <3>1. PICK r \in Scored(text, needle) : r = range(scan.best) /\ scan.score = Of(r)
      BY <2>16, <2>17
    <3>2. FindBlock(text, needle) = Found(r[1], r[2])
      BY <2>12, <2>14, <2>17, <3>1
    <3>3. ASSUME NEW q \in Scored(text, needle) PROVE Difference(Of(r), Of(q)) >= 0
      <4>1. PICK j \in 1 .. count : q = range(j)
        BY <1>3, <2>10
      <4>2. AtLeastThreshold(of[j]) /\ of[j] = Of(q)
        BY <1>3, <2>9, <4>1
      <4>3. Difference(scan.score, of[j]) >= 0
        BY <2>8, <2>17, <4>2 DEF HoldsBest
      <4> QED
        BY <3>1, <4>2, <4>3
    <3> QED
      BY <3>2, <3>3 DEF Of
  <2>18. CASE scan.best # 0 /\ scan.tied # 0
    <3>1. PICK j \in 1 .. count : j # scan.best /\ AtLeastThreshold(of[j]) /\ Tied(of[j], scan.score)
      BY <2>8, <2>18 DEF HoldsBest
    <3>2. PICK q \in Scored(text, needle) : q = range(scan.best) /\ scan.score = Of(q)
      BY <2>16, <2>18
    <3>3. PICK r \in Scored(text, needle) : r = range(j) /\ of[j] = Of(r)
      BY <1>3, <2>9, <3>1
    <3>4. r # q
      BY <2>11, <2>16, <2>18, <3>1, <3>2, <3>3
    <3>5. scan.tied > 0 /\ scan.tied + 1 \in Nat
      BY <2>13, <2>18
    <3>6. FindBlock(text, needle) = Ambiguous(scan.tied + 1)
      BY <2>12, <2>18, <3>5
    <3>7. Tied(Of(r), Of(q))
      BY <3>1, <3>2, <3>3
    <3> QED
      BY <3>4, <3>5, <3>6, <3>7 DEF Of
  <2> QED
    BY <2>15, <2>17, <2>18
<1> QED
  BY <1>4, <1>6, <1>7

\* With the text as it is, find_block names the first place where it stands.
LEMMA FindsTheFirst ==
  ASSUME NEW text \in Strings, NEW needle \in Strings, needle # <<>>,
         Occurrences(text, needle) # {}
  PROVE  \E i \in Occurrences(text, needle) :
           /\ \A j \in Occurrences(text, needle) : i <= j
           /\ FindBlock(text, needle) = Found(i, i + Len(needle) - 1)
           /\ i \in Nat \ {0} /\ i + Len(needle) - 1 <= Len(text)
<1>1. Len(text) \in Nat /\ Len(needle) \in Nat \ {0}
  BY DEF Strings
<1>2. PICK O : O = Occurrences(text, needle)
  OBVIOUS
<1>3. O \subseteq 1 .. (Len(text) - Len(needle) + 1)
  BY <1>2 DEF Occurrences
<1>4. O \subseteq Nat /\ O # {}
  BY <1>2, <1>3
<1>5. Min(O) \in O /\ \A j \in O : Min(O) <= j
  BY <1>4, LeastIsMin
<1>6. text # <<>>
  <2>1. PICK i \in O : i \in 1 .. (Len(text) - Len(needle) + 1)
    BY <1>3, <1>4
  <2>2. Len(text) # 0
    BY <1>1, <2>1
  <2> QED
    BY <2>2
<1>7. FindBlock(text, needle) = Found(Min(O), Min(O) + Len(needle) - 1)
  BY <1>2, <1>4, <1>6 DEF FindBlock
<1>8. Min(O) \in 1 .. (Len(text) - Len(needle) + 1)
  BY <1>3, <1>5
<1>9. Min(O) \in Nat \ {0} /\ Min(O) + Len(needle) - 1 <= Len(text)
  BY <1>1, <1>8
<1> QED
  BY <1>2, <1>5, <1>7, <1>9

-----------------------------------------------------------------------------
(* Applying *)

Results == [ok : {TRUE}, text : Strings] \cup [ok : {FALSE}, why : {"none", "ambiguous"}]

\* An edit is applied to a range of the text, or fails.
LEMMA SingleIsResult ==
  ASSUME NEW text \in Strings, NEW edit, edit.search \in Strings, edit.replace \in Strings
  PROVE  ApplySingle(text, edit) \in Results
<1>0. Len(text) \in Nat
  BY DEF Strings
<1>1. PICK needle \in Strings : needle = edit.search
  OBVIOUS
<1>2. PICK at : at = FindBlock(text, needle)
  OBVIOUS
<1>3. ApplySingle(text, edit)
        = IF at.kind = "found"
          THEN [ok |-> TRUE, text |-> SubSeq(text, 1, at.from - 1) \o edit.replace
                                        \o SubSeq(text, at.to + 1, Len(text))]
          ELSE Failure(at.kind)
  BY <1>1, <1>2 DEF ApplySingle
<1>4. ASSUME NEW from \in Nat \ {0}, NEW to \in Nat, from <= Len(text) + 1, to <= Len(text),
             at = Found(from, to)
      PROVE  ApplySingle(text, edit) \in Results
  <2>1. at.kind = "found" /\ at.from = from /\ at.to = to
    BY <1>4 DEF Found
  <2>2. SubSeq(text, 1, from - 1) \in Strings /\ SubSeq(text, to + 1, Len(text)) \in Strings
    <3>1. \A i \in 1 .. from - 1 : text[i] \in Chars
      BY <1>0, <1>4 DEF Strings
    <3>2. SubSeq(text, 1, from - 1) \in Seq(Chars)
      BY <3>1, SubSeqProperties
    <3>3. \A i \in to + 1 .. Len(text) : text[i] \in Chars
      BY <1>0, <1>4 DEF Strings
    <3>4. SubSeq(text, to + 1, Len(text)) \in Seq(Chars)
      BY <1>0, <3>3, SubSeqProperties
    <3> QED
      BY <3>2, <3>4 DEF Strings
  <2>3. PICK t : t = SubSeq(text, 1, from - 1) \o edit.replace \o SubSeq(text, to + 1, Len(text))
    OBVIOUS
  <2>4. t \in Strings
    BY <2>2, <2>3 DEF Strings
  <2>5. ApplySingle(text, edit) = [ok |-> TRUE, text |-> t]
    BY <1>3, <2>1, <2>3
  <2> QED
    BY <2>4, <2>5 DEF Results
<1>5. ASSUME at.kind \in {"none", "ambiguous"} PROVE ApplySingle(text, edit) \in Results
  <2>1. ApplySingle(text, edit) = [ok |-> FALSE, why |-> at.kind]
    BY <1>3, <1>5 DEF Failure
  <2> QED
    BY <1>5, <2>1 DEF Results
<1>6. CASE needle = <<>>
  <2>1. at = NotFound
    BY <1>2, <1>6 DEF FindBlock
  <2> QED
    BY <1>5, <2>1 DEF NotFound
<1>7. CASE needle # <<>> /\ Occurrences(text, needle) # {}
  <2>1. PICK i \in Occurrences(text, needle) :
           /\ FindBlock(text, needle) = Found(i, i + Len(needle) - 1)
           /\ i \in Nat \ {0} /\ i + Len(needle) - 1 <= Len(text)
    BY <1>7, FindsTheFirst
  <2>2. Len(needle) \in Nat \ {0}
    BY <1>7 DEF Strings
  <2>3. PICK to \in Nat : to = i + Len(needle) - 1
    BY <2>1, <2>2
  <2>4. i <= Len(text) + 1 /\ to <= Len(text) /\ at = Found(i, to)
    BY <1>0, <1>2, <2>1, <2>2, <2>3
  <2> QED
    BY <1>4, <2>1, <2>4
<1>8. CASE needle # <<>> /\ Occurrences(text, needle) = {}
  <2>1. CASE at = NotFound
    BY <1>5, <2>1 DEF NotFound
  <2>2. CASE \E r \in Scored(text, needle) : at = Found(r[1], r[2])
    <3>1. PICK r \in LineWindows(text, needle) : at = Found(r[1], r[2])
      BY <2>2 DEF Scored
    <3>2. r[1] \in 1 .. Len(text) + 1 /\ r[2] \in 0 .. Len(text)
      BY DEF LineWindows
    <3>3. r[1] \in Nat \ {0} /\ r[2] \in Nat /\ r[1] <= Len(text) + 1 /\ r[2] <= Len(text)
      BY <1>0, <3>2
    <3> QED
      BY <1>4, <3>1, <3>3
  <2>3. CASE \E m \in Nat : at = Ambiguous(m)
    BY <1>5, <2>3 DEF Ambiguous
  <2> QED
    BY <1>2, <1>8, <2>1, <2>2, <2>3, FindsTheBest
<1> QED
  BY <1>6, <1>7, <1>8

\* The edits so far.
LEMMA ApplySteps ==
  ASSUME NEW text \in Strings, NEW seq, Len(seq) \in Nat,
         \A i \in 1 .. Len(seq) : seq[i].search \in Strings /\ seq[i].replace \in Strings
  PROVE  \E g \in [0 .. Len(seq) -> Results] :
           /\ ApplyAll(text, seq) = g[Len(seq)] /\ g[0] = [ok |-> TRUE, text |-> text]
           /\ \A n \in 1 .. Len(seq) :
                 g[n] = IF g[n - 1].ok THEN ApplySingle(g[n - 1].text, seq[n]) ELSE g[n - 1]
<1> DEFINE k == Len(seq)
           S == Results
           step(n, x) == IF x.ok THEN ApplySingle(x.text, seq[n]) ELSE x
           next == [n \in 1 .. k |-> [x \in S |-> step(n, x)]]
           Fits(f) == f = [n \in 0 .. k |->
                        IF n = 0 THEN [ok |-> TRUE, text |-> text]
                        ELSE IF f[n - 1].ok THEN ApplySingle(f[n - 1].text, seq[n]) ELSE f[n - 1]]
<1>1. k \in Nat /\ [ok |-> TRUE, text |-> text] \in S
  BY DEF Results
<1>2. \A n \in 1 .. k, x \in S : step(n, x) \in S
  <2> SUFFICES ASSUME NEW n \in 1 .. k, NEW x \in Results PROVE step(n, x) \in Results
    OBVIOUS
  <2>1. CASE x.ok
    <3>1. x.text \in Strings
      BY <2>1 DEF Results
    <3>2. seq[n].search \in Strings /\ seq[n].replace \in Strings
      OBVIOUS
    <3>3. ApplySingle(x.text, seq[n]) \in Results
      BY <3>1, <3>2, SingleIsResult
    <3> QED
      BY <2>1, <3>3
  <2>2. CASE ~x.ok
    BY <2>2
  <2> QED
    BY <2>1, <2>2
<1>3. ApplyAll(text, seq) = (CHOOSE f : Fits(f))[k]
  BY DEF ApplyAll
<1>4. next \in [1 .. k -> [S -> S]]
  <2> HIDE DEF k, S, step
  <2> QED
    BY <1>2
<1>5. PICK g \in [0 .. k -> S] : g[0] = [ok |-> TRUE, text |-> text] /\ \A n \in 1 .. k :
                 g[n] = step(n, g[n - 1])
  <2> HIDE DEF step, k, S
  <2>1. next \in [1 .. k -> [S -> S]] /\ \A n \in 1 .. k, x \in S : next[n][x] = step(n, x)
    BY <1>4
  <2> HIDE DEF next
  <2>2. PICK g : Recursion(g, k, S, [ok |-> TRUE, text |-> text], next)
    BY <1>1, <2>1, RecursionExists
  <2>3. \A n \in 1 .. k : n - 1 \in 0 .. k
    BY <1>1
  <2> QED
    BY <2>1, <2>2, <2>3 DEF Recursion
<1>6. Fits(g)
  <2> DEFINE value(n) ==
              IF n = 0 THEN [ok |-> TRUE, text |-> text]
              ELSE IF g[n - 1].ok THEN ApplySingle(g[n - 1].text, seq[n]) ELSE g[n - 1]
  <2>1. \A n \in 0 .. k : n = 0 \/ (n # 0 /\ n \in 1 .. k)
    BY <1>1
  <2>2. \A n \in 0 .. k : g[n] = value(n)
    <3> HIDE DEF k, S
    <3> QED
      BY <1>5, <2>1
  <2>3. g = [n \in 0 .. k |-> g[n]]
    BY <1>5
  <2>4. g = [n \in 0 .. k |-> value(n)]
    <3> HIDE DEF value, k, S
    <3> QED
      BY <2>2, <2>3
  <2> QED
    BY <2>4
<1>7. PICK f : f = CHOOSE h : Fits(h)
  OBVIOUS
<1>8. Fits(f)
  <2> HIDE DEF Fits
  <2> QED
    BY <1>6, <1>7
<1> HIDE DEF k, S
<1> DEFINE T == {n \in Nat : f[n] = g[n]}
<1>9. 0 \in T
  BY <1>1, <1>5, <1>8
<1>10. ASSUME NEW n \in 0 .. k, n < k, n \in T PROVE n + 1 \in T
  <2>1. PICK m \in 1 .. k : m = n + 1
    BY <1>1, <1>10
  <2>2. m # 0 /\ m - 1 = n /\ m \in 0 .. k /\ m \in Nat
    BY <1>1, <1>10, <2>1
  <2>3. f[m] = step(m, f[m - 1])
    BY <1>8, <2>2
  <2>4. g[m] = step(m, g[m - 1])
    BY <1>5
  <2>5. f[m - 1] = g[m - 1]
    BY <1>10, <2>2
  <2> HIDE DEF step
  <2>6. f[m] = g[m]
    BY <2>3, <2>4, <2>5
  <2> QED
    BY <2>1, <2>2, <2>6
<1>11. k \in T
  <2> HIDE DEF T
  <2>1. 0 .. k \subseteq T
    BY <1>1, <1>9, <1>10, Climb
  <2> QED
    BY <1>1, <2>1
<1>12. ApplyAll(text, seq) = g[k]
  BY <1>3, <1>7, <1>11
<1> QED
  BY <1>5, <1>12 DEF k, S

\* What is applied: a whole text, or edits.
IsOperation(o) ==
  \/ o.whole = TRUE /\ o.text \in Strings
  \/ /\ o.whole = FALSE /\ Len(o.edits) \in Nat
     /\ \A i \in 1 .. Len(o.edits) : o.edits[i].search \in Strings /\ o.edits[i].replace \in Strings

\* apply_edit_operation makes a text of it or fails; of one edit, as apply_single.
LEMMA OperationIsResult ==
  ASSUME NEW text \in Strings, NEW o, IsOperation(o)
  PROVE  /\ ApplyOperation(text, o) \in Results
         /\ o.whole = FALSE /\ Len(o.edits) = 1 => ApplyOperation(text, o) = ApplySingle(text, o.edits[1])
<1>1. CASE o.whole = TRUE
  <2>1. ApplyOperation(text, o) = [ok |-> TRUE, text |-> o.text] /\ o.text \in Strings
    BY <1>1 DEF ApplyOperation, IsOperation
  <2> QED
    BY <1>1, <2>1 DEF Results
<1>2. CASE o.whole = FALSE
  <2>1. PICK seq : seq = o.edits
    OBVIOUS
  <2>2. /\ Len(seq) \in Nat
        /\ \A i \in 1 .. Len(seq) : seq[i].search \in Strings /\ seq[i].replace \in Strings
    BY <1>2, <2>1 DEF IsOperation
  <2>3. PICK g \in [0 .. Len(seq) -> Results] :
          /\ ApplyAll(text, seq) = g[Len(seq)] /\ g[0] = [ok |-> TRUE, text |-> text]
          /\ \A n \in 1 .. Len(seq) :
               g[n] = IF g[n - 1].ok THEN ApplySingle(g[n - 1].text, seq[n]) ELSE g[n - 1]
    BY <2>2, ApplySteps
  <2>4. ApplyOperation(text, o) = g[Len(seq)]
    BY <1>2, <2>1, <2>3 DEF ApplyOperation
  <2>5. Len(seq) = 1 => g[1] = ApplySingle(text, seq[1])
    <3> SUFFICES ASSUME Len(seq) = 1 PROVE g[1] = ApplySingle(text, seq[1])
      OBVIOUS
    <3>1. 1 \in 1 .. Len(seq) /\ 1 - 1 = 0
      OBVIOUS
    <3>2. g[1] = IF g[0].ok THEN ApplySingle(g[0].text, seq[1]) ELSE g[0]
      BY <2>3, <3>1
    <3> QED
      BY <2>3, <3>2
  <2>6. g[Len(seq)] \in Results
    BY <2>2, <2>3
  <2> QED
    BY <1>2, <2>1, <2>4, <2>5, <2>6
<1> QED
  BY <1>1, <1>2 DEF IsOperation

\* Lines joined and trimmed are a text.
LEMMA TrimmedIsText ==
  ASSUME NEW text \in Strings PROVE Trimmed(text) \in Strings
<1>1. Len(text) \in Nat /\ DOMAIN text = 1 .. Len(text)
  BY DEF Strings
<1>2. PICK kept : kept = {i \in DOMAIN text : text[i] # NL}
  OBVIOUS
<1>3. Trimmed(text) = IF kept = {} THEN <<>> ELSE SubSeq(text, Min(kept), Max(kept))
  BY <1>2 DEF Trimmed
<1>4. CASE kept = {}
  BY <1>3, <1>4 DEF Strings
<1>5. CASE kept # {}
  <2>1. kept \subseteq 1 .. Len(text) /\ kept \subseteq Nat
    BY <1>1, <1>2
  <2>2. Min(kept) \in kept /\ Max(kept) \in kept
    BY <1>1, <1>5, <2>1, LeastIsMin, GreatestNumber
  <2>3. PICK a \in 1 .. Len(text) : a = Min(kept)
    BY <2>1, <2>2
  <2>4. PICK b \in 1 .. Len(text) : b = Max(kept)
    BY <2>1, <2>2
  <2>5. SubSeq(text, a, b) \in Strings
    BY DEF Strings
  <2> QED
    BY <1>3, <1>5, <2>3, <2>4, <2>5
<1> QED
  BY <1>4, <1>5

\* What consume_block collects is a text.
LEMMA BlockIsText ==
  ASSUME NEW lines \in Seq(Strings), NEW at \in DOMAIN lines PROVE Block(lines, at) \in Strings
<1>1. Len(lines) \in Nat /\ at \in 1 .. Len(lines)
  OBVIOUS
<1>2. PICK D : D = {i \in (at + 1)..Len(lines) :
                      lines[i] = IF lines[at] = Search THEN Replace ELSE End}
  OBVIOUS
<1>3. PICK to : to = IF D = {} THEN Len(lines) ELSE Min(D) - 1
  OBVIOUS
<1>4. Block(lines, at) = Trimmed(Joined(SubSeq(lines, at + 1, to)))
  BY <1>2, <1>3 DEF Block
<1>5. to \in Nat /\ to <= Len(lines)
  <2>1. CASE D = {}
    BY <1>1, <1>3, <2>1
  <2>2. CASE D # {}
    <3>1. D \subseteq Nat /\ D \subseteq at + 1 .. Len(lines)
      BY <1>1, <1>2
    <3>2. Min(D) \in D
      BY <2>2, <3>1, LeastIsMin
    <3>3. Min(D) \in at + 1 .. Len(lines)
      BY <3>1, <3>2
    <3> QED
      BY <1>1, <1>3, <2>2, <3>3
  <2> QED
    BY <2>1, <2>2
<1>6. PICK part : part = SubSeq(lines, at + 1, to)
  OBVIOUS
<1>7. part \in Seq(Strings)
  <2>1. \A i \in at + 1 .. to : lines[i] \in Strings
    BY <1>1, <1>5
  <2>2. SubSeq(lines, at + 1, to) \in Seq(Strings)
    BY <1>1, <1>5, <2>1, SubSeqProperties
  <2> QED
    BY <1>6, <2>2
<1>8. Joined(part) \in Strings
  <2>1. PICK g \in [0 .. Len(part) -> Strings] : Joined(part) = g[Len(part)]
    BY <1>7, JoinedSteps
  <2>2. Len(part) \in Nat
    BY <1>7
  <2> QED
    BY <2>1, <2>2
<1> QED
  BY <1>4, <1>6, <1>8, TrimmedIsText

\* What an answer is read as can be applied.
LEMMA ParsedIsOperation ==
  ASSUME NEW a \in Answers, Parse(a).ok PROVE IsOperation(Parse(a))
<1>1. CASE a.format = "whole-file" /\ a.text \in Seq(Chars)
  <2>1. Parse(a) = [ok |-> TRUE, whole |-> TRUE, text |-> a.text]
    BY <1>1 DEF Parse
  <2> QED
    BY <1>1, <2>1 DEF IsOperation, Strings
<1>2. CASE /\ a.format = "tool-use-edit"
           /\ a.edits \in Seq(ToSet(a.edits))
           /\ \A e \in ToSet(a.edits) : e.search \in Seq(Chars) /\ e.replace \in Seq(Chars)
  <2>1. Parse(a) = ParseToolUse(a.edits)
    BY <1>2 DEF Parse
  <2>2. Parse(a) = Batch(a.edits)
    <3>1. PICK seq : seq = a.edits
      OBVIOUS
    <3>2. PICK bad \in BOOLEAN : bad = (seq = <<>> \/ \E i \in DOMAIN seq : seq[i].search = <<>>)
      OBVIOUS
    <3>3. Parse(a) = IF bad THEN Failure("invalid tool use") ELSE Batch(seq)
      BY <2>1, <3>1, <3>2 DEF ParseToolUse
    <3>4. Failure("invalid tool use").ok = FALSE
      BY DEF Failure
    <3>5. ~bad
      BY <3>3, <3>4
    <3> QED
      BY <3>1, <3>3, <3>5
  <2>3. PICK seq : seq = a.edits
    OBVIOUS
  <2>4. PICK E : E = ToSet(a.edits)
    OBVIOUS
  <2>5. seq \in Seq(E) /\ \A e \in E : e.search \in Strings /\ e.replace \in Strings
    BY <1>2, <2>3, <2>4 DEF Strings
  <2>6. Len(seq) \in Nat /\ \A i \in 1 .. Len(seq) : seq[i].search \in Strings /\ seq[i].replace \in Strings
    BY <2>5
  <2>7. Parse(a).whole = FALSE /\ Parse(a).edits = seq
    BY <2>2, <2>3 DEF Batch
  <2> QED
    BY <2>6, <2>7 DEF IsOperation
<1>3. CASE a.format = "search-replace" /\ a.lines \in Seq(Seq(Chars))
  <2>1. PICK lines \in Seq(Strings) : lines = a.lines
    BY <1>3 DEF Strings
  <2>2. Parse(a) = ParseSearchReplace(lines)
    BY <1>3, <2>1 DEF Parse
  <2>3. PICK B : B = Blocks(lines)
    OBVIOUS
  <2>4. ~(\A i, j \in B : i = j)
    BY <2>2, <2>3 DEF ParseSearchReplace, Failure
  <2>5. Parse(a) = Batch(<<Edit(Block(lines, Min(B)), Block(lines, Min(B \ {Min(B)})))>>)
    BY <2>2, <2>3, <2>4 DEF ParseSearchReplace
  <2>6. B \subseteq DOMAIN lines /\ B \subseteq Nat
    BY <2>3 DEF Blocks
  <2>7. Min(B) \in B
    BY <2>4, <2>6, LeastIsMin
  <2>8. PICK C : C = B \ {Min(B)}
    OBVIOUS
  <2>9. Min(C) \in C
    <3>1. C \subseteq Nat
      BY <2>6, <2>8
    <3>2. C # {}
      <4>1. PICK i \in B, j \in B : i # j
        BY <2>4
      <4>2. i \in C \/ j \in C
        BY <2>8, <4>1
      <4> QED
        BY <4>2
    <3> QED
      BY <3>1, <3>2, LeastIsMin
  <2>10. PICK x \in Strings : x = Block(lines, Min(B))
    BY <2>6, <2>7, BlockIsText
  <2>11. PICK y \in Strings : y = Block(lines, Min(C))
    BY <2>6, <2>8, <2>9, BlockIsText
  <2>12. Parse(a) = Batch(<<Edit(x, y)>>)
    BY <2>5, <2>8, <2>10, <2>11
  <2>13. Parse(a).whole = FALSE /\ Parse(a).edits = <<Edit(x, y)>>
    BY <2>12 DEF Batch
  <2>14. Edit(x, y).search = x /\ Edit(x, y).replace = y
    BY DEF Edit
  <2>15. PICK e : e = Edit(x, y)
    OBVIOUS
  <2>16. Len(<<e>>) = 1 /\ <<e>>[1] = e
    OBVIOUS
  <2> QED
    BY <2>13, <2>14, <2>15, <2>16 DEF IsOperation
<1> QED
  BY <1>1, <1>2, <1>3, AnswersAssumption

-----------------------------------------------------------------------------
(* Answers *)

\* The first blocks of an answer are the ones its author meant.
LEMMA FirstBlocks ==
  ASSUME NEW lines \in Seq(Strings), NEW i \in DOMAIN lines, NEW j \in DOMAIN lines,
         NEW k \in DOMAIN lines, i < j, j < k,
         lines[i] = Search, lines[j] = Replace, lines[k] = End,
         \A m \in (1 .. j - 1) \ {i} : lines[m] \notin {Search, Replace},
         \A m \in j + 1 .. k - 1 : lines[m] # End
  PROVE  ParseSearchReplace(lines)
           = Batch(<<Edit(Trimmed(Joined(SubSeq(lines, i + 1, j - 1))),
                          Trimmed(Joined(SubSeq(lines, j + 1, k - 1))))>>)
<1>1. /\ Len(lines) \in Nat /\ DOMAIN lines = 1 .. Len(lines)
      /\ i \in Nat /\ j \in Nat /\ k \in Nat
      /\ i \in 1 .. Len(lines) /\ j \in 1 .. Len(lines) /\ k \in 1 .. Len(lines)
  OBVIOUS
<1>2. PICK B : B = Blocks(lines)
  OBVIOUS
<1>3. i \in B /\ j \in B /\ B \subseteq Nat /\ \A m \in B : m = i \/ m >= j
  <2>1. i \in B /\ j \in B
    BY <1>2 DEF Blocks
  <2>2. B \subseteq 1 .. Len(lines)
    BY <1>1, <1>2 DEF Blocks
  <2>3. ASSUME NEW m \in B, m # i, ~(m >= j) PROVE FALSE
    <3>1. m \in (1 .. j - 1) \ {i}
      BY <1>1, <2>2, <2>3
    <3>2. lines[m] \notin {Search, Replace}
      BY <3>1
    <3> QED
      BY <1>2, <3>2 DEF Blocks
  <2> QED
    BY <1>1, <2>1, <2>2, <2>3
<1>4. Min(B) = i
  <2>1. Min(B) \in B /\ \A m \in B : Min(B) <= m
    BY <1>3, LeastIsMin
  <2> QED
    BY <1>1, <1>3, <2>1
<1>5. Min(B \ {i}) = j
  <2>1. B \ {i} \subseteq Nat /\ j \in B \ {i}
    BY <1>1, <1>3
  <2>2. Min(B \ {i}) \in B \ {i} /\ \A m \in B \ {i} : Min(B \ {i}) <= m
    <3> HIDE <1>3
    <3>1. PICK C : C = B \ {i}
      OBVIOUS
    <3>2. C \subseteq Nat /\ C # {}
      BY <2>1, <3>1
    <3>3. Min(C) \in C /\ \A m \in C : Min(C) <= m
      BY <3>2, LeastIsMin
    <3> QED
      BY <3>1, <3>3
  <2>3. Min(B \ {i}) >= j /\ Min(B \ {i}) <= j /\ Min(B \ {i}) \in Nat
    BY <1>1, <1>3, <2>1, <2>2
  <2> QED
    BY <1>1, <2>3
<1>6. Block(lines, i) = Trimmed(Joined(SubSeq(lines, i + 1, j - 1)))
  <2>1. PICK D : D = {x \in (i + 1) .. Len(lines) : lines[x] = Replace}
    OBVIOUS
  <2>2. j \in D /\ D \subseteq Nat
    BY <1>1, <2>1
  <2>3. Min(D) \in D /\ \A m \in D : Min(D) <= m
    BY <2>2, LeastIsMin
  <2>4. Min(D) >= j
    <3> SUFFICES ASSUME ~(Min(D) >= j) PROVE FALSE
      OBVIOUS
    <3>1. Min(D) \in (1 .. j - 1) \ {i} /\ lines[Min(D)] = Replace
      BY <1>1, <2>1, <2>3
    <3> QED
      BY <3>1
  <2>5. Min(D) = j /\ D # {}
    BY <1>1, <2>2, <2>3, <2>4
  <2>6. Block(lines, i)
          = Trimmed(Joined(SubSeq(lines, i + 1, IF D = {} THEN Len(lines) ELSE Min(D) - 1)))
    BY <2>1 DEF Block
  <2> QED
    BY <2>5, <2>6
<1>7. Block(lines, j) = Trimmed(Joined(SubSeq(lines, j + 1, k - 1)))
  <2>1. PICK D : D = {x \in (j + 1) .. Len(lines) : lines[x] = End}
    OBVIOUS
  <2>2. k \in D /\ D \subseteq Nat
    BY <1>1, <2>1
  <2>3. Min(D) \in D /\ \A m \in D : Min(D) <= m
    BY <2>2, LeastIsMin
  <2>4. Min(D) >= k
    <3> SUFFICES ASSUME ~(Min(D) >= k) PROVE FALSE
      OBVIOUS
    <3>1. Min(D) \in j + 1 .. k - 1 /\ lines[Min(D)] = End
      BY <1>1, <2>1, <2>3
    <3> QED
      BY <3>1
  <2>5. Min(D) = k /\ D # {}
    BY <1>1, <2>2, <2>3, <2>4
  <2>6. Replace # Search
    BY DEF Replace, Search
  <2>7. Block(lines, j)
          = Trimmed(Joined(SubSeq(lines, j + 1, IF D = {} THEN Len(lines) ELSE Min(D) - 1)))
    BY <2>1, <2>6 DEF Block
  <2> QED
    BY <2>5, <2>7
<1>8. ~(\A x, y \in Blocks(lines) : x = y)
  BY <1>1, <1>2, <1>3
<1>9. ParseSearchReplace(lines) = Batch(<<Edit(Block(lines, i), Block(lines, j))>>)
  BY <1>2, <1>4, <1>5, <1>8 DEF ParseSearchReplace
<1> QED
  BY <1>6, <1>7, <1>9

\* What is proposed is an answer that was parsed.
Proposed == op = None \/ \E a \in Answers : op = [parsed |-> Parse(a), answer |-> a] /\ Parse(a).ok

\* It stays so.
LEMMA ProposedHolds == Spec => []Proposed
<1>1. Init => Proposed
  BY DEF Init, Proposed
<1>2. Proposed /\ [Next]_vars => Proposed'
  <2> SUFFICES ASSUME Proposed, [Next]_vars PROVE Proposed'
    OBVIOUS
  <2>1. CASE \E answer \in Answers : Propose(answer)
    BY <2>1 DEF Propose, Proposed
  <2>2. CASE Apply
    BY <2>2 DEF Apply, Proposed
  <2>3. CASE UNCHANGED vars
    BY <2>3 DEF Proposed, vars
  <2> QED
    BY <2>1, <2>2, <2>3 DEF Next
<1> QED
  BY <1>1, <1>2, PTL DEF Spec

\* SearchReplaceParser::parse and consume_block read a block as it was written,
\* whatever text, markers and lengths the answers have.
THEOREM BlocksAreReadAsWritten == Spec => []BlockReadAsWritten
<1>1. Proposed => BlockReadAsWritten
  <2> SUFFICES ASSUME Proposed, op # None, op.answer.format = "search-replace",
                      op.answer.block # None
               PROVE  op.parsed.edits = <<Edit(Trimmed(Joined(op.answer.block[1])),
                                               Trimmed(Joined(op.answer.block[2])))>>
    BY DEF BlockReadAsWritten
  <2>1. PICK a \in Answers : op = [parsed |-> Parse(a), answer |-> a]
    BY DEF Proposed
  <2>2. op.answer = a /\ op.parsed = Parse(a)
    BY <2>1
  <2>3. a.format = "search-replace" /\ a.block # None
    BY <2>2
  <2>4. /\ a.lines \in Seq(Strings)
        /\ \E i, j, k \in DOMAIN a.lines :
              /\ i < j /\ j < k
              /\ a.lines[i] = Search /\ a.lines[j] = Replace /\ a.lines[k] = End
              /\ \A m \in (1..j - 1) \ {i} : a.lines[m] \notin {Search, Replace}
              /\ \A m \in j + 1..k - 1 : a.lines[m] # End
              /\ a.block = <<SubSeq(a.lines, i + 1, j - 1), SubSeq(a.lines, j + 1, k - 1)>>
    BY <2>3, AnswersAssumption DEF Strings
  <2>5. PICK i, j, k \in DOMAIN a.lines :
              /\ i < j /\ j < k
              /\ a.lines[i] = Search /\ a.lines[j] = Replace /\ a.lines[k] = End
              /\ \A m \in (1..j - 1) \ {i} : a.lines[m] \notin {Search, Replace}
              /\ \A m \in j + 1..k - 1 : a.lines[m] # End
              /\ a.block = <<SubSeq(a.lines, i + 1, j - 1), SubSeq(a.lines, j + 1, k - 1)>>
    BY <2>4
  <2>6. PICK lines \in Seq(Strings) : lines = a.lines
    BY <2>4
  <2>7. ParseSearchReplace(lines)
           = Batch(<<Edit(Trimmed(Joined(SubSeq(lines, i + 1, j - 1))),
                          Trimmed(Joined(SubSeq(lines, j + 1, k - 1))))>>)
    <3>1. /\ i \in DOMAIN lines /\ j \in DOMAIN lines /\ k \in DOMAIN lines /\ i < j /\ j < k
          /\ lines[i] = Search /\ lines[j] = Replace /\ lines[k] = End
          /\ \A m \in (1 .. j - 1) \ {i} : lines[m] \notin {Search, Replace}
          /\ \A m \in j + 1 .. k - 1 : lines[m] # End
      BY <2>5, <2>6
    <3> HIDE <2>5
    <3> QED
      BY <3>1, FirstBlocks
  <2>8. Parse(a) = ParseSearchReplace(lines)
    BY <2>3, <2>6 DEF Parse
  <2>9. Parse(a).edits = <<Edit(Trimmed(Joined(a.block[1])), Trimmed(Joined(a.block[2])))>>
    BY <2>5, <2>6, <2>7, <2>8 DEF Batch
  <2> QED
    BY <2>2, <2>9
<1> QED
  BY <1>1, ProposedHolds, PTL

\* What was applied, to what, and what came of it.
IsOutcome(l) ==
  \E text \in Strings : \E o :
    IsOperation(o) /\ l = [before |-> text, op |-> o, result |-> ApplyOperation(text, o)]

Applied ==
  /\ content \in Strings
  /\ op = None \/ IsOperation(op.parsed)
  /\ last = None \/ IsOutcome(last)

\* The file stays a text, and what was applied last stays known.
LEMMA AppliedHolds == Spec => []Applied
<1>1. Init => Applied
  BY ContentsAssumption DEF Init, Applied, Strings
<1>2. Applied /\ [Next]_vars => Applied'
  <2> SUFFICES ASSUME Applied, [Next]_vars PROVE Applied'
    OBVIOUS
  <2>1. ASSUME NEW a \in Answers, Propose(a) PROVE Applied'
    <3>1. /\ op' = IF Parse(a).ok THEN [parsed |-> Parse(a), answer |-> a] ELSE None
          /\ last' = None /\ content' = content
      BY <2>1 DEF Propose
    <3>2. CASE Parse(a).ok
      <4>1. op'.parsed = Parse(a)
        BY <3>1, <3>2
      <4>2. IsOperation(op'.parsed)
        BY <3>2, <4>1, ParsedIsOperation
      <4> QED
        BY <3>1, <4>2 DEF Applied
    <3>3. CASE ~Parse(a).ok
      BY <3>1, <3>3 DEF Applied
    <3> QED
      BY <3>2, <3>3
  <2>2. CASE Apply
    <3>1. PICK o : o = op.parsed
      OBVIOUS
    <3>2. content \in Strings /\ IsOperation(o)
      BY <2>2, <3>1 DEF Apply, Applied
    <3>3. PICK result : result = ApplyOperation(content, o)
      OBVIOUS
    <3>4. result \in Results
      BY <3>2, <3>3, OperationIsResult
    <3>5. /\ op' = None
          /\ last' = [before |-> content, op |-> o, result |-> ApplyOperation(content, o)]
          /\ content' = IF result.ok THEN result.text ELSE content
      BY <2>2, <3>1, <3>3 DEF Apply
    <3>6. content' \in Strings
      BY <3>2, <3>4, <3>5 DEF Results
    <3>7. IsOutcome(last')
      BY <3>2, <3>5 DEF IsOutcome
    <3> QED
      BY <3>5, <3>6, <3>7 DEF Applied
  <2>3. CASE UNCHANGED vars
    BY <2>3 DEF Applied, vars
  <2> QED
    BY <2>1, <2>2, <2>3 DEF Next
<1> QED
  BY <1>1, <1>2, PTL DEF Spec

\* find_block and apply_single put the replacement where the text sought stands
\* first, or else at the window of lines most like it, and refuse an edit as not
\* found or as ambiguous only when it is, whatever the file and the edit.
THEOREM EditsLandOnTheBest == Spec => []EditLandsOnBest
<1>1. Applied => EditLandsOnBest
  <2> SUFFICES ASSUME last # None, IsOutcome(last), ~last.op.whole, Len(last.op.edits) = 1,
                      last.op.edits[1].search # <<>>
               PROVE
    LET edit == last.op.edits[1]
        text == last.before
        exact == Occurrences(text, edit.search)
        blob == Window(edit.search, 1, LineCount(edit.search))
        scored == {r \in LineWindows(text, edit.search) :
                     AtLeastThreshold(Score(blob, SubSeq(text, r[1], r[2])))}
        Of(r) == Score(blob, SubSeq(text, r[1], r[2]))
        Replacing(r) == SubSeq(text, 1, r[1] - 1) \o edit.replace
                          \o SubSeq(text, r[2] + 1, Len(text))
    IN
    CASE exact # {} ->
           /\ last.result.ok
           /\ \E i \in exact : /\ \A j \in exact : i <= j
                               /\ last.result.text = Replacing(<<i, i + Len(edit.search) - 1>>)
      [] exact = {} /\ last.result.ok ->
           \E r \in scored : /\ last.result.text = Replacing(r)
                             /\ \A q \in scored : Difference(Of(r), Of(q)) >= 0
      [] exact = {} /\ ~last.result.ok /\ last.result.why = "none" -> scored = {}
      [] OTHER -> \E r, q \in scored : r # q /\ Tied(Of(r), Of(q))
    BY DEF Applied, EditLandsOnBest
  <2>0. PICK text \in Strings :
          \E o : IsOperation(o)
                   /\ last = [before |-> text, op |-> o, result |-> ApplyOperation(text, o)]
    BY DEF IsOutcome
  <2>1. PICK o : IsOperation(o)
                   /\ last = [before |-> text, op |-> o, result |-> ApplyOperation(text, o)]
    BY <2>0
  <2>2. PICK edit : edit = o.edits[1]
    OBVIOUS
  <2>3. last.before = text /\ last.op = o /\ last.op.edits[1] = edit
    BY <2>1, <2>2
  <2>4. o.whole = FALSE /\ Len(o.edits) = 1
    BY <2>1, <2>3 DEF IsOperation
  <2>5. edit.search \in Strings /\ edit.search # <<>>
    BY <2>1, <2>2, <2>3, <2>4 DEF IsOperation
  <2>6. PICK needle \in Strings : needle = edit.search /\ needle # <<>>
    BY <2>5
  <2>7. PICK result : result = ApplySingle(text, edit)
    OBVIOUS
  <2>8. last.result = result
    BY <2>1, <2>2, <2>4, <2>7, OperationIsResult
  <2>9. PICK at : at = FindBlock(text, needle)
    OBVIOUS
  <2> DEFINE Replacing(r) == SubSeq(text, 1, r[1] - 1) \o edit.replace
                               \o SubSeq(text, r[2] + 1, Len(text))
             Of(r) == SimilarityOf(text, needle, r)
             scored == Scored(text, needle)
             exact == Occurrences(text, needle)
  <2>10. /\ \A from, to : at = Found(from, to) =>
              result.ok /\ result.text = Replacing(<<from, to>>)
         /\ at = NotFound => ~result.ok /\ result.why = "none"
         /\ \A m : at = Ambiguous(m) => ~result.ok /\ result.why = "ambiguous"
    <3>1. result = IF at.kind = "found"
                   THEN [ok |-> TRUE, text |-> SubSeq(text, 1, at.from - 1) \o edit.replace
                                                 \o SubSeq(text, at.to + 1, Len(text))]
                   ELSE Failure(at.kind)
      BY <2>6, <2>7, <2>9 DEF ApplySingle
    <3>2. ASSUME NEW from, NEW to, at = Found(from, to)
          PROVE  result.ok /\ result.text = Replacing(<<from, to>>)
      <4>1. at.kind = "found" /\ at.from = from /\ at.to = to
        BY <3>2 DEF Found
      <4>2. result = [ok |-> TRUE, text |-> Replacing(<<from, to>>)]
        BY <3>1, <4>1
      <4> HIDE DEF Replacing
      <4> QED
        BY <4>2
    <3>3. at = NotFound => ~result.ok /\ result.why = "none"
      BY <3>1 DEF NotFound, Failure
    <3>4. \A m : at = Ambiguous(m) => ~result.ok /\ result.why = "ambiguous"
      BY <3>1 DEF Ambiguous, Failure
    <3> HIDE DEF Replacing
    <3> QED
      BY <3>2, <3>3, <3>4
  <2>11. exact # {} =>
           /\ result.ok
           /\ \E i \in exact : /\ \A j \in exact : i <= j
                               /\ result.text = Replacing(<<i, i + Len(needle) - 1>>)
    <3> SUFFICES ASSUME exact # {}
                 PROVE  \E i \in exact : /\ result.ok /\ \A j \in exact : i <= j
                                         /\ result.text = Replacing(<<i, i + Len(needle) - 1>>)
      OBVIOUS
    <3>1. PICK i \in exact : (\A j \in exact : i <= j) /\ at = Found(i, i + Len(needle) - 1)
      BY <2>6, <2>9, FindsTheFirst
    <3> HIDE DEF exact, Replacing
    <3> QED
      BY <2>10, <3>1
  <2>12. exact = {} =>
           \/ ~result.ok /\ result.why = "none" /\ scored = {}
           \/ /\ result.ok
              /\ \E r \in scored : /\ result.text = Replacing(<<r[1], r[2]>>)
                                   /\ \A q \in scored : Difference(Of(r), Of(q)) >= 0
           \/ /\ ~result.ok /\ result.why = "ambiguous"
              /\ \E r, q \in scored : r # q /\ Tied(Of(r), Of(q))
    <3> SUFFICES ASSUME exact = {}
                 PROVE
           \/ ~result.ok /\ result.why = "none" /\ scored = {}
           \/ /\ result.ok
              /\ \E r \in scored : /\ result.text = Replacing(<<r[1], r[2]>>)
                                   /\ \A q \in scored : Difference(Of(r), Of(q)) >= 0
           \/ /\ ~result.ok /\ result.why = "ambiguous"
              /\ \E r, q \in scored : r # q /\ Tied(Of(r), Of(q))
      OBVIOUS
    <3>1. \/ at = NotFound /\ scored = {}
          \/ \E r \in scored : at = Found(r[1], r[2])
                                 /\ \A q \in scored : Difference(Of(r), Of(q)) >= 0
          \/ \E m \in Nat : at = Ambiguous(m) /\ \E r, q \in scored : r # q /\ Tied(Of(r), Of(q))
      BY <2>6, <2>9, FindsTheBest
    <3> HIDE DEF exact, Replacing, Of, scored
    <3> QED
      BY <2>10, <3>1
  <2>13. \A r : Replacing(<<r[1], r[2]>>) = Replacing(r)
    OBVIOUS
  <2>14. scored = {r \in LineWindows(text, needle) :
                     AtLeastThreshold(Score(Window(needle, 1, LineCount(needle)), SubSeq(text, r[1], r[2])))}
         /\ \A r : Of(r) = Score(Window(needle, 1, LineCount(needle)), SubSeq(text, r[1], r[2]))
    BY DEF Scored, SimilarityOf
  <2>15. CASE exact # {}
    BY <2>3, <2>6, <2>8, <2>11, <2>15
  <2>16. CASE exact = {}
    <3> HIDE DEF scored, Of
    <3>1. CASE ~result.ok /\ result.why = "none" /\ scored = {}
      BY <2>3, <2>6, <2>8, <2>14, <2>16, <3>1
    <3>2. CASE /\ result.ok
               /\ \E r \in scored : /\ result.text = Replacing(<<r[1], r[2]>>)
                                    /\ \A q \in scored : Difference(Of(r), Of(q)) >= 0
      BY <2>3, <2>6, <2>8, <2>13, <2>14, <2>16, <3>2
    <3>3. CASE /\ ~result.ok /\ result.why = "ambiguous"
               /\ \E r, q \in scored : r # q /\ Tied(Of(r), Of(q))
      BY <2>3, <2>6, <2>8, <2>14, <2>16, <3>3
    <3> QED
      BY <2>12, <2>16, <3>1, <3>2, <3>3
  <2> QED
    BY <2>15, <2>16, ZenonT(60)
<1> QED
  BY <1>1, AppliedHolds, PTL

=============================================================================
