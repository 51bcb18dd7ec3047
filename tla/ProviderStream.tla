--------------------------- MODULE ProviderStream ---------------------------
(***************************************************************************)
(* LlmProvider::stream of the three HTTP adapters: the server writes       *)
(* events, the transport cuts them into chunks anywhere, the SSE parser    *)
(* (or Ollama's line splitter) puts lines and events together again, the   *)
(* decoder accumulates the response and forwards deltas to a sink.         *)
(*                                                                         *)
(* The wire is a sequence of symbols: the name line of an event, its data  *)
(* (in two halves when it holds a character of several bytes, which the    *)
(* transport can cut) and newlines.  Tool arguments are sequences of the   *)
(* fragments the server sent; tool names travel like the ids.              *)
(***************************************************************************)
EXTENDS ProviderApi, SequencesExt

CONSTANTS
  Adapters,    \* subset of {"anthropic", "openai", "ollama"}
  Texts,       \* text fragments
  Wide,        \* the fragments that hold a character of several bytes
  Frags,       \* argument fragments; Empty is one of them
  Statuses,    \* HTTP statuses of refused requests
  NoId, NoRequest,
  Requests,    \* [messages, prompt] of the requests
  MaxEvents,   \* bound: events the server sends
  MaxCalls,    \* bound: content blocks, or tool calls
  MaxWire      \* bound: symbols on the way

ASSUME ServerAssumption ==
  /\ Adapters \subseteq {"anthropic", "openai", "ollama"}
  /\ Wide \subseteq Texts \ {Empty}
  /\ NoId \notin Nat /\ MaxCalls \in Nat
(* Messages and their blocks are sequences. *)
ASSUME RequestsAssumption ==
  \A r \in Requests :
    /\ r.messages \in Seq(ToSet(r.messages))
    /\ \A m \in ToSet(r.messages) :
         /\ m = [role |-> m.role, blocks |-> m.blocks]
         /\ m.blocks \in Seq(ToSet(m.blocks))

VARIABLES
  adapter, request,
  body,       \* what was sent to the server
  wire,       \* symbols sent and not yet received
  serverOpen, \* the connection stands
  said,       \* history: the response the server has described
  events,     \* history: number of events sent
  lossy,      \* history: a chunk or a call was thrown away on the way
  parser,     \* SseParser: unfinished line, pending name and data
  asm,        \* AssembledResponse
  sent,       \* history: StreamEvents given to the sink
  outcome     \* "running", or how stream returned: "ok", "err"

server == <<wire, serverOpen, said, events>>
client == <<parser, asm, sent, outcome>>
streamVars == <<adapter, request, body, server, lossy, client>>

-----------------------------------------------------------------------------
(* The server. *)

Newline == [k |-> "newline", of |-> Empty]
Name(t) == [k |-> "name", of |-> t]
Data(e) == [k |-> "data", of |-> e]
Half(n, e) == [k |-> n, of |-> e]

(* An event with nothing in it; blocks and calls are counted from 1. *)
Event == [type |-> "message", index |-> 0, id |-> NoId, text |-> Empty,
          args |-> Empty, calls |-> <<>>, stop |-> Empty]

(* The line that carries e. *)
DataLine(e) ==
  IF e.text \in Wide THEN <<Half("first", e), Half("second", e), Newline>>
                     ELSE <<Data(e), Newline>>

Framed(name, e) ==
  CASE adapter = "anthropic" -> <<Name(name), Newline>> \o DataLine(e) \o <<Newline>>
    [] adapter = "openai"    -> DataLine(e) \o <<Newline>>
    [] adapter = "ollama"    -> DataLine(e)

Says(name, e, heard) ==
  /\ serverOpen
  /\ events < MaxEvents
  /\ wire' = wire \o Framed(name, e)
  /\ Len(wire') <= MaxWire
  /\ events' = events + 1
  /\ said' = heard
  /\ UNCHANGED <<adapter, request, body, serverOpen, client>>

Fragment(f) == IF f = Empty THEN <<>> ELSE <<f>>

(* said.blocks[i]: the content blocks, or the calls by their index *)
NewBlock(kind) == [kind |-> kind, id |-> Len(said.blocks), args |-> <<>>]

Heard(i, f) == [said EXCEPT !.blocks[i].args = @ \o Fragment(f)]
HeardText(t) == [said EXCEPT !.text = @ \o Fragment(t)]

(* Anthropic opens one block after the other and describes each by deltas. *)
AnthropicServer ==
  LET last == Len(said.blocks)
      open(kind) == last > 0 /\ said.blocks[last].kind = kind
  IN
  /\ adapter = "anthropic"
  /\ UNCHANGED lossy
  /\ \/ /\ last < MaxCalls
        /\ \E kind \in {"text", "tool_use"} :
             Says("content_block_start",
                  [Event EXCEPT !.type = kind, !.index = last + 1, !.id = last],
                  [said EXCEPT !.blocks = Append(@, NewBlock(kind))])
     \/ /\ open("text")
        /\ \E t \in Texts :
             Says("content_block_delta",
                  [Event EXCEPT !.type = "text_delta", !.index = last, !.text = t],
                  HeardText(t))
     \/ /\ open("tool_use")
        /\ \E f \in Frags :
             Says("content_block_delta",
                  [Event EXCEPT !.type = "input_json_delta", !.index = last, !.args = f],
                  Heard(last, f))
     \/ Says("message_delta", [Event EXCEPT !.stop = "ToolUse"],
             [said EXCEPT !.stop = "ToolUse"])

(* One entry of delta.tool_calls: the id comes with a call's first one. *)
Entry(i, f) ==
  [index |-> i, args |-> f, id |-> IF i > Len(said.blocks) THEN i - 1 ELSE NoId]

HeardCall(s, i, f) ==
  IF i > Len(s.blocks)
  THEN [s EXCEPT !.blocks =
          Append(@, [kind |-> "tool_use", id |-> i - 1, args |-> Fragment(f)])]
  ELSE [s EXCEPT !.blocks[i].args = @ \o Fragment(f)]

(* OpenAI sends text, a call, two calls at once, or the reason to stop. *)
OpenAiServer ==
  LET Chunk(t, calls, stop) ==
        [Event EXCEPT !.text = t, !.calls = calls, !.stop = stop]
      Next1 == 1..(IF Len(said.blocks) < MaxCalls THEN Len(said.blocks) + 1
                                                  ELSE MaxCalls)
  IN
  /\ adapter = "openai"
  /\ \/ /\ UNCHANGED lossy
        /\ \/ \E t \in Texts :
                Says("message", Chunk(t, <<>>, Empty), HeardText(t))
           \/ \E i \in Next1, f \in Frags :
                Says("message", Chunk(Empty, <<Entry(i, f)>>, Empty),
                     HeardCall(said, i, f))
           \/ Says("message", Chunk(Empty, <<>>, "ToolUse"),
                   [said EXCEPT !.stop = "ToolUse"])
     \/ /\ Len(said.blocks) + 2 <= MaxCalls
        /\ lossy' = TRUE
        /\ \E f, g \in Frags :
             LET i == Len(said.blocks) + 1 IN
             Says("message", Chunk(Empty, <<Entry(i, f), Entry(i + 1, g)>>, Empty),
                  HeardCall(HeardCall(said, i, f), i + 1, g))

OllamaServer ==
  /\ adapter = "ollama"
  /\ UNCHANGED lossy
  /\ \E t \in Texts :
       Says("message", [Event EXCEPT !.text = t], HeardText(t))

ServerCloses ==
  /\ serverOpen
  /\ serverOpen' = FALSE
  /\ UNCHANGED <<adapter, request, body, wire, said, events, lossy, client>>

-----------------------------------------------------------------------------
(* sse.rs *)

Garbled == [Event EXCEPT !.type = "garbled"]

(* What a data line holds: an event, or the remains of several lines. *)
Payload(line) ==
  IF \/ Len(line) = 1 /\ line[1].k = "data"
     \/ Len(line) = 2 /\ line[1].k = "first" /\ line[2] = Half("second", line[1].of)
  THEN line[1].of ELSE Garbled

FieldName(line) == IF Len(line) = 1 THEN line[1].of ELSE "garbled"

(* A chunk whose ends cut a character is not UTF-8 by itself. *)
CutsCharacter(chunk) ==
  Head(chunk).k = "second" \/ Last(chunk).k = "first"

-----------------------------------------------------------------------------
(* The decoders: from the state [asm, sent] and an event to the next one. *)

Emit(st, e) == [st EXCEPT !.sent = Append(@, e)]

NoBuffer == [id |-> NoId, marker |-> FALSE, args |-> <<>>]

Grown(buffers, i) ==
  buffers \o [k \in 1..(IF i > Len(buffers) THEN i - Len(buffers) ELSE 0)
                |-> NoBuffer]

Delta(id, f) == [type |-> "ToolCallDelta", id |-> id, args |-> f]

(* An empty text is no delta. *)
TextDelta(st, t) ==
  IF t = Empty THEN st
  ELSE Emit([st EXCEPT !.asm.text = Append(@, t)], [type |-> "ContentDelta", text |-> t])

(* handle_content_block_start: the id waits in the buffer of its block. *)
BlockStart(st, e) ==
  LET grown == [st EXCEPT !.asm.buffers = Grown(@, e.index)] IN
  IF e.type = "tool_use"
  THEN [grown EXCEPT !.asm.buffers[e.index] =
          [id |-> e.id, marker |-> TRUE, args |-> <<>>]]
  ELSE grown

(* A mistake: a fragment replaces the ones before it. *)
ArgsDeltaReplacing(st, e) ==
  IF e.index > Len(st.asm.buffers) THEN st
  ELSE LET b == st.asm.buffers[e.index] IN
       Emit([st EXCEPT !.asm.buffers[e.index] =
               [id |-> NoId, marker |-> FALSE, args |-> Fragment(e.args)]],
            Delta(IF b.marker THEN b.id ELSE NoId, e.args))

(* handle_input_json_delta: the first fragment takes the id out. *)
ArgsDelta(st, e) ==
  IF e.index > Len(st.asm.buffers) THEN st
  ELSE LET b == st.asm.buffers[e.index] IN
       Emit([st EXCEPT !.asm.buffers[e.index] =
               [id |-> NoId, marker |-> FALSE, args |-> b.args \o Fragment(e.args)]],
            Delta(IF b.marker THEN b.id ELSE NoId, e.args))

DecodeAnthropic(st, name, e) ==
  CASE name = "content_block_start" -> BlockStart(st, e)
    [] name = "content_block_delta" /\ e.type = "text_delta" -> TextDelta(st, e.text)
    [] name = "content_block_delta" /\ e.type = "input_json_delta" -> ArgsDelta(st, e)
    [] name = "message_delta" /\ e.stop # Empty -> [st EXCEPT !.asm.stop = e.stop]
    [] OTHER -> st

(* handle_tool_call_delta returns with the first entry that has arguments, and
   every entry has: the rest of the array is never looked at. *)
CallDelta(st, entry) ==
  LET grown == Grown(st.asm.buffers, entry.index)
      b == grown[entry.index]
      id == IF entry.id = NoId THEN b.id ELSE entry.id
  IN  Emit([st EXCEPT !.asm.buffers =
              [grown EXCEPT ![entry.index] =
                 [id |-> id, marker |-> b.marker, args |-> b.args \o Fragment(entry.args)]]],
           Delta(id, entry.args))

DecodeOpenAi(st, e) ==
  CASE e.text # Empty -> TextDelta(st, e.text)
    [] e.text = Empty /\ e.calls # <<>> -> CallDelta(st, Head(e.calls))
    [] e.text = Empty /\ e.calls = <<>> /\ e.stop # Empty -> [st EXCEPT !.asm.stop = e.stop]
    [] OTHER -> st

(* A pending event goes to the decoder if its data is one JSON text. *)
Decode(api, st, name, data) ==
  IF Len(data) # 1 \/ Head(data) = Garbled THEN st
  ELSE IF api = "anthropic" THEN DecodeAnthropic(st, name, Head(data))
  ELSE DecodeOpenAi(st, Head(data))

(* next_event, one line of it. *)
TakeSseLine(api, st, line) ==
  CASE line = <<>> -> [Decode(api, st, st.name, st.data)
                         EXCEPT !.name = Empty, !.data = <<>>]
    [] line # <<>> /\ line[1].k = "name" -> [st EXCEPT !.name = FieldName(line)]
    [] OTHER -> [st EXCEPT !.data = Append(@, Payload(line))]

(* Ollama decodes line by line; what does not parse is passed over. *)
TakeJsonLine(st, line) ==
  IF Payload(line) = Garbled THEN st ELSE TextDelta(st, Payload(line).text)

TakeLine(api, st, line) ==
  IF api = "ollama" THEN TakeJsonLine(st, line) ELSE TakeSseLine(api, st, line)

(* A newline completes the line in the buffer. *)
Read(api, st, x) ==
  IF x = Newline THEN [TakeLine(api, st, st.rest) EXCEPT !.rest = <<>>]
                 ELSE [st EXCEPT !.rest = Append(@, x)]

(* The state after some symbols. *)
Reading(api, st, symbols) ==
  LET upTo[n \in 0..Len(symbols)] ==
        IF n = 0 THEN st ELSE Read(api, upTo[n - 1], symbols[n])
  IN  upTo[Len(symbols)]

-----------------------------------------------------------------------------
(* stream *)

StartEvent == [type |-> "MessageStart"]

StreamInit ==
  /\ adapter \in Adapters
  /\ request \in Requests
  /\ body = Body(adapter, request.messages, request.prompt)
  /\ wire = <<>> /\ serverOpen = TRUE /\ events = 0 /\ lossy = FALSE
  /\ said = [text |-> <<>>, blocks |-> <<>>, stop |-> "Stop"]
  /\ parser = [rest |-> <<>>, name |-> Empty, data |-> <<>>]
  /\ asm = [text |-> <<>>, buffers |-> <<>>, stop |-> "Stop"]
  /\ sent = <<>>
  /\ outcome = "running"

(* The request was sent and is not looked at again; the status decides: an
   error event, or MessageStart; no answer at all is an Err without event. *)
Respond ==
  /\ outcome = "running" /\ sent = <<>>
  /\ \/ /\ \E s \in Statuses :
             sent' = <<[type |-> "Error", kind |-> ErrorKind(s)]>>
        /\ outcome' = "ok"
     \/ sent' = <<StartEvent>> /\ UNCHANGED outcome
     \/ outcome' = "err" /\ UNCHANGED sent
  /\ request' = NoRequest /\ body' = NoRequest
  /\ UNCHANGED <<adapter, server, lossy, parser, asm>>

Streaming == outcome = "running" /\ sent # <<>>

Fail ==
  /\ outcome' = "err"
  /\ UNCHANGED <<adapter, request, body, serverOpen, said, events, parser, asm,
                 sent>>

(* feed drops a chunk that is not UTF-8; Ollama's loop fails on it. *)
ReceiveCut(chunk) ==
  IF adapter = "ollama" THEN Fail /\ UNCHANGED lossy
  ELSE /\ lossy' = TRUE
       /\ UNCHANGED <<adapter, request, body, serverOpen, said, events, client>>

Connection ==
  [rest |-> parser.rest, name |-> parser.name, data |-> parser.data,
   asm |-> asm, sent |-> sent]

(* feed, then every complete line until next_event has none left. *)
ReceiveWhole(chunk) ==
  LET st == Reading(adapter, Connection, chunk) IN
  /\ parser' = [rest |-> st.rest, name |-> st.name, data |-> st.data]
  /\ asm' = st.asm
  /\ sent' = st.sent
  /\ UNCHANGED <<adapter, request, body, serverOpen, said, events, lossy,
                 outcome>>

Receive ==
  /\ Streaming
  /\ \E n \in 1..Len(wire) :
       LET chunk == SubSeq(wire, 1, n) IN
       /\ wire' = SubSeq(wire, n + 1, Len(wire))
       /\ IF CutsCharacter(chunk) THEN ReceiveCut(chunk) ELSE ReceiveWhole(chunk)

(* The transport breaks: `?` returns at once. *)
TransportError ==
  /\ Streaming
  /\ Fail
  /\ UNCHANGED <<wire, lossy>>

(* finalize: buffers that are empty are left out; a block that never got a
   fragment still holds its id, which goes out as its arguments. *)
AnthropicCall(b, i) ==
  [args |-> IF b.marker THEN <<"__id__">> ELSE b.args, id |-> i - 1]

OpenAiCall(b, i) == [args |-> b.args, id |-> b.id]

FinalCalls(buffers) ==
  LET call(i) == IF adapter = "openai" THEN OpenAiCall(buffers[i], i)
                                       ELSE AnthropicCall(buffers[i], i)
      all == [i \in DOMAIN buffers |-> call(i)]
  IN  Chosen(all, {i \in DOMAIN all : all[i].args # <<>>})

Final == [text |-> asm.text, calls |-> FinalCalls(asm.buffers), stop |-> asm.stop]

(* The body ended, whether or not the server had said everything; an
   unfinished line or event is forgotten. *)
Stop ==
  /\ Streaming
  /\ wire = <<>> /\ ~serverOpen
  /\ sent' = Append(sent, [type |-> "MessageStop", response |-> Final])
  /\ outcome' = "ok"
  /\ UNCHANGED <<adapter, request, body, server, lossy, parser, asm>>

StreamNext ==
  \/ Respond
  \/ sent # <<>> /\ outcome = "running" /\
       (AnthropicServer \/ OpenAiServer \/ OllamaServer \/ ServerCloses)
  \/ Receive \/ TransportError \/ Stop

StreamSpec == StreamInit /\ [][StreamNext]_streamVars

-----------------------------------------------------------------------------
(* CapturingStreamSink: a delta without an id belongs to the last call. *)

SinkSend(k, e) ==
  CASE e.type = "ContentDelta" -> [k EXCEPT !.text = Append(@, e.text)]
    [] e.type = "ToolCallDelta" ->
         LET known == {i \in DOMAIN k.calls : k.calls[i].id = e.id}
             calls == IF e.id # NoId /\ known = {}
                      THEN Append(k.calls, [id |-> e.id, args |-> <<>>])
                      ELSE k.calls
             i == IF e.id # NoId /\ known # {} THEN Min(known) ELSE Len(calls)
         IN  IF i = 0 THEN k
             ELSE [k EXCEPT !.calls =
                     [calls EXCEPT ![i].args = @ \o Fragment(e.args)]]
    [] OTHER -> k

Captured(sends) ==
  LET upTo[n \in 0..Len(sends)] ==
        IF n = 0 THEN [text |-> <<>>, calls |-> <<>>] ELSE SinkSend(upTo[n - 1], sends[n])
  IN  upTo[Len(sends)]

Sink == Captured(sent)

-----------------------------------------------------------------------------

Stopped == sent # <<>> /\ Last(sent).type = "MessageStop"
Response == Last(sent).response

(* The arguments there are: an id that stands for them is none. *)
ArgsOf(calls) ==
  LET args == [i \in DOMAIN calls |-> calls[i].args]
  IN  Chosen(args, {i \in DOMAIN args : args[i] \notin {<<>>, <<"__id__">>}})

SaidCalls ==
  Chosen(said.blocks, {i \in DOMAIN said.blocks : said.blocks[i].kind = "tool_use"})

(* part is whole without some of its elements. *)
Follows(part, whole) ==
  \E at \in [DOMAIN part -> DOMAIN whole] :
    /\ \A i, j \in DOMAIN part : i < j => at[i] < at[j]
    /\ \A i \in DOMAIN part : part[i] = whole[at[i]]

(* Wherever the transport cut the body, and whatever was lost on the way, the
   final response says nothing the server did not say and puts nothing into
   another order or another call.  If no chunk and no entry of a call array
   was lost it is the one-shot answer to the same words: the same text, the
   same stop reason and, in the same order, every call that had arguments,
   with its arguments whole; and what the sink assembled from the deltas is
   the same again.  (SseParser, decode_*_event, finalize,
   CapturingStreamSink) *)
FinalIsWhatWasSaid ==
  Stopped =>
    LET whole == OneShot(adapter, [text |-> said.text, calls |-> SaidCalls]) IN
    /\ Follows(Response.text, said.text)
    /\ \A i \in DOMAIN Response.calls :
         LET c == Response.calls[i] IN
         \/ c.args = <<"__id__">>
         \/ \E j \in DOMAIN said.blocks :
              /\ Follows(c.args, said.blocks[j].args)
              /\ c.id \in {said.blocks[j].id, j - 1, NoId}
    /\ ~lossy =>
         /\ Response.text = whole.text
         /\ Response.stop = said.stop
         /\ ArgsOf(Response.calls) = ArgsOf(whole.calls)
         /\ Sink.text = Response.text
         /\ ArgsOf(Sink.calls) = ArgsOf(Response.calls)

(* The conversation reaches the server whole as far as it is text: every
   message but the system's, in its order, with all its text blocks; Anthropic
   is sent no system role, and its system field is the prompt or the first
   system message.  (build_body, split_system, message_to_json) *)
BodyKeepsText ==
  request # NoRequest =>
  LET texts(ms) == [i \in DOMAIN ms |-> TextBlocks(ms[i])]
      user(ms) == Chosen(ms, DOMAIN ms \ Systems(ms))
  IN
  /\ texts(user(body.messages)) = texts(user(request.messages))
  /\ adapter = "anthropic" =>
       /\ \A i \in DOMAIN body.messages : body.messages[i].role # "system"
       /\ body.system = NoSystem =>
            /\ request.prompt = NoSystem
            /\ \A i \in DOMAIN request.messages :
                 request.messages[i].role # "system"

(* Nothing of the text is lost on the way, wherever chunks end: sse.rs says
   that characters cut by a chunk boundary are handled.  (SseParser::feed) *)
CutCharactersKept == Stopped => Response.text = said.text
=============================================================================
