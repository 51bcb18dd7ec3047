----------------------------- MODULE ProviderApi -----------------------------
(***************************************************************************)
(* The conversions of the provider adapters: the request body built from   *)
(* the canonical request, the canonical response made from the body of a   *)
(* one-shot answer, and the class of an HTTP error.                        *)
(*                                                                         *)
(* A message is a role and a sequence of blocks (plain text is one text    *)
(* block); a block is [kind, body] with kind "text", "tool_use" or         *)
(* "tool_result".                                                          *)
(***************************************************************************)
EXTENDS Naturals, Sequences

NoSystem == <<>>      \* an Option: no element, or one
Empty == "empty"      \* the empty string

(* The elements of s whose positions are in I, in their order. *)
Chosen(s, I) ==
  LET upTo[n \in 0..Len(s)] ==
        CASE n = 0              -> <<>>
          [] n # 0 /\ n \in I -> Append(upTo[n - 1], s[n])
          [] OTHER              -> upTo[n - 1]
  IN  upTo[Len(s)]

TextBlocks(m) ==
  Chosen(m.blocks, {i \in DOMAIN m.blocks : m.blocks[i].kind = "text"})

Systems(messages) == {i \in DOMAIN messages : messages[i].role = "system"}

(* split_system: the first system message is lifted out unless the request
   names a prompt; every other system message is dropped.  Tool results go
   back in the user's name. *)
SystemOf(messages, prompt) ==
  CASE prompt # NoSystem -> prompt
    [] prompt = NoSystem /\ Systems(messages) = {} -> NoSystem
    [] OTHER -> <<TextBlocks(Head(Chosen(messages, Systems(messages))))>>

(* A mistake: tool results are left out with the system messages. *)
AnthropicWithoutTools(messages) ==
  Chosen(messages, {i \in DOMAIN messages : messages[i].role \notin {"system", "tool"}})

AnthropicMessages(messages) ==
  LET rest == Chosen(messages, DOMAIN messages \ Systems(messages))
      wire(m) == [m EXCEPT !.role = IF @ = "tool" THEN "user" ELSE @]
  IN  [i \in DOMAIN rest |-> wire(rest[i])]

(* message_to_json of OpenAI and of Ollama: one string per message, made of
   its text blocks alone; a system prompt of the request is not sent. *)
Flattened(m) == [m EXCEPT !.blocks = TextBlocks(m)]

OpenAiMessages(messages) ==
  [i \in DOMAIN messages |-> Flattened(messages[i])]

OllamaMessages(messages) ==
  [i \in DOMAIN messages |-> Flattened(messages[i])]

(* build_body *)
AnthropicBody(messages, prompt) ==
  [system |-> SystemOf(messages, prompt), messages |-> AnthropicMessages(messages)]
OpenAiBody(messages) ==
  [system |-> NoSystem, messages |-> OpenAiMessages(messages)]
OllamaBody(messages) ==
  [system |-> NoSystem, messages |-> OllamaMessages(messages)]

Body(adapter, messages, prompt) ==
  CASE adapter = "anthropic" -> AnthropicBody(messages, prompt)
    [] adapter = "openai"    -> OpenAiBody(messages)
    [] adapter = "ollama"    -> OllamaBody(messages)

-----------------------------------------------------------------------------

(* complete and From<ApiResponse>: every text run and every call the body
   holds, whatever its arguments; Ollama's answers have no calls. *)
AnthropicResponse(said) == [text |-> said.text, calls |-> said.calls]
OpenAiResponse(said) == [text |-> said.text, calls |-> said.calls]
OllamaResponse(said) == [text |-> said.text, calls |-> <<>>]

OneShot(adapter, said) ==
  CASE adapter = "anthropic" -> AnthropicResponse(said)
    [] adapter = "openai"    -> OpenAiResponse(said)
    [] adapter = "ollama"    -> OllamaResponse(said)

(* from_http_status and kind *)
ErrorKind(status) ==
  CASE status \in {401, 403} -> "Auth"
    [] status = 429 -> "RateLimit"
    [] status \in {500, 502, 503, 504, 529} -> "Transient"
    [] OTHER -> "Fatal"
=============================================================================
