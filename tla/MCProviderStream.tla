-------------------------- MODULE MCProviderStream --------------------------
(* Model-checking instance of ProviderStream. *)
EXTENDS ProviderStream

TextsDef == {"a", "w", Empty}
FragsDef == {"x", "y", Empty}

Text(t) == [kind |-> "text", body |-> t]
Result(t) == [kind |-> "tool_result", body |-> t]
Message(role, blocks) == [role |-> role, blocks |-> blocks]

(* A conversation with two system messages, a tool result beside text, and an
   answer; with and without an explicit prompt. *)
Conversation ==
  <<Message("system", <<Text("s1")>>), Message("user", <<Text("u")>>),
    Message("assistant", <<Text("a")>>), Message("system", <<Text("s2")>>),
    Message("tool", <<Result("r"), Text("t")>>)>>
RequestsDef ==
  [messages : {Conversation, SubSeq(Conversation, 2, 3)},
   prompt : {NoSystem, <<"p">>}]
=============================================================================
