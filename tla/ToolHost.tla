------------------------------- MODULE ToolHost -------------------------------
(***************************************************************************)
(* A host with a ToolRegistry, and an MCP server in a child process that   *)
(* runs the same built-in tools over the same workspace.  McpClient and    *)
(* McpToolAdapter reach the server through two pipes of lines; McpServer   *)
(* takes one line at a time.  A pipe holds only so much: whoever writes    *)
(* more waits until the other side reads.                                  *)
(***************************************************************************)
EXTENDS FsTools

CONSTANTS
  Hosts,        \* tasks of the host that invoke tools; actors
  Server,       \* the server process; an actor
  HostTools, ServerTools,
  Rooms,        \* how many lines the two pipes may hold without a reader
  MaxCalls, MaxCancels   \* bounds

ASSUME ActorsAssumption == Actors = Hosts \cup {Server} /\ Server \notin Hosts
ASSUME RoomsAssumption == Rooms \subseteq [{"toServer", "toClient"} -> Nat]

VARIABLES
  registry,     \* the tools of the host that live in the server
  host,         \* per task: its invocation, None if none
  lock,         \* holder of the mutex around McpClient, or None
  nextId,
  toServer, half,   \* lines in the pipe; whether a line without end follows
  toClient,         \* lines in the other pipe
  link,             \* "open", "closed" (no stdin any more), "down"
  room,             \* the lines that each pipe holds without a reader
  serving,          \* the request the server executes, or None
  reply,            \* the response the server writes, or None
  calls, cancels    \* numbers of calls and of cancelled calls

pipes == <<toServer, half, toClient, link, room>>
vars == <<toolVars, registry, host, lock, nextId, pipes, serving, reply, calls, cancels>>

-----------------------------------------------------------------------------
(* Lines.  A response carries, besides its id, the call it is the answer to. *)

Garbage == [kind |-> "garbage"]
Request(id, call, method, r) ==
  [kind |-> "request", id |-> id, call |-> call, method |-> method, req |-> r]
Response(id, call, result) ==
  [kind |-> "response", id |-> id, call |-> call, result |-> result]
RpcError == [error |-> TRUE]
Value(r) == [error |-> FALSE, value |-> r]
ParseErrorResponse == Response(0, 0, RpcError)

HostInit ==
  /\ ToolsInit
  /\ registry = {}
  /\ host = [c \in Hosts |-> None]
  /\ lock = None
  /\ nextId = 1
  /\ toServer = <<>> /\ half = FALSE /\ toClient = <<>> /\ link = "open"
  /\ room \in Rooms
  /\ serving = None /\ reply = None
  /\ calls = 0 /\ cancels = 0

-----------------------------------------------------------------------------
(* The host. *)

Discovered == registry # {}

Pending(method, r) ==
  [stage |-> "lock", method |-> method, req |-> r, call |-> calls + 1, id |-> 0,
   outcome |-> None]

(* ToolRegistry::invoke_by_name: a local tool runs in the task itself. *)
Invoke(c) ==
  /\ host[c] = None /\ act[c] = None
  /\ calls < MaxCalls
  /\ calls' = calls + 1
  /\ \E r \in Requests :
       /\ r.tool \in HostTools \cup registry
       /\ IF r.tool \in registry
          THEN /\ host' = [host EXCEPT ![c] = Pending("tools/call", r)]
               /\ UNCHANGED act
          ELSE /\ act' = [act EXCEPT ![c] = Call(r)]
               /\ UNCHANGED host
  /\ UNCHANGED <<files, reached, registry, lock, nextId,
                 pipes, serving, reply, cancels>>

(* register_all begins with tools/list, over a client nobody shares yet. *)
Discover(c) ==
  /\ ~Discovered
  /\ link = "open"
  /\ \A d \in Hosts : host[d] = None
  /\ act[c] = None
  /\ calls < MaxCalls
  /\ calls' = calls + 1
  /\ host' = [host EXCEPT ![c] = Pending("tools/list", None)]
  /\ UNCHANGED <<toolVars, registry, lock, nextId, pipes, serving, reply, cancels>>

Lock(c) ==
  /\ host[c] # None /\ host[c].stage = "lock"
  /\ lock = None
  /\ lock' = c
  /\ host' = [host EXCEPT ![c].stage = "send"]
  /\ UNCHANGED <<toolVars, registry, nextId, pipes, serving, reply, calls, cancels>>

(* The invocation is over, and the guard of the mutex dropped. *)
Ends(c, outcome) ==
  /\ host' = [host EXCEPT ![c].stage = "ended", ![c].outcome = outcome]
  /\ lock' = None

Error == [ok |-> FALSE]

(* Who waits for a line takes it as it comes, however long it is. *)
ServerListens == link # "down" /\ serving = None /\ reply = None /\ toServer = <<>>
ClientListens ==
  toClient = <<>> /\ \E c \in Hosts : host[c] # None /\ host[c].stage = "recv"

RoomToServer == Len(toServer) + (IF half THEN 1 ELSE 0) < room["toServer"] \/ ServerListens
RoomToClient == Len(toClient) < room["toClient"] \/ ClientListens

(* A mistake: the line is out, yet the call ends with an error. *)
SendGivenUp(c) ==
  LET line == Request(nextId, host[c].call, host[c].method, host[c].req) IN
  /\ host[c] # None /\ host[c].stage = "send"
  /\ nextId' = nextId + 1
  /\ link = "open" => RoomToServer
  /\ toServer' = IF link = "open" THEN Append(toServer, line) ELSE toServer
  /\ Ends(c, Error)
  /\ UNCHANGED <<toolVars, registry, half, toClient, link, room, serving, reply, calls,
                 cancels>>

Send(c) ==
  LET line == Request(nextId, host[c].call, host[c].method, host[c].req) IN
  /\ host[c] # None /\ host[c].stage = "send"
  /\ nextId' = nextId + 1
  /\ \/ /\ link # "open"
        /\ Ends(c, Error)
        /\ UNCHANGED <<toServer, half>>
     \/ /\ link = "open" /\ RoomToServer
        /\ toServer' = Append(toServer, IF half THEN Garbage ELSE line)
        /\ half' = FALSE
        /\ host' = [host EXCEPT ![c].stage = "recv", ![c].id = nextId]
        /\ UNCHANGED lock
  /\ UNCHANGED <<toolVars, registry, toClient, link, room, serving, reply, calls, cancels>>

(* A mistake: any answer will do. *)
OutcomeOfAny(line, id) ==
  CASE line = Garbage -> Error
    [] line # Garbage /\ line.result.error -> Error
    [] OTHER -> [ok |-> TRUE, call |-> line.call, value |-> line.result.value]

(* What the client makes of a line. *)
Outcome(line, id) ==
  CASE line = Garbage -> Error
    [] line # Garbage /\ line.id # id -> Error
    [] line # Garbage /\ line.id = id /\ line.result.error -> Error
    [] OTHER -> [ok |-> TRUE, call |-> line.call, value |-> line.result.value]

Recv(c) ==
  LET outcome == IF toClient = <<>> THEN Error ELSE Outcome(Head(toClient), host[c].id)
      failedDiscovery == host[c].method = "tools/list" /\ ~outcome.ok
  IN
  /\ host[c] # None /\ host[c].stage = "recv"
  /\ toClient # <<>> \/ link = "down"
  /\ toClient' = IF toClient = <<>> THEN <<>> ELSE Tail(toClient)
  /\ Ends(c, outcome)
  /\ registry' = IF host[c].method = "tools/list" /\ outcome.ok
                 THEN outcome.value.tools ELSE registry
  /\ link' = IF failedDiscovery /\ link = "open" THEN "closed" ELSE link
  /\ UNCHANGED <<toolVars, nextId, toServer, half, room, serving, reply, calls, cancels>>

(* The future is dropped where it waits: a line may be left half written or
   half read, also one that is still being written, and an answer may still
   come. *)
Cancel(c) ==
  /\ host[c] # None /\ host[c].stage # "ended"
  /\ cancels < MaxCancels
  /\ cancels' = cancels + 1
  /\ host' = [host EXCEPT ![c] = None]
  /\ lock' = IF lock = c THEN None ELSE lock
  /\ half' \in {half, half \/ (host[c].stage = "send" /\ link = "open")}
  /\ toClient' \in {toClient} \cup
       (IF host[c].stage = "recv" /\ toClient # <<>>
        THEN {<<Garbage>> \o Tail(toClient)} ELSE {})
  /\ reply' \in {reply} \cup
       (IF host[c].stage = "recv" /\ toClient = <<>> /\ reply # None
        THEN {Garbage} ELSE {})
  /\ link' = IF host[c].method = "tools/list" /\ link = "open" THEN "closed" ELSE link
  /\ UNCHANGED <<toolVars, registry, nextId, toServer, room, serving, calls>>

(* The caller takes the result. *)
Take(c) ==
  /\ \/ /\ host[c] # None /\ host[c].stage = "ended"
        /\ host' = [host EXCEPT ![c] = None]
        /\ UNCHANGED act
     \/ /\ act[c] # None /\ act[c].stage = "done"
        /\ act' = [act EXCEPT ![c] = None]
        /\ UNCHANGED host
  /\ UNCHANGED <<files, reached, registry, lock, nextId,
                 pipes, serving, reply, calls, cancels>>

(* McpClient::close, of a client that was not shared. *)
Close ==
  /\ ~Discovered
  /\ link = "open"
  /\ \A d \in Hosts : host[d] = None
  /\ link' = "closed"
  /\ UNCHANGED <<toolVars, registry, host, lock, nextId, toServer, half, toClient, room,
                 serving, reply, calls, cancels>>

-----------------------------------------------------------------------------
(* The server. *)

Reply(line) == reply' = line

(* A mistake: a line that cannot be parsed gets no answer. *)
HandleSilently(line) ==
  CASE line = Garbage -> UNCHANGED <<act, serving, reply>>
    [] line # Garbage /\ line.method = "tools/list" ->
         Reply(Response(line.id, line.call, Value([tools |-> ServerTools])))
           /\ UNCHANGED <<act, serving>>
    [] line # Garbage /\ line.method = "tools/call" ->
         /\ act' = [act EXCEPT ![Server] = Call(line.req)]
         /\ serving' = line
         /\ UNCHANGED reply

(* handle_line and dispatch *)
HandleLine(line) ==
  CASE line = Garbage -> Reply(ParseErrorResponse) /\ UNCHANGED <<act, serving>>
    [] line # Garbage /\ line.method = "tools/list" ->
         Reply(Response(line.id, line.call, Value([tools |-> ServerTools])))
           /\ UNCHANGED <<act, serving>>
    [] line # Garbage /\ line.method = "tools/call" ->
         /\ act' = [act EXCEPT ![Server] = Call(line.req)]
         /\ serving' = line
         /\ UNCHANGED reply

ServerRead ==
  /\ link # "down" /\ serving = None /\ reply = None
  /\ toServer # <<>>
  /\ toServer' = Tail(toServer)
  /\ HandleLine(Head(toServer))
  /\ UNCHANGED <<files, reached, registry, host, lock, nextId,
                 half, toClient, link, room, calls, cancels>>

(* tools_call answers also when the tool failed, with a value that says so. *)
ServerReply ==
  /\ serving # None /\ act[Server].stage = "done"
  /\ Reply(Response(serving.id, serving.call,
                    Value([isError |-> ~act[Server].result.ok])))
  /\ act' = [act EXCEPT ![Server] = None]
  /\ serving' = None
  /\ UNCHANGED <<files, reached, registry, host, lock, nextId, pipes, calls, cancels>>

(* The server reads no further line before the response is in the pipe. *)
ServerWrite ==
  /\ reply # None
  /\ RoomToClient
  /\ toClient' = Append(toClient, reply)
  /\ reply' = None
  /\ UNCHANGED <<toolVars, registry, host, lock, nextId, toServer, half, link, room,
                 serving, calls, cancels>>

(* The process is gone, with whatever it was doing: it crashed, it was killed
   after close, or it saw the end of its input.  A part of the response may be in
   the pipe. *)
ServerGone ==
  /\ link # "down"
  /\ link' = "down"
  /\ act' = [act EXCEPT ![Server] = None]
  /\ serving' = None
  /\ reply' = None
  /\ toClient' \in {toClient} \cup
       (IF reply # None THEN {Append(toClient, Garbage)} ELSE {})
  /\ UNCHANGED <<files, reached, registry, host, lock, nextId,
                 toServer, half, room, calls, cancels>>

-----------------------------------------------------------------------------

(* At most one of them is possible at a time. *)
TaskStep(c) == Lock(c) \/ Send(c) \/ Recv(c) \/ Take(c)
ServerStep == ServerRead \/ ServerReply \/ ServerWrite

HostUnchanged ==
  UNCHANGED <<registry, host, lock, nextId, pipes, serving, reply, calls, cancels>>

Tools(x) == HostUnchanged /\ ToolStep(x)
Fate(x) ==
  HostUnchanged /\ (BashExit(x) \/ WriteFails(x) \/ ReadFails(x) \/ GrepSkips(x))

Next ==
  \/ \E c \in Hosts : Invoke(c) \/ Discover(c) \/ Cancel(c) \/ TaskStep(c)
  \/ \E x \in Actors : Tools(x) \/ Fate(x)
  \/ HostUnchanged /\ ShellWrites
  \/ Close \/ ServerStep \/ ServerGone

(* Tasks are scheduled, tokio's mutex hands its lock on in the order of the
   requests, and a server that is there, which is this repository's, goes on as
   far as the pipes let it.  Nothing is assumed of a child of bash. *)
Fairness ==
  /\ \A c \in Hosts : WF_vars(TaskStep(c))
  /\ \A x \in Actors : WF_vars(Tools(x))
  /\ WF_vars(ServerStep)

Spec == HostInit /\ [][Next]_vars /\ Fairness

-----------------------------------------------------------------------------

(* A call that succeeds has the answer to its own request, whatever calls
   before it were given up half way.  (McpClient::request) *)
AnswerIsForRequest ==
  \A c \in Hosts :
    host[c] # None /\ host[c].stage = "ended" /\ host[c].outcome.ok =>
      host[c].outcome.call = host[c].call

(* Each side waits for the other to read: the server writes a response that
   nobody takes, the host a request that does not fit.  No timeout ends it. *)
Jammed ==
  /\ \E c \in Hosts :
       host[c] # None /\ host[c].stage = "send" /\ link = "open" /\ ~RoomToServer
  /\ reply # None /\ ~RoomToClient

(* Every call ends, though the server may die, lines be torn, and children of
   bash never exit, unless the two processes wait for each other for good.
   (McpClient::request, McpServer::run_stdio, McpServer::handle_line, BashTool) *)
EveryCallEnds ==
  \A c \in Hosts :
    (host[c] # None \/ act[c] # None) ~> ((host[c] = None /\ act[c] = None) \/ Jammed)

(* That takes a call that was given up: as long as every caller waits for its
   answer, a request always finds the server at its pipe.  (McpClient::request,
   StdioTransport::send, McpServer::run_stdio) *)
JamNeedsCancel == Jammed => cancels > 0
=============================================================================
