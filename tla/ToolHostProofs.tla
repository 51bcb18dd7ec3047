---------------------------- MODULE ToolHostProofs ----------------------------
(***************************************************************************)
(* Proofs about ToolHost for every set of tasks, requests, paths and       *)
(* tools, every tree at first and every bound: in its first part about     *)
(* what goes over the pipes, in its second, from "The files", about what   *)
(* the tools read and write.                                               *)
(***************************************************************************)
EXTENDS ToolHost, NumberLemmas, FiniteSetTheorems, TLAPS

-----------------------------------------------------------------------------
(* Types of what goes over the pipes *)

Methods == {"tools/list", "tools/call"}
Answers == [tools : {ServerTools}] \cup [isError : BOOLEAN]
Outcomes == {None, Error} \cup [ok : {TRUE}, call : Nat, value : Answers]

\* A tools/call carries a request.
HostCall ==
  {h \in [stage : {"lock", "send", "recv", "ended"}, method : Methods,
          req : Requests \cup {None}, call : Nat, id : Nat, outcome : Outcomes] :
     h.method = "tools/call" => h.req \in Requests}

RequestLine ==
  {l \in [kind : {"request"}, id : Nat, call : Nat, method : Methods,
          req : Requests \cup {None}] :
     l.method = "tools/call" => l.req \in Requests}

ResponseLine ==
  [kind : {"response"}, id : Nat, call : Nat,
   result : {RpcError} \cup [error : {FALSE}, value : Answers]]

\* Lines are requests one way and responses the other way, or garbage.
WireTyped ==
  /\ host \in [Hosts -> HostCall \cup {None}]
  /\ nextId \in Nat /\ calls \in Nat
  /\ toServer \in Seq(RequestLine \cup {Garbage})
  /\ toClient \in Seq(ResponseLine \cup {Garbage})
  /\ serving \in RequestLine \cup {None}
  /\ reply \in ResponseLine \cup {Garbage, None}

\* Id and call of every request that is waited for, on its way or executed,
\* and of every response that is written or on its way; the parse error has
\* both 0.
Pairs ==
  {<<host[c].id, host[c].call>> :
     c \in {d \in Hosts : host[d] # None /\ host[d].stage = "recv"}}
  \cup {<<toServer[n].id, toServer[n].call>> :
          n \in {m \in 1 .. Len(toServer) : toServer[m] # Garbage}}
  \cup {<<toClient[n].id, toClient[n].call>> :
          n \in {m \in 1 .. Len(toClient) : toClient[m] # Garbage}}
  \cup {<<r.id, r.call>> : r \in {serving} \ {None}}
  \cup {<<r.id, r.call>> : r \in {reply} \ {None, Garbage}}
  \cup {<<0, 0>>}

\* An id has been given out for one call only.
IdsApart ==
  /\ Pairs \subseteq (0 .. nextId - 1) \X Nat
  /\ \A u, v \in Pairs : u[1] = v[1] => u[2] = v[2]

-----------------------------------------------------------------------------
(* Answers *)

\* Appending to and taking from a pipe.
LEMMA PipeProps ==
  ASSUME NEW S, NEW s \in Seq(S), NEW x \in S
  PROVE  /\ Append(s, x) \in Seq(S)
         /\ Len(Append(s, x)) = Len(s) + 1
         /\ Append(s, x)[Len(s) + 1] = x
         /\ \A n \in 1 .. Len(s) : Append(s, x)[n] = s[n]
         /\ s # <<>> => /\ Head(s) = s[1] /\ Head(s) \in S
                        /\ Tail(s) \in Seq(S) /\ Len(Tail(s)) = Len(s) - 1
                        /\ \A n \in 1 .. Len(Tail(s)) : Tail(s)[n] = s[n + 1]
OBVIOUS

\* Requests and responses are not garbage.
LEMMA NotGarbage ==
  /\ \A l \in RequestLine : l # Garbage
  /\ \A l \in ResponseLine : l # Garbage
<1>1. Garbage.kind = "garbage"
  BY DEF Garbage
<1>2. /\ \A l \in RequestLine : l.kind = "request"
      /\ \A l \in ResponseLine : l.kind = "response"
  BY DEF RequestLine, ResponseLine
<1> QED
  BY <1>1, <1>2

\* What the client makes of a line is an outcome; a success is the answer to the
\* id it waits for.  (client.rs: request.)
LEMMA OutcomeProps ==
  ASSUME NEW line \in ResponseLine \cup {Garbage}, NEW id
  PROVE  /\ Outcome(line, id) \in Outcomes
         /\ Outcome(line, id).ok => /\ line # Garbage /\ line.id = id
                                    /\ Outcome(line, id).call = line.call
<1>1. CASE line = Garbage
  BY <1>1 DEF Outcome, Outcomes, Error
<1>2. CASE line \in ResponseLine
  <2>1. line # Garbage
    BY <1>2, NotGarbage
  <2>2. CASE line.id # id \/ line.result.error
    <3>1. Outcome(line, id) = Error
      BY <2>1, <2>2 DEF Outcome
    <3> QED
      BY <3>1 DEF Error, Outcomes
  <2>3. CASE line.id = id /\ ~line.result.error
    <3>1. Outcome(line, id) = [ok |-> TRUE, call |-> line.call, value |-> line.result.value]
      BY <2>1, <2>3 DEF Outcome
    <3>2. line.call \in Nat /\ line.result.value \in Answers
      <4>1. /\ line.call \in Nat
            /\ line.result \in {RpcError} \cup [error : {FALSE}, value : Answers]
        BY <1>2 DEF ResponseLine
      <4>2. line.result # RpcError
        BY <2>3 DEF RpcError
      <4>3. \A r \in [error : {FALSE}, value : Answers] : r.value \in Answers
        OBVIOUS
      <4> QED
        BY <4>1, <4>2, <4>3
    <3> QED
      BY <2>1, <2>3, <3>1, <3>2 DEF Outcomes
  <2> QED
    BY <2>2, <2>3
<1> QED
  BY <1>1, <1>2

\* Every line the two processes write is a line.  (client.rs: request;
\* server.rs: handle_line, tools_call.)
LEMMA WireStep == WireTyped /\ [Next]_vars => WireTyped'
<1> SUFFICES ASSUME WireTyped, [Next]_vars PROVE WireTyped'
  OBVIOUS
<1>0. \A c \in Hosts : host[c] # None => host[c] \in HostCall
  BY DEF WireTyped
<1>1. ASSUME NEW c \in Hosts, NEW h \in HostCall \cup {None},
             host' = [host EXCEPT ![c] = h],
             nextId' \in Nat, calls' \in Nat, UNCHANGED serving,
             reply' \in ResponseLine \cup {Garbage, None},
             toServer' \in Seq(RequestLine \cup {Garbage}),
             toClient' \in Seq(ResponseLine \cup {Garbage})
      PROVE  WireTyped'
  BY <1>1 DEF WireTyped
<1>2. ASSUME NEW method \in Methods, NEW r \in Requests \cup {None},
             method = "tools/call" => r \in Requests
      PROVE  Pending(method, r) \in HostCall
  BY <1>2 DEF Pending, HostCall, Outcomes, WireTyped
<1>3. ASSUME NEW c \in Hosts, Invoke(c) \/ Discover(c) PROVE WireTyped'
  <2>1. calls' \in Nat /\ UNCHANGED <<nextId, toServer, toClient, serving, reply>>
    BY <1>3 DEF Invoke, Discover, pipes, WireTyped
  <2>2. \E h \in HostCall \cup {None} : host' = [host EXCEPT ![c] = h]
    BY <1>2, <1>3 DEF Invoke, Discover, Methods, WireTyped
  <2> QED
    BY <1>1, <2>1, <2>2 DEF WireTyped
<1>4. ASSUME NEW c \in Hosts, Lock(c) PROVE WireTyped'
  BY <1>0, <1>4 DEF Lock, pipes, WireTyped, HostCall
<1>5. ASSUME NEW c \in Hosts, Send(c) PROVE WireTyped'
  <2>1. host[c] \in HostCall /\ nextId' \in Nat
        /\ UNCHANGED <<toClient, serving, reply, calls>>
    BY <1>0, <1>5 DEF Send, WireTyped
  <2>2. Request(nextId, host[c].call, host[c].method, host[c].req) \in RequestLine
    BY <2>1 DEF Request, RequestLine, HostCall, WireTyped
  <2>3. CASE link # "open"
    <3>1. host' = [host EXCEPT ![c].stage = "ended", ![c].outcome = Error]
          /\ UNCHANGED toServer
      BY <1>5, <2>3 DEF Send, Ends
    <3>2. Error \in Outcomes
      BY DEF Outcomes
    <3>3. host' \in [Hosts -> HostCall \cup {None}]
      BY <2>1, <3>1, <3>2 DEF WireTyped, HostCall
    <3> QED
      BY <2>1, <3>1, <3>3 DEF WireTyped
  <2>4. CASE link = "open"
    <3> DEFINE line == Request(nextId, host[c].call, host[c].method, host[c].req)
    <3>1. host' = [host EXCEPT ![c].stage = "recv", ![c].id = nextId]
          /\ toServer' = Append(toServer, IF half THEN Garbage ELSE line)
      BY <1>5, <2>4 DEF Send
    <3>2. (IF half THEN Garbage ELSE line) \in RequestLine \cup {Garbage}
      BY <2>2
    <3> HIDE DEF line
    <3>3. toServer' \in Seq(RequestLine \cup {Garbage})
      BY <3>1, <3>2, PipeProps DEF WireTyped
    <3>4. host' \in [Hosts -> HostCall \cup {None}]
      BY <2>1, <3>1 DEF WireTyped, HostCall
    <3> QED
      BY <2>1, <3>3, <3>4 DEF WireTyped
  <2> QED
    BY <2>3, <2>4
<1>6. ASSUME NEW c \in Hosts, Recv(c) PROVE WireTyped'
  <2> DEFINE o == IF toClient = <<>> THEN Error ELSE Outcome(Head(toClient), host[c].id)
  <2>1. host[c] \in HostCall /\ UNCHANGED <<nextId, toServer, serving, reply, calls>>
    BY <1>0, <1>6 DEF Recv
  <2>2. o \in Outcomes
    BY OutcomeProps, PipeProps DEF WireTyped, Outcomes
  <2>3. toClient' \in Seq(ResponseLine \cup {Garbage})
    BY <1>6, PipeProps DEF Recv, WireTyped
  <2>4. host' = [host EXCEPT ![c].stage = "ended", ![c].outcome = o]
    BY <1>6 DEF Recv, Ends
  <2> HIDE DEF o
  <2>5. host' \in [Hosts -> HostCall \cup {None}]
    BY <2>1, <2>2, <2>4 DEF WireTyped, HostCall
  <2> QED
    BY <2>1, <2>3, <2>5 DEF WireTyped
<1>7. ASSUME NEW c \in Hosts, Cancel(c) PROVE WireTyped'
  <2>1. toClient' \in Seq(ResponseLine \cup {Garbage})
    <3>1. CASE toClient' = toClient
      BY <3>1 DEF WireTyped
    <3>2. CASE toClient # <<>> /\ toClient' = <<Garbage>> \o Tail(toClient)
      <4>1. Tail(toClient) \in Seq(ResponseLine \cup {Garbage})
        BY <3>2, PipeProps DEF WireTyped
      <4> QED
        BY <3>2, <4>1
    <3> QED
      BY <1>7, <3>1, <3>2 DEF Cancel
  <2>2. reply' \in ResponseLine \cup {Garbage, None}
    BY <1>7 DEF Cancel, WireTyped
  <2> QED
    BY <1>7, <2>1, <2>2, <1>1 DEF Cancel, WireTyped
<1>8. ASSUME NEW c \in Hosts, Take(c) PROVE WireTyped'
  BY <1>8 DEF Take, pipes, WireTyped
<1>9. CASE ServerRead
  <2> DEFINE line == Head(toServer)
  <2>1. line \in RequestLine \cup {Garbage}
        /\ toServer' \in Seq(RequestLine \cup {Garbage})
    BY <1>9, PipeProps DEF ServerRead, WireTyped
  <2>2. UNCHANGED <<host, nextId, toClient, calls>> /\ HandleLine(line)
    BY <1>9 DEF ServerRead
  <2>3. ASSUME NEW r \in ResponseLine, Reply(r)
        PROVE  reply' \in ResponseLine \cup {Garbage, None}
    BY <2>3 DEF Reply
  <2> HIDE DEF line
  <2>4. CASE line = Garbage
    <3>1. ParseErrorResponse \in ResponseLine
      BY DEF ParseErrorResponse, Response, ResponseLine
    <3> QED
      BY <2>1, <2>2, <2>3, <2>4, <3>1 DEF HandleLine, WireTyped
  <2>5. CASE line \in RequestLine /\ line.method = "tools/list"
    <3>1. Value([tools |-> ServerTools]) \in [error : {FALSE}, value : Answers]
      BY DEF Value, Answers
    <3>2. Response(line.id, line.call, Value([tools |-> ServerTools])) \in ResponseLine
      BY <2>5, <3>1 DEF Response, ResponseLine, RequestLine
    <3> QED
      BY <2>1, <2>2, <2>3, <2>5, <3>2, NotGarbage DEF HandleLine, WireTyped
  <2>6. CASE line \in RequestLine /\ line.method = "tools/call"
    BY <2>1, <2>2, <2>6, NotGarbage DEF HandleLine, WireTyped
  <2> QED
    BY <2>1, <2>4, <2>5, <2>6 DEF RequestLine, Methods
<1>10. CASE ServerReply
  <2>1. Value([isError |-> ~act[Server].result.ok]) \in [error : {FALSE}, value : Answers]
    <3>1. (~act[Server].result.ok) \in BOOLEAN
      OBVIOUS
    <3> QED
      BY <3>1 DEF Value, Answers
  <2>2. serving \in RequestLine
    BY <1>10 DEF ServerReply, WireTyped
  <2>3. Response(serving.id, serving.call, Value([isError |-> ~act[Server].result.ok]))
          \in ResponseLine
    BY <2>1, <2>2 DEF Response, ResponseLine, RequestLine
  <2>4. reply' \in ResponseLine \cup {Garbage, None}
    BY <1>10, <2>3 DEF ServerReply, Reply
  <2> QED
    BY <1>10, <2>4 DEF ServerReply, pipes, WireTyped
<1>11. CASE ServerWrite
  <2>1. toClient' \in Seq(ResponseLine \cup {Garbage})
    BY <1>11, PipeProps DEF ServerWrite, WireTyped
  <2> QED
    BY <1>11, <2>1 DEF ServerWrite, WireTyped
<1>12. CASE ServerGone
  <2>1. toClient' \in Seq(ResponseLine \cup {Garbage})
    BY <1>12, PipeProps DEF ServerGone, WireTyped
  <2> QED
    BY <1>12, <2>1 DEF ServerGone, WireTyped
<1>13. CASE \/ Close \/ (HostUnchanged /\ ShellWrites) \/ UNCHANGED vars
            \/ \E x \in Actors : Tools(x) \/ Fate(x)
  BY <1>13 DEF Close, Tools, Fate, HostUnchanged, pipes, vars, WireTyped
<1>14. ASSUME NEW c \in Hosts, TaskStep(c) PROVE WireTyped'
  BY <1>4, <1>5, <1>6, <1>8, <1>14 DEF TaskStep
<1>15. CASE ServerStep
  BY <1>9, <1>10, <1>11, <1>15 DEF ServerStep
<1> QED
  BY <1>3, <1>7, <1>12, <1>13, <1>14, <1>15 DEF Next

\* A step that leaves every pair where it was or takes it away.
LEMMA PairsKept ==
  ASSUME IdsApart, nextId \in Nat, nextId' = nextId, Pairs' \subseteq Pairs
  PROVE  IdsApart'
BY DEF IdsApart

\* Only sending a request makes a new pair, with an id nobody else has.
\* (client.rs: request takes the next id.)
LEMMA IdsApartStep == WireTyped /\ IdsApart /\ [Next]_vars => IdsApart'
<1> SUFFICES ASSUME WireTyped, IdsApart, [Next]_vars PROVE IdsApart'
  OBVIOUS
<1>0. /\ \A c \in Hosts : host[c] # None => host[c] \in HostCall
      /\ nextId \in Nat
  BY DEF WireTyped
<1>1. ASSUME NEW c \in Hosts, nextId' = nextId, UNCHANGED <<toServer, serving>>,
             \A d \in Hosts : d # c => host'[d] = host[d],
             host'[c] = None \/ host'[c].stage # "recv",
             reply' \in {reply, Garbage},
             \A n \in 1 .. Len(toClient') : toClient'[n] # Garbage =>
               \E m \in 1 .. Len(toClient) : toClient'[n] = toClient[m]
      PROVE  IdsApart'
  <2>1. Pairs' \subseteq Pairs
    BY <1>1 DEF Pairs
  <2> QED
    BY <1>0, <1>1, <2>1, PairsKept
<1>2. ASSUME NEW c \in Hosts, Invoke(c) \/ Discover(c) PROVE IdsApart'
  <2>1. \A method, r : Pending(method, r).stage = "lock"
    BY DEF Pending
  <2>2. host' = host \/ \E method, r : host' = [host EXCEPT ![c] = Pending(method, r)]
    BY <1>2 DEF Invoke, Discover
  <2>3. UNCHANGED <<nextId, toServer, toClient, serving, reply>>
    BY <1>2 DEF Invoke, Discover, pipes
  <2>4. CASE host' = host
    BY <1>0, <2>3, <2>4, PairsKept DEF Pairs
  <2>5. ASSUME NEW method, NEW r, host' = [host EXCEPT ![c] = Pending(method, r)]
        PROVE  IdsApart'
    <3>1. host'[c].stage = "lock" /\ \A d \in Hosts : d # c => host'[d] = host[d]
      BY <2>1, <2>5 DEF WireTyped
    <3> QED
      BY <1>1, <2>3, <3>1
  <2> QED
    BY <2>2, <2>4, <2>5
<1>3. ASSUME NEW c \in Hosts, Lock(c) PROVE IdsApart'
  <2>1. host'[c].stage = "send" /\ \A d \in Hosts : d # c => host'[d] = host[d]
    BY <1>0, <1>3 DEF Lock, WireTyped, HostCall
  <2> QED
    BY <1>1, <1>3, <2>1 DEF Lock, pipes
<1>4. ASSUME NEW c \in Hosts, Send(c) PROVE IdsApart'
  <2>1. host[c] \in HostCall /\ nextId' = nextId + 1
        /\ UNCHANGED <<toClient, serving, reply>>
    BY <1>0, <1>4 DEF Send
  <2>2. ASSUME Pairs' \subseteq Pairs \cup {<<nextId, host[c].call>>} PROVE IdsApart'
    <3>1. host[c].call \in Nat
      BY <2>1 DEF HostCall
    <3>2. \A u \in Pairs : u \in (0 .. nextId - 1) \X Nat
      BY DEF IdsApart
    <3>3. Pairs' \subseteq (0 .. nextId' - 1) \X Nat
      BY <1>0, <2>1, <2>2, <3>1, <3>2
    <3>4. ASSUME NEW u \in Pairs', NEW v \in Pairs', u[1] = v[1] PROVE u[2] = v[2]
      <4>1. u \in Pairs \/ u = <<nextId, host[c].call>>
        BY <2>2
      <4>2. v \in Pairs \/ v = <<nextId, host[c].call>>
        BY <2>2
      <4>3. \A w \in Pairs : w[1] # nextId
        BY <1>0, <3>2
      <4> QED
        BY <3>4, <4>1, <4>2, <4>3 DEF IdsApart
    <3> QED
      BY <3>3, <3>4 DEF IdsApart
  <2>3. CASE link # "open"
    <3>1. /\ host' = [host EXCEPT ![c].stage = "ended", ![c].outcome = Error]
          /\ UNCHANGED toServer
      BY <1>4, <2>3 DEF Send, Ends
    <3>2. host'[c].stage = "ended" /\ \A d \in Hosts : d # c => host'[d] = host[d]
      BY <2>1, <3>1 DEF WireTyped, HostCall
    <3> QED
      BY <2>1, <2>2, <3>1, <3>2 DEF Pairs
  <2>4. CASE link = "open"
    <3> DEFINE line == Request(nextId, host[c].call, host[c].method, host[c].req)
               sent == IF half THEN Garbage ELSE line
    <3>1. host' = [host EXCEPT ![c].stage = "recv", ![c].id = nextId]
          /\ toServer' = Append(toServer, sent)
      BY <1>4, <2>4 DEF Send
    <3>2. line \in RequestLine /\ line.id = nextId /\ line.call = host[c].call
      BY <1>0, <2>1 DEF Request, RequestLine, HostCall
    <3>3. sent \in RequestLine \cup {Garbage}
          /\ (sent # Garbage => sent.id = nextId /\ sent.call = host[c].call)
      BY <3>2
    <3> HIDE DEF line, sent
    <3>4. /\ Len(toServer') = Len(toServer) + 1 /\ toServer'[Len(toServer) + 1] = sent
          /\ \A n \in 1 .. Len(toServer) : toServer'[n] = toServer[n]
          /\ Len(toServer) \in Nat
      BY <3>1, <3>3, PipeProps DEF WireTyped
    <3>5. /\ host'[c].id = nextId /\ host'[c].call = host[c].call
          /\ \A d \in Hosts : d # c => host'[d] = host[d]
      BY <2>1, <3>1 DEF WireTyped, HostCall
    <3>6. \A n \in 1 .. Len(toServer') : n = Len(toServer) + 1 \/ n \in 1 .. Len(toServer)
      BY <3>4
    <3>7. Pairs' \subseteq Pairs \cup {<<nextId, host[c].call>>}
      BY <2>1, <3>3, <3>4, <3>5, <3>6 DEF Pairs
    <3> QED
      BY <2>2, <3>7
  <2> QED
    BY <2>3, <2>4
<1>5. ASSUME NEW c \in Hosts, Recv(c) PROVE IdsApart'
  <2>1. host[c] \in HostCall /\ UNCHANGED <<nextId, toServer, serving, reply>>
    BY <1>0, <1>5 DEF Recv
  <2>2. host'[c].stage = "ended" /\ \A d \in Hosts : d # c => host'[d] = host[d]
    BY <1>5, <2>1 DEF Recv, Ends, WireTyped, HostCall
  <2>3. \A n \in 1 .. Len(toClient') : \E m \in 1 .. Len(toClient) : toClient'[n] = toClient[m]
    BY <1>5, PipeProps DEF Recv, WireTyped
  <2> QED
    BY <1>1, <2>1, <2>2, <2>3
<1>6. ASSUME NEW c \in Hosts, Cancel(c) PROVE IdsApart'
  <2>1. /\ UNCHANGED <<nextId, toServer, serving>> /\ host'[c] = None
        /\ \A d \in Hosts : d # c => host'[d] = host[d]
    BY <1>6 DEF Cancel, WireTyped
  <2>2. \A n \in 1 .. Len(toClient') : toClient'[n] # Garbage =>
          \E m \in 1 .. Len(toClient) : toClient'[n] = toClient[m]
    <3>1. CASE toClient' = toClient
      BY <3>1
    <3>2. CASE toClient # <<>> /\ toClient' = <<Garbage>> \o Tail(toClient)
      <4>1. /\ Tail(toClient) \in Seq(ResponseLine \cup {Garbage})
            /\ Len(Tail(toClient)) = Len(toClient) - 1
            /\ \A n \in 1 .. Len(Tail(toClient)) : Tail(toClient)[n] = toClient[n + 1]
        BY <3>2, PipeProps DEF WireTyped
      <4>2. Len(toClient') = 1 + Len(Tail(toClient)) /\ toClient'[1] = Garbage
            /\ \A n \in 2 .. Len(toClient') : toClient'[n] = Tail(toClient)[n - 1]
        BY <3>2, <4>1
      <4>3. Len(toClient) \in Nat
        BY DEF WireTyped
      <4> QED
        BY <4>1, <4>2, <4>3
    <3> QED
      BY <1>6, <3>1, <3>2 DEF Cancel
  <2>3. reply' \in {reply, Garbage}
    BY <1>6 DEF Cancel
  <2> QED
    BY <1>1, <2>1, <2>2, <2>3
<1>7. ASSUME NEW c \in Hosts, Take(c) PROVE IdsApart'
  <2>1. /\ UNCHANGED <<nextId, toServer, toClient, serving, reply>>
        /\ host' = host \/ host' = [host EXCEPT ![c] = None]
    BY <1>7 DEF Take, pipes
  <2> QED
    BY <1>0, <1>1, <2>1, PairsKept DEF Pairs, WireTyped
<1>8. CASE ServerRead
  <2> DEFINE line == Head(toServer)
  <2>1. /\ line \in RequestLine \cup {Garbage} /\ line = toServer[1]
        /\ Len(toServer) \in Nat /\ 1 \in 1 .. Len(toServer)
        /\ \A n \in 1 .. Len(toServer') : \E m \in 1 .. Len(toServer) : toServer'[n] = toServer[m]
    BY <1>8, PipeProps DEF ServerRead, WireTyped
  <2>2. UNCHANGED <<host, nextId, toClient>> /\ HandleLine(line)
    BY <1>8 DEF ServerRead
  <2> HIDE DEF line
  <2>3. line # Garbage => <<line.id, line.call>> \in Pairs
    BY <2>1 DEF Pairs
  <2>4. ASSUME NEW r \in ResponseLine, Reply(r), <<r.id, r.call>> \in Pairs, UNCHANGED serving
        PROVE  IdsApart'
    <3>1. UNCHANGED <<host, toClient, serving>> /\ reply' = r
      BY <2>2, <2>4 DEF Reply
    <3>2. Pairs' \subseteq Pairs \cup {<<r.id, r.call>>}
      BY ONLY <2>1, <3>1 DEF Pairs
    <3>3. Pairs' \subseteq Pairs
      BY <2>4, <3>2
    <3> QED
      BY <1>0, <2>2, <3>3, PairsKept
  <2>5. CASE line = Garbage
    <3>1. /\ ParseErrorResponse \in ResponseLine
          /\ <<ParseErrorResponse.id, ParseErrorResponse.call>> \in Pairs
      BY DEF ParseErrorResponse, Response, ResponseLine, Pairs
    <3> QED
      BY <2>2, <2>4, <2>5, <3>1 DEF HandleLine
  <2>6. CASE line \in RequestLine /\ line.method = "tools/list"
    <3> DEFINE r == Response(line.id, line.call, Value([tools |-> ServerTools]))
    <3>1. Value([tools |-> ServerTools]) \in [error : {FALSE}, value : Answers]
      BY DEF Value, Answers
    <3>2. r \in ResponseLine /\ r.id = line.id /\ r.call = line.call
      BY <2>6, <3>1 DEF Response, ResponseLine, RequestLine
    <3>3. Reply(r) /\ UNCHANGED serving
      BY <2>2, <2>6, NotGarbage DEF HandleLine
    <3> HIDE DEF r
    <3> QED
      BY <2>3, <2>4, <2>6, <3>2, <3>3, NotGarbage
  <2>7. CASE line \in RequestLine /\ line.method = "tools/call"
    <3>1. serving' = line /\ UNCHANGED <<toClient, reply>>
      BY <2>2, <2>7, NotGarbage DEF HandleLine
    <3>2. line # Garbage
      BY <2>7, NotGarbage
    <3>3. Pairs' \subseteq Pairs
      BY <2>1, <2>2, <2>3, <3>1, <3>2 DEF Pairs
    <3> QED
      BY <1>0, <2>2, <3>3, PairsKept
  <2> QED
    BY <2>1, <2>5, <2>6, <2>7 DEF RequestLine, Methods
<1>9. CASE ServerReply
  <2> DEFINE v == Value([isError |-> ~act[Server].result.ok])
             r == Response(serving.id, serving.call, v)
  <2>1. v \in [error : {FALSE}, value : Answers]
    <3>1. (~act[Server].result.ok) \in BOOLEAN
      OBVIOUS
    <3> QED
      BY <3>1 DEF Value, Answers
  <2>2. serving \in RequestLine /\ serving # None
    BY <1>9 DEF ServerReply, WireTyped
  <2>3. r \in ResponseLine /\ r.id = serving.id /\ r.call = serving.call
    BY <2>1, <2>2 DEF Response, ResponseLine, RequestLine
  <2>4. reply' = r /\ serving' = None /\ UNCHANGED <<host, nextId, toServer, toClient>>
    BY <1>9 DEF ServerReply, Reply, pipes
  <2> HIDE DEF r
  <2>5. Pairs' \subseteq Pairs
    BY <2>2, <2>3, <2>4 DEF Pairs
  <2> QED
    BY <1>0, <2>4, <2>5, PairsKept
<1>10. ASSUME NEW line, toClient' = Append(toClient, line), line \in {reply, Garbage},
              reply # None, reply' = None, serving' \in {serving, None},
              UNCHANGED <<host, nextId, toServer>>
       PROVE  IdsApart'
  <2>1. line \in ResponseLine \cup {Garbage}
    BY <1>10 DEF WireTyped
  <2>2. /\ Len(toClient') = Len(toClient) + 1 /\ toClient'[Len(toClient) + 1] = line
        /\ \A n \in 1 .. Len(toClient) : toClient'[n] = toClient[n]
        /\ Len(toClient) \in Nat
    BY <1>10, <2>1, PipeProps DEF WireTyped
  <2>3. \A n \in 1 .. Len(toClient') : n = Len(toClient) + 1 \/ n \in 1 .. Len(toClient)
    BY <2>2
  <2>4. line # Garbage => <<line.id, line.call>> \in Pairs
    BY <1>10 DEF Pairs
  <2>5. Pairs' \subseteq Pairs
    BY <1>10, <2>2, <2>3, <2>4 DEF Pairs
  <2> QED
    BY <1>0, <1>10, <2>5, PairsKept
<1>11. CASE ServerWrite
  BY <1>10, <1>11 DEF ServerWrite
<1>12. CASE ServerGone
  <2>1. CASE toClient' = toClient
    <3>1. Pairs' \subseteq Pairs /\ nextId' = nextId
      BY <1>12, <2>1 DEF ServerGone, Pairs
    <3> QED
      BY <1>0, <3>1, PairsKept
  <2>2. CASE reply # None /\ toClient' = Append(toClient, Garbage)
    BY <1>10, <1>12, <2>2 DEF ServerGone
  <2> QED
    BY <1>12, <2>1, <2>2 DEF ServerGone
<1>13. CASE \/ Close \/ (HostUnchanged /\ ShellWrites) \/ UNCHANGED vars
            \/ \E x \in Actors : Tools(x) \/ Fate(x)
  <2>1. Pairs' = Pairs /\ nextId' = nextId
    BY <1>13 DEF Close, Tools, Fate, HostUnchanged, pipes, vars, Pairs
  <2> QED
    BY <1>0, <2>1, PairsKept
<1>14. ASSUME NEW c \in Hosts, TaskStep(c) PROVE IdsApart'
  BY <1>3, <1>4, <1>5, <1>7, <1>14 DEF TaskStep
<1>15. CASE ServerStep
  BY <1>8, <1>9, <1>11, <1>15 DEF ServerStep
<1> QED
  BY <1>2, <1>6, <1>12, <1>13, <1>14, <1>15 DEF Next

\* The answers a client gets are typed, and every id stands for one call.
LEMMA WireInvariant == Spec => [](WireTyped /\ IdsApart)
<1>1. HostInit => WireTyped /\ IdsApart
  <2> SUFFICES ASSUME HostInit PROVE WireTyped /\ IdsApart
    OBVIOUS
  <2>1. WireTyped
    BY DEF HostInit, WireTyped
  <2>2. Pairs = {<<0, 0>>}
    BY DEF HostInit, Pairs
  <2>3. nextId = 1
    BY DEF HostInit
  <2> QED
    BY <2>1, <2>2, <2>3 DEF IdsApart
<1> QED
  BY <1>1, WireStep, IdsApartStep, PTL DEF Spec

\* Whatever calls were given up half way, whichever lines were torn and whenever
\* the server went: a call that succeeds has the answer to its own request.
\* (client.rs: request.)
THEOREM AnswersAreForRequests == Spec => []AnswerIsForRequest
<1>1. HostInit => AnswerIsForRequest
  BY DEF HostInit, AnswerIsForRequest
<1>2. WireTyped /\ IdsApart /\ AnswerIsForRequest /\ [Next]_vars => AnswerIsForRequest'
  <2> SUFFICES ASSUME WireTyped, IdsApart, AnswerIsForRequest, [Next]_vars
               PROVE  AnswerIsForRequest'
    OBVIOUS
  <2>0. \A c \in Hosts : host[c] # None => host[c] \in HostCall
    BY DEF WireTyped
  <2>1. ASSUME NEW c \in Hosts, \A d \in Hosts : d # c => host'[d] = host[d],
               host'[c] = None \/ host'[c].stage # "ended" \/ ~host'[c].outcome.ok
        PROVE  AnswerIsForRequest'
    BY <2>1 DEF AnswerIsForRequest
  <2>2. CASE host' = host
    BY <2>2 DEF AnswerIsForRequest
  <2>3. ASSUME NEW c \in Hosts, Invoke(c) \/ Discover(c) PROVE AnswerIsForRequest'
    <3>1. \A method, r : Pending(method, r).stage = "lock"
      BY DEF Pending
    <3>2. host' = host \/ \E method, r : host' = [host EXCEPT ![c] = Pending(method, r)]
      BY <2>3 DEF Invoke, Discover
    <3>3. ASSUME NEW method, NEW r, host' = [host EXCEPT ![c] = Pending(method, r)]
          PROVE  host'[c].stage # "ended" /\ \A d \in Hosts : d # c => host'[d] = host[d]
      BY <3>1, <3>3 DEF WireTyped
    <3> QED
      BY <2>1, <2>2, <3>2, <3>3
  <2>4. ASSUME NEW c \in Hosts, Lock(c) PROVE AnswerIsForRequest'
    <3>1. host'[c].stage = "send" /\ \A d \in Hosts : d # c => host'[d] = host[d]
      BY <2>0, <2>4 DEF Lock, WireTyped, HostCall
    <3> QED
      BY <2>1, <3>1
  <2>5. ASSUME NEW c \in Hosts, Send(c) PROVE AnswerIsForRequest'
    <3>0. host[c] \in HostCall
      BY <2>0, <2>5 DEF Send
    <3>1. host'[c].stage = "recv" \/ host'[c].outcome = Error
      BY <2>5, <3>0 DEF Send, Ends, WireTyped, HostCall
    <3>2. \A d \in Hosts : d # c => host'[d] = host[d]
      BY <2>5 DEF Send, Ends, WireTyped
    <3>3. ~Error.ok
      BY DEF Error
    <3> QED
      BY <2>1, <3>1, <3>2, <3>3
  <2>6. ASSUME NEW c \in Hosts, Recv(c) PROVE AnswerIsForRequest'
    <3> DEFINE o == IF toClient = <<>> THEN Error ELSE Outcome(Head(toClient), host[c].id)
    <3>0. host[c] \in HostCall /\ host[c] # None /\ host[c].stage = "recv"
      BY <2>0, <2>6 DEF Recv
    <3>1. host' = [host EXCEPT ![c].stage = "ended", ![c].outcome = o]
      BY <2>6 DEF Recv, Ends
    <3>2. ASSUME o.ok PROVE o.call = host[c].call
      <4>1. toClient # <<>> /\ o = Outcome(Head(toClient), host[c].id)
        BY <3>2 DEF Error
      <4>2. /\ Head(toClient) = toClient[1] /\ Len(toClient) \in Nat
            /\ Head(toClient) \in ResponseLine \cup {Garbage}
            /\ 1 \in 1 .. Len(toClient)
        BY <4>1, PipeProps DEF WireTyped
      <4>3. /\ Head(toClient) # Garbage /\ Head(toClient).id = host[c].id
            /\ o.call = Head(toClient).call
        BY <3>2, <4>1, <4>2, OutcomeProps
      <4>4. <<host[c].id, Head(toClient).call>> \in Pairs
        BY <4>2, <4>3 DEF Pairs
      <4>5. <<host[c].id, host[c].call>> \in Pairs
        BY <3>0 DEF Pairs
      <4> QED
        BY <4>3, <4>4, <4>5 DEF IdsApart
    <3> HIDE DEF o
    <3>3. /\ host'[c].outcome = o /\ host'[c].call = host[c].call
          /\ \A d \in Hosts : d # c => host'[d] = host[d]
      BY <3>0, <3>1 DEF WireTyped, HostCall
    <3> QED
      BY <3>2, <3>3 DEF AnswerIsForRequest
  <2>7. ASSUME NEW c \in Hosts, Cancel(c) \/ Take(c) PROVE AnswerIsForRequest'
    <3>1. host' = host \/ host' = [host EXCEPT ![c] = None]
      BY <2>7 DEF Cancel, Take
    <3>2. ASSUME host' = [host EXCEPT ![c] = None]
          PROVE  host'[c] = None /\ \A d \in Hosts : d # c => host'[d] = host[d]
      BY <3>2 DEF WireTyped
    <3> QED
      BY <2>1, <2>2, <3>1, <3>2
  <2> QED
    BY <2>2, <2>3, <2>4, <2>5, <2>6, <2>7
    DEF Next, TaskStep, ServerStep, Close, ServerRead, ServerReply, ServerWrite,
        ServerGone, Tools, Fate, HostUnchanged, vars
<1> QED
  BY <1>1, <1>2, WireInvariant, PTL DEF Spec

-----------------------------------------------------------------------------
(* The files: the inductive invariant *)

Results ==
  {None, Failed, [ok |-> TRUE]}
    \cup [ok : {TRUE}, text : Contents]
    \cup [ok : {TRUE}, entries : SUBSET AllPaths]
    \cup [ok : {TRUE}, truncated : BOOLEAN]

Stages == {"start", "opened", "filled", "cleanup", "sized", "walk", "running", "done"}

\* What grep saw behind the names at its start.
Befores == UNION {[S -> Nat] : S \in SUBSET Targets}

ActRecord ==
  [req : Requests, path : Targets \cup {None}, stage : Stages, handle : Nat,
   todo : SUBSET AllPaths, found : SUBSET AllPaths,
   before : Befores, result : Results]

\* Calls, directory entries and contents; a call works on its request's target.
FilesTyped ==
  /\ act \in [Actors -> ActRecord \cup {None}]
  /\ \A x \in Actors : act[x] # None /\ act[x].req.tool # "bash" =>
       act[x].path = TargetOf[act[x].req]
  /\ entry \in [AllPaths -> Nat]
  /\ inode \in Seq(Contents)
  /\ \A p \in AllPaths : entry[p] <= Len(inode)
  /\ \A x \in Actors : Writing(x) => act[x].handle \in 1 .. Len(inode)
  /\ acked \in [Targets -> Texts \cup {None}]
  /\ clashed \in BOOLEAN
  /\ reached \subseteq Targets

\* No two names for one inode.
EntriesApart ==
  \A p, q \in AllPaths : entry[p] = entry[q] /\ entry[p] # 0 => p = q

\* A writer has the sibling to itself, with what it wrote.
Alone ==
  \A x, y \in Actors : Writing(x) /\ Writing(y) /\ Target(x) = Target(y) => x = y

OwnSibling ==
  \A x \in Actors : Writing(x) /\ act[x].stage # "cleanup" =>
    entry[TmpPath(Target(x))] = act[x].handle

OwnText ==
  \A x \in Actors : At(x, "write_file", "filled") => inode[act[x].handle] = act[x].req.text

\* Every file that no shell can reach is what was acknowledged, and full; and so
\* is what was read of it.
AllAcked ==
  \A p \in Targets \ reached :
    /\ acked[p] = IF Exists(p) THEN Content(p) ELSE None
    /\ Exists(p) => Content(p) # Empty

ReadsWhole ==
  \A x \in Actors :
    At(x, "read_file", "done") /\ act[x].result.ok /\ Target(x) \notin reached =>
      act[x].result.text # Empty

\* All that, as long as no two calls for one file overlapped.
Undisturbed ==
  ~clashed => Alone /\ OwnSibling /\ OwnText /\ AllAcked /\ ReadsWhole

\* Files are in directories, and so will be the one that a call writes.
Prefixed(p) == \A n \in 1 .. Len(p) - 1 : SubSeq(p, 1, n) \in dirs

Tree ==
  /\ dirs \subseteq Seq(Components) \ {<<>>}
  /\ \A d \in dirs : \A n \in 1 .. Len(d) : SubSeq(d, 1, n) \in dirs
  /\ \A p \in Targets : Exists(p) => Prefixed(p)
  /\ \A x \in Actors : Writing(x) => Prefixed(Target(x))

\* An inode that a grep saw behind a name has no other name, and no tool but a
\* shell takes the text away from it.
Settled(b) ==
  \A p \in DOMAIN b :
    /\ b[p] \in 1 .. Len(inode)
    /\ p \notin reached => inode[b[p]] \notin Binary \cup {Empty}
    /\ \A q \in AllPaths : entry[q] = b[p] => q = p

\* What a grep has not looked at, unless changed, is still to do.
Unseen(a) ==
  /\ \A p \in DOMAIN a.before \ reached :
       Searched(a.path, p) /\ entry[p] = a.before[p] => p \in a.todo \cup a.found
  /\ a.stage = "done" /\ a.result.ok /\ ~a.result.truncated => a.todo = {}

GrepKnows ==
  \A x \in Actors : act[x] # None =>
    /\ act[x].stage = "start" => DOMAIN act[x].before = {}
    /\ Settled(act[x].before)
    /\ act[x].req.tool = "grep" => Unseen(act[x])

\* Who writes was allowed to, and holds no inode outside or under a denied name.
HandlesInside ==
  \A x \in Actors : Writing(x) =>
    /\ act[x].req \in Allowed
    /\ \A p \in Outside \cup Denied : entry[p] # act[x].handle

-----------------------------------------------------------------------------
(* Calls *)

\* Overwriting or appending an inode.
LEMMA InodeProps ==
  ASSUME NEW S, NEW s \in Seq(S), NEW v \in S
  PROVE  /\ Len(s) \in Nat
         /\ \A i \in 1 .. Len(s) :
              /\ [s EXCEPT ![i] = v] \in Seq(S)
              /\ Len([s EXCEPT ![i] = v]) = Len(s)
              /\ [s EXCEPT ![i] = v][i] = v
              /\ \A j \in 1 .. Len(s) : j # i => [s EXCEPT ![i] = v][j] = s[j]
         /\ Append(s, v) \in Seq(S) /\ Len(Append(s, v)) = Len(s) + 1
         /\ Append(s, v)[Len(s) + 1] = v
         /\ \A j \in 1 .. Len(s) : Append(s, v)[j] = s[j]
OBVIOUS

\* What an actor's record keeps when its call ends, or goes to another stage.
SameCall(x) ==
  /\ act'[x] \in ActRecord
  /\ act'[x].req = act[x].req /\ act'[x].path = act[x].path
  /\ act'[x].todo = act[x].todo /\ act'[x].found = act[x].found
  /\ act'[x].before = act[x].before

\* Only actor x does something.
OnlyActor(x) ==
  /\ act' = [y \in Actors |-> act'[y]]
  /\ \A y \in Actors : y # x => act'[y] = act[y]

LEMMA DoneProps ==
  ASSUME FilesTyped, NEW x \in Actors, act[x] # None, NEW result \in Results,
         Done(x, result)
  PROVE  /\ OnlyActor(x) /\ SameCall(x)
         /\ act'[x].stage = "done" /\ act'[x].result = result
BY DEF FilesTyped, Done, OnlyActor, SameCall, ActRecord, Stages

LEMMA ToProps ==
  ASSUME FilesTyped, NEW x \in Actors, act[x] # None, NEW stage \in Stages,
         To(x, stage)
  PROVE  /\ OnlyActor(x) /\ SameCall(x)
         /\ act'[x].stage = stage /\ act'[x].handle = act[x].handle
         /\ act'[x].result = act[x].result
BY DEF FilesTyped, To, OnlyActor, SameCall, ActRecord, Stages

\* A new call is at its start.
LEMMA CallProps ==
  ASSUME NEW r \in Requests
  PROVE  /\ Call(r) \in ActRecord /\ Call(r).stage = "start" /\ Call(r).req = r
         /\ DOMAIN Call(r).before = {}
         /\ r.tool # "bash" => Call(r).path = TargetOf[r]
<1>1. (IF r.tool = "bash" THEN None ELSE TargetOf[r]) \in Targets \cup {None}
  BY DEF Targets, TargetOf, Commands, Range
<1>2. DOMAIN <<>> = {} /\ <<>> \in Befores
  <2>1. <<>> \in [{} -> Nat]
    OBVIOUS
  <2> QED
    BY <2>1 DEF Befores
<1> QED
  BY <1>1, <1>2 DEF Call, ActRecord, Stages, Results

\* What shells may reach only grows.
Reaches == reached \subseteq reached' /\ reached' \subseteq Targets

\* A step of x's call that touches no file: it does not become or stay a write.
LocalStep(x) ==
  /\ act[x] # None
  /\ UNCHANGED files /\ Reaches /\ OnlyActor(x) /\ SameCall(x)
  /\ act'[x].stage # "start" /\ ~(Writing(x))'
  /\ act[x].req.tool = "read_file" /\ act'[x].stage = "done" /\ act'[x].result.ok =>
       Exists(Target(x)) /\ act'[x].result.text = Content(Target(x))
  /\ act[x].req.tool = "grep" /\ act'[x].stage = "done" /\ act'[x].result.ok
       /\ ~act'[x].result.truncated => act[x].todo = {}

\* A call of x begins, or its record is dropped.
CallStep(x) ==
  /\ UNCHANGED <<files, reached>> /\ OnlyActor(x)
  /\ act'[x] = None \/ \E r \in Requests : act'[x] = Call(r)

FileStep(x) ==
  \/ LocalStep(x) \/ CallStep(x) \/ GrepStart(x) \/ GrepScan(x) \/ GrepSkips(x)
  \/ WriteOpen(x) \/ WriteFill(x) \/ WriteRename(x) \/ WriteCleanup(x)

LEMMA ReachGrows ==
  ASSUME FilesTyped, NEW x \in Actors, FileStep(x) PROVE Reaches
BY DEF FilesTyped, FileStep, LocalStep, CallStep, GrepStart, GrepScan, GrepSkips,
   WriteOpen, WriteFill, WriteRename, WriteCleanup, Reaches

\* A process of a command changed, made or removed p.
Shells(p) ==
  /\ p \in reached \cap Targets /\ p \in AllPaths
  /\ UNCHANGED <<dirs, act, acked, clashed, reached>>
  /\ inode' \in Seq(Contents) /\ Len(inode') \in Nat /\ Len(inode') >= Len(inode)
  /\ \A i \in 1 .. Len(inode) : i # entry[p] => inode'[i] = inode[i]
  /\ entry' \in [AllPaths -> Nat] /\ entry'[p] <= Len(inode')
  /\ \A q \in AllPaths : q # p => entry'[q] = entry[q]
  /\ \/ entry'[p] \in {entry[p], 0}
     \/ entry'[p] = Len(inode) + 1 /\ entry[p] = 0 /\ Front(p) \in dirs

LEMMA ShellProps ==
  ASSUME FilesTyped, ShellWrites PROVE \E p \in Targets : Shells(p)
<1>1. PICK p \in reached :
        \/ /\ Exists(p)
           /\ \E content \in Contents : inode' = [inode EXCEPT ![entry[p]] = content]
           /\ UNCHANGED entry
        \/ /\ ~Exists(p) /\ Front(p) \in dirs
           /\ \E content \in Contents : inode' = Append(inode, content)
           /\ entry' = [entry EXCEPT ![p] = Len(inode) + 1]
        \/ /\ Exists(p)
           /\ entry' = [entry EXCEPT ![p] = 0]
           /\ inode' = [inode EXCEPT ![entry[p]] = Empty]
  BY DEF ShellWrites
<1>2. /\ p \in reached \cap Targets /\ p \in AllPaths
      /\ UNCHANGED <<dirs, act, acked, clashed, reached>>
  BY DEF ShellWrites, FilesTyped, AllPaths
<1>3. /\ entry \in [AllPaths -> Nat] /\ entry[p] \in 0 .. Len(inode)
      /\ inode \in Seq(Contents) /\ Len(inode) \in Nat
      /\ Exists(p) <=> entry[p] # 0
  BY <1>2 DEF FilesTyped, Exists
<1>4. CASE \E content \in Contents : entry[p] # 0 /\ inode' = [inode EXCEPT ![entry[p]] = content]
  <2>1. PICK content \in Contents : inode' = [inode EXCEPT ![entry[p]] = content]
    BY <1>4
  <2>2. /\ inode' \in Seq(Contents) /\ Len(inode') = Len(inode)
        /\ \A i \in 1 .. Len(inode) : i # entry[p] => inode'[i] = inode[i]
    BY <1>3, <1>4, <2>1, InodeProps
  <2>3. UNCHANGED entry \/ entry' = [entry EXCEPT ![p] = 0]
    BY <1>1, <1>3, <1>4
  <2>4. /\ entry' \in [AllPaths -> Nat] /\ entry'[p] \in {entry[p], 0}
        /\ \A q \in AllPaths : q # p => entry'[q] = entry[q]
    BY <1>2, <1>3, <2>3
  <2> QED
    BY <1>2, <1>3, <2>2, <2>4 DEF Shells
<1>5. CASE /\ ~Exists(p) /\ Front(p) \in dirs
           /\ \E content \in Contents : inode' = Append(inode, content)
           /\ entry' = [entry EXCEPT ![p] = Len(inode) + 1]
  <2>1. PICK content \in Contents : inode' = Append(inode, content)
    BY <1>5
  <2>2. /\ inode' \in Seq(Contents) /\ Len(inode') = Len(inode) + 1
        /\ \A i \in 1 .. Len(inode) : inode'[i] = inode[i]
    BY <1>3, <2>1, InodeProps
  <2>3. /\ entry' \in [AllPaths -> Nat] /\ entry'[p] = Len(inode) + 1
        /\ \A q \in AllPaths : q # p => entry'[q] = entry[q]
    BY <1>2, <1>3, <1>5
  <2> QED
    BY <1>2, <1>3, <1>5, <2>2, <2>3 DEF Shells
<1>6. Empty \in Contents
  BY DEF Contents
<1> QED
  BY <1>1, <1>2, <1>3, <1>4, <1>5, <1>6

\* Whatever is no command has a target.
LEMMA TargetProps ==
  ASSUME FilesTyped, NEW x \in Actors, act[x] # None, act[x].req.tool # "bash"
  PROVE  Target(x) \in Targets /\ Target(x) \in AllPaths
<1>1. act[x].req \in Requests \ Commands /\ Target(x) = TargetOf[act[x].req]
  BY DEF FilesTyped, Target, ActRecord, Commands
<1>2. Target(x) \in Range(TargetOf)
  BY <1>1 DEF TargetOf, Range
<1> QED
  BY <1>2 DEF Targets, AllPaths

\* A call that fails.
LEMMA FailLocal ==
  ASSUME FilesTyped, NEW x \in Actors, act[x] # None, Fail(x) PROVE LocalStep(x)
<1>1. Failed \in Results /\ ~Failed.ok
  BY DEF Results, Failed
<1>2. /\ OnlyActor(x) /\ SameCall(x)
      /\ act'[x].stage = "done" /\ act'[x].result = Failed
  BY <1>1, DoneProps DEF Fail
<1> QED
  BY <1>1, <1>2 DEF Fail, LocalStep, Reaches, FilesTyped, Writing, files

\* The steps of calls that write no file.
\* (fs_read.rs, fs_list.rs, fs_grep.rs, bash.rs.)
LEMMA ToolLocal ==
  ASSUME FilesTyped, NEW x \in Actors,
         \/ Refuse(x) \/ ReadStat(x) \/ ReadAll(x) \/ ListDir(x) \/ GrepEnd(x)
         \/ BashSpawn(x) \/ BashTimeout(x) \/ BashExit(x) \/ WriteFails(x)
         \/ ReadFails(x)
  PROVE  LocalStep(x)
<1>0. act[x] # None /\ act[x] \in ActRecord
  BY DEF Refuse, ReadStat, ReadAll, ListDir, GrepEnd, BashSpawn, BashTimeout, BashExit,
     WriteFails, ReadFails, Starts, At, FilesTyped
<1>1. CASE Refuse(x) \/ BashTimeout(x) \/ WriteFails(x) \/ ReadFails(x)
  BY <1>0, <1>1, FailLocal DEF Refuse, BashTimeout, WriteFails, ReadFails
<1>r. UNCHANGED reached => Reaches
  BY DEF Reaches, FilesTyped
<1>2. CASE ReadStat(x)
  <2>1. CASE Fail(x)
    BY <1>0, <2>1, FailLocal
  <2>2. CASE To(x, "sized") /\ UNCHANGED <<files, reached>>
    BY <1>0, <1>r, <1>2, <2>2, ToProps DEF LocalStep, Stages, Writing
  <2> QED
    BY <1>2, <2>1, <2>2 DEF ReadStat, files
<1>3. CASE ReadAll(x)
  <2> DEFINE read == Exists(Target(x)) /\ Content(Target(x)) \notin Binary
  <2>1. act[x].req.tool = "read_file" /\ UNCHANGED <<files, reached>>
    BY <1>3 DEF ReadAll, At, files
  <2>2. CASE ~read
    BY <1>0, <1>3, <2>1, <2>2, FailLocal DEF ReadAll, Fail, files
  <2>3. CASE read
    <3>1. Target(x) \in AllPaths
      BY <1>0, <2>1, TargetProps
    <3>2. entry[Target(x)] \in 1 .. Len(inode)
      BY <2>3, <3>1 DEF FilesTyped, Exists
    <3>3. Content(Target(x)) \in Contents
      BY <3>2 DEF FilesTyped, Content
    <3> DEFINE result == [ok |-> TRUE, text |-> Content(Target(x))]
    <3>4. result \in Results /\ result.text = Content(Target(x))
      BY <3>3 DEF Results
    <3>5. Done(x, result)
      BY <1>3, <2>3 DEF ReadAll
    <3> HIDE DEF result
    <3>6. /\ OnlyActor(x) /\ SameCall(x)
          /\ act'[x].stage = "done" /\ act'[x].result = result
      BY <1>0, <3>4, <3>5, DoneProps
    <3> QED
      BY <1>0, <1>r, <2>1, <2>3, <3>4, <3>6 DEF LocalStep, Writing
  <2> QED
    BY <2>2, <2>3
<1>4. CASE ListDir(x)
  <2> DEFINE result == IF Target(x) \in dirs
                       THEN [ok |-> TRUE, entries |-> Children(Target(x))] ELSE Failed
  <2>1. result \in Results
    BY DEF Results, Children
  <2>2. Done(x, result) /\ UNCHANGED <<files, reached>> /\ act[x].req.tool = "list_dir"
    BY <1>4 DEF ListDir, files, Starts, At
  <2> HIDE DEF result
  <2> QED
    BY <1>0, <1>r, <2>1, <2>2, DoneProps DEF LocalStep, Writing, SameCall
<1>5. CASE GrepEnd(x)
  <2> DEFINE result == [ok |-> TRUE, truncated |-> Full(x)]
  <2>1. result \in Results /\ (result.truncated <=> Full(x))
    <3>1. Full(x) \in BOOLEAN
      BY DEF Full
    <3> QED
      BY <3>1 DEF Results
  <2>2. /\ Done(x, result) /\ UNCHANGED <<files, reached>> /\ act[x].req.tool = "grep"
        /\ act[x].todo = {} \/ Full(x)
    BY <1>5 DEF GrepEnd, files, At
  <2> HIDE DEF result
  <2> QED
    BY <1>0, <1>r, <2>1, <2>2, DoneProps DEF LocalStep, Writing, SameCall
<1>6. CASE BashSpawn(x)
  <2>1. act[x].req \in Commands /\ act[x].req.tool = "bash"
    BY <1>0, <1>6 DEF BashSpawn, Starts, At, ActRecord, Commands
  <2>2. act[x].req.reach \subseteq Targets
    BY <2>1 DEF Targets
  <2>3. Reaches
    BY <1>6, <2>2 DEF BashSpawn, Reaches, FilesTyped
  <2> QED
    BY <1>0, <1>6, <2>1, <2>3, ToProps DEF BashSpawn, LocalStep, Stages, Writing, files
<1>7. CASE BashExit(x)
  <2>1. [ok |-> TRUE] \in Results
    BY DEF Results
  <2>2. Done(x, [ok |-> TRUE]) /\ UNCHANGED <<files, reached>> /\ act[x].req.tool = "bash"
    BY <1>7 DEF BashExit, files, At
  <2> QED
    BY <1>0, <1>r, <2>1, <2>2, DoneProps DEF LocalStep, Writing, SameCall
<1> QED
  BY <1>1, <1>2, <1>3, <1>4, <1>5, <1>6, <1>7

\* The host and the server only begin and drop calls.
LEMMA StepKinds ==
  ASSUME WireTyped, FilesTyped, [Next]_vars
  PROVE  \/ UNCHANGED toolVars \/ \E x \in Actors : FileStep(x)
         \/ \E p \in Targets : Shells(p)
<1>0. /\ Server \in Actors /\ \A c \in Hosts : c \in Actors
      /\ DOMAIN act = Actors
  BY ActorsAssumption DEF FilesTyped
<1>1. ASSUME NEW x \in Actors, UNCHANGED <<files, reached>>,
             \/ act' = [act EXCEPT ![x] = None]
             \/ \E r \in Requests : act' = [act EXCEPT ![x] = Call(r)]
      PROVE  CallStep(x)
  BY <1>0, <1>1 DEF CallStep, OnlyActor
<1>2. ASSUME NEW c \in Hosts, Invoke(c) PROVE UNCHANGED toolVars \/ CallStep(c)
  BY <1>0, <1>1, <1>2 DEF Invoke, toolVars, files
<1>3. ASSUME NEW c \in Hosts, Take(c) PROVE UNCHANGED toolVars \/ CallStep(c)
  BY <1>0, <1>1, <1>3 DEF Take, toolVars, files
<1>4. CASE ServerRead
  <2> DEFINE line == Head(toServer)
  <2>1. line \in RequestLine \cup {Garbage} /\ HandleLine(line)
        /\ UNCHANGED <<files, reached>>
    BY <1>4, PipeProps DEF ServerRead, WireTyped, files
  <2> HIDE DEF line
  <2>2. CASE line = Garbage \/ line.method = "tools/list"
    BY <2>1, <2>2, NotGarbage DEF HandleLine, toolVars, files
  <2>3. CASE line \in RequestLine /\ line.method = "tools/call"
    <3>1. act' = [act EXCEPT ![Server] = Call(line.req)]
      BY <2>1, <2>3, NotGarbage DEF HandleLine
    <3>2. line.req \in Requests
      BY <2>3 DEF RequestLine
    <3> QED
      BY <1>0, <1>1, <2>1, <3>1, <3>2 DEF FileStep
  <2> QED
    BY <2>1, <2>2, <2>3 DEF RequestLine, Methods
<1>5. CASE ServerReply \/ ServerGone
  BY <1>0, <1>1, <1>5 DEF ServerReply, ServerGone, files, FileStep
<1>6. ASSUME NEW x \in Actors, Tools(x) \/ Fate(x) PROVE FileStep(x)
  BY <1>6, ToolLocal DEF Tools, Fate, ToolStep, FileStep
<1>7. ASSUME NEW c \in Hosts, Discover(c) \/ Lock(c) \/ Send(c) \/ Recv(c) \/ Cancel(c)
      PROVE  UNCHANGED toolVars
  BY <1>7 DEF Discover, Lock, Send, Recv, Cancel
<1>8. CASE Close \/ ServerWrite \/ UNCHANGED vars
  BY <1>8 DEF Close, ServerWrite, vars
<1>9. CASE HostUnchanged /\ ShellWrites
  BY <1>9, ShellProps
<1> QED
  BY <1>0, <1>2, <1>3, <1>4, <1>5, <1>6, <1>7, <1>8, <1>9
  DEF Next, TaskStep, ServerStep, FileStep

\* A call of write_file works on its target and on the sibling.
LEMMA WriterProps ==
  ASSUME FilesTyped, NEW x \in Actors, act[x] # None, act[x].req.tool = "write_file"
  PROVE  /\ act[x] \in ActRecord /\ act[x].req \in Writes /\ act[x].req.text \in Texts
         /\ Target(x) = TargetOf[act[x].req] /\ Target(x) \in Targets
         /\ Target(x) \in AllPaths /\ TmpPath(Target(x)) \in AllPaths
<1>1. act[x] \in ActRecord /\ act[x].req \in Writes
  BY DEF FilesTyped, ActRecord, Writes
<1>2. act[x].req.text \in Texts
  BY <1>1 DEF Texts
<1>3. Target(x) = TargetOf[act[x].req] /\ act[x].req \in DOMAIN TargetOf
  BY <1>1 DEF FilesTyped, Target, TargetOf, Commands, ActRecord
<1>4. Target(x) \in Targets
  BY <1>3 DEF Targets, Range
<1> QED
  BY <1>1, <1>2, <1>3, <1>4 DEF AllPaths

Sibling(x) == TmpPath(Target(x))

\* The sibling was created or truncated.
Opened(x, h) ==
  /\ OnlyActor(x) /\ SameCall(x) /\ act'[x].stage = "opened" /\ act'[x].handle = h
  /\ h \in 1 .. Len(inode') /\ inode' \in Seq(Contents) /\ Len(inode') >= Len(inode)
  /\ inode'[h] = Empty
  /\ \A i \in 1 .. Len(inode) : i # h => inode'[i] = inode[i]
  /\ entry' = [entry EXCEPT ![Sibling(x)] = h]
  /\ h > Len(inode) \/ entry[Sibling(x)] = h
  /\ acked' = acked
  /\ clashed' = (clashed \/ \E y \in Actors \ {x} : Writing(y) /\ Target(y) = Target(x))

LEMMA OpenProps ==
  ASSUME FilesTyped, NEW x \in Actors, WriteOpen(x)
  PROVE  /\ act[x] # None /\ act[x].req.tool = "write_file" /\ act[x].req \in Allowed
         /\ act[x].stage = "start"
         /\ \/ /\ UNCHANGED <<entry, inode, acked, clashed>>
               /\ OnlyActor(x) /\ SameCall(x)
               /\ act'[x].stage = "done" /\ act'[x].result = Failed
            \/ \E h \in Nat : Opened(x, h)
<1>1. /\ act[x] # None /\ act[x].req.tool = "write_file" /\ act[x].req \in Allowed
      /\ act[x].stage = "start"
  BY DEF WriteOpen, Starts, At
<1> DEFINE tmp == Sibling(x)
           h == IF Exists(tmp) THEN entry[tmp] ELSE Len(inode) + 1
<1>2. CASE Done(x, Failed) /\ UNCHANGED <<entry, inode, acked, clashed>>
  <2>1. Failed \in Results
    BY DEF Results
  <2> QED
    BY <1>1, <1>2, <2>1, DoneProps
<1>3. CASE /\ entry' = [entry EXCEPT ![tmp] = h]
           /\ inode' = IF Exists(tmp) THEN [inode EXCEPT ![h] = Empty]
                       ELSE Append(inode, Empty)
           /\ act' = [act EXCEPT ![x].stage = "opened", ![x].handle = h]
           /\ clashed' = (clashed \/ \E y \in Actors \ {x} :
                                       Writing(y) /\ Target(y) = Target(x))
           /\ UNCHANGED acked
  <2>1. tmp \in AllPaths /\ act[x] \in ActRecord
    BY <1>1, WriterProps DEF Sibling
  <2>2. entry[tmp] \in Nat /\ entry[tmp] <= Len(inode) /\ Len(inode) \in Nat
        /\ inode \in Seq(Contents) /\ Empty \in Contents
    BY <2>1, InodeProps DEF FilesTyped, Contents
  <2>3. /\ h \in 1 .. Len(inode') /\ h \in Nat
        /\ inode' \in Seq(Contents) /\ Len(inode') >= Len(inode)
        /\ inode'[h] = Empty
        /\ \A i \in 1 .. Len(inode) : i # h => inode'[i] = inode[i]
        /\ h > Len(inode) \/ entry[tmp] = h
    <3>1. CASE Exists(tmp)
      <4>1. h = entry[tmp] /\ h \in 1 .. Len(inode) /\ inode' = [inode EXCEPT ![h] = Empty]
        BY <1>3, <2>2, <3>1 DEF Exists
      <4> HIDE DEF h
      <4> QED
        BY <2>2, <4>1, InodeProps
    <3>2. CASE ~Exists(tmp)
      <4>1. h = Len(inode) + 1 /\ inode' = Append(inode, Empty)
        BY <1>3, <3>2
      <4> HIDE DEF h
      <4> QED
        BY <2>2, <4>1, InodeProps
    <3> QED
      BY <3>1, <3>2
  <2> HIDE DEF h
  <2>4. /\ OnlyActor(x) /\ SameCall(x) /\ act'[x].stage = "opened" /\ act'[x].handle = h
    BY <1>3, <2>1, <2>3 DEF FilesTyped, OnlyActor, SameCall, ActRecord, Stages
  <2>5. Opened(x, h)
    BY <1>3, <2>3, <2>4 DEF Opened
  <2> QED
    BY <1>1, <2>3, <2>5
<1> QED
  BY <1>1, <1>2, <1>3 DEF WriteOpen, Sibling

\* The other steps of a write.
LEMMA WriteProps ==
  ASSUME FilesTyped, NEW x \in Actors, WriteFill(x) \/ WriteRename(x) \/ WriteCleanup(x)
  PROVE  /\ act[x] # None /\ act[x].req.tool = "write_file" /\ Writing(x)
         /\ OnlyActor(x) /\ SameCall(x) /\ UNCHANGED <<dirs, clashed>>
         /\ \/ /\ act[x].stage = "opened" /\ act'[x].stage = "filled"
               /\ act'[x].handle = act[x].handle
               /\ inode' = [inode EXCEPT ![act[x].handle] = act[x].req.text]
               /\ UNCHANGED <<entry, acked>>
            \/ /\ act[x].stage = "filled" /\ act'[x].stage = "done"
               /\ Exists(Sibling(x))
               /\ entry' = [entry EXCEPT ![Target(x)] = entry[Sibling(x)],
                                         ![Sibling(x)] = 0]
               /\ acked' = [acked EXCEPT ![Target(x)] = act[x].req.text]
               /\ UNCHANGED inode
            \/ /\ act[x].stage = "filled" /\ act'[x].stage = "cleanup"
               /\ act'[x].handle = act[x].handle
               /\ UNCHANGED <<entry, inode, acked>>
            \/ /\ act[x].stage = "cleanup" /\ act'[x].stage = "done"
               /\ entry' = [entry EXCEPT ![Sibling(x)] = 0]
               /\ UNCHANGED <<inode, acked>>
<1>0. /\ act[x] # None /\ act[x].req.tool = "write_file" /\ Writing(x)
      /\ Failed \in Results /\ [ok |-> TRUE] \in Results
  BY DEF WriteFill, WriteRename, WriteCleanup, At, Writing, Results
<1>1. CASE WriteFill(x)
  BY <1>0, <1>1, ToProps DEF WriteFill, At, Stages
<1>2. CASE WriteRename(x)
  <2>1. CASE Done(x, [ok |-> TRUE])
             /\ Exists(Sibling(x))
             /\ entry' = [entry EXCEPT ![Target(x)] = entry[Sibling(x)], ![Sibling(x)] = 0]
             /\ acked' = [acked EXCEPT ![Target(x)] = act[x].req.text]
    BY <1>0, <1>2, <2>1, DoneProps DEF WriteRename, At
  <2>2. CASE To(x, "cleanup") /\ UNCHANGED <<entry, acked>>
    BY <1>0, <1>2, <2>2, ToProps DEF WriteRename, At, Stages
  <2> QED
    BY <1>2, <2>1, <2>2 DEF WriteRename, Sibling
<1>3. CASE WriteCleanup(x)
  BY <1>0, <1>3, DoneProps DEF WriteCleanup, At, Sibling
<1> QED
  BY <1>1, <1>2, <1>3

-----------------------------------------------------------------------------
(* What every step keeps *)

\* A step either leaves the files alone and x does not start or go on writing
\* (but may go on to clean up), or opens, fills, renames or removes the sibling.
Quiet(x) ==
  /\ UNCHANGED <<entry, inode, acked, clashed>> /\ OnlyActor(x)
  /\ (Writing(x))' =>
       Writing(x) /\ SameCall(x) /\ act'[x].handle = act[x].handle
         /\ act'[x].stage = "cleanup"

Fills(x) ==
  /\ Writing(x) /\ OnlyActor(x) /\ SameCall(x)
  /\ act[x].stage = "opened" /\ act'[x].stage = "filled"
  /\ act'[x].handle = act[x].handle
  /\ inode' = [inode EXCEPT ![act[x].handle] = act[x].req.text]
  /\ UNCHANGED <<entry, dirs, acked, clashed>>

Renames(x) ==
  /\ Writing(x) /\ OnlyActor(x) /\ SameCall(x)
  /\ act[x].stage = "filled" /\ act'[x].stage = "done"
  /\ Exists(Sibling(x))
  /\ entry' = [entry EXCEPT ![Target(x)] = entry[Sibling(x)], ![Sibling(x)] = 0]
  /\ acked' = [acked EXCEPT ![Target(x)] = act[x].req.text]
  /\ UNCHANGED <<inode, dirs, clashed>>

Removes(x) ==
  /\ Writing(x) /\ OnlyActor(x) /\ SameCall(x)
  /\ act[x].stage = "cleanup" /\ act'[x].stage = "done"
  /\ entry' = [entry EXCEPT ![Sibling(x)] = 0]
  /\ UNCHANGED <<inode, dirs, acked, clashed>>

\* What grep does to its actor's record.
LEMMA GrepProps ==
  ASSUME FilesTyped, NEW x \in Actors, GrepStart(x) \/ GrepScan(x) \/ GrepSkips(x)
  PROVE  /\ act[x] # None /\ act[x].req.tool = "grep"
         /\ UNCHANGED <<files, reached>> /\ OnlyActor(x)
         /\ act'[x] \in ActRecord
         /\ act'[x].req = act[x].req /\ act'[x].path = act[x].path
         /\ act'[x].stage = "walk"
         /\ Target(x) \in Targets
<1>1. /\ act[x] # None /\ act[x].req.tool = "grep" /\ UNCHANGED <<files, reached>>
      /\ act[x] \in ActRecord
  BY DEF GrepStart, GrepScan, GrepSkips, Starts, At, files, FilesTyped
<1>2. Target(x) \in Targets
  BY <1>1, TargetProps
<1>3. CASE GrepStart(x)
  <2> DEFINE b == [p \in {q \in Targets : HasMatch(q)} |-> entry[p]]
  <2>1. Under(Target(x)) \in SUBSET AllPaths
    BY <1>2 DEF Under, AllPaths
  <2>2. b \in Befores
    <3>1. b \in [{q \in Targets : HasMatch(q)} -> Nat]
      BY DEF FilesTyped, AllPaths
    <3> QED
      BY <3>1 DEF Befores
  <2> HIDE DEF b
  <2>3. act' = [act EXCEPT ![x].stage = "walk", ![x].todo = Under(Target(x)),
                           ![x].before = b]
    BY <1>3 DEF GrepStart, b
  <2> QED
    BY <1>1, <1>2, <2>1, <2>2, <2>3 DEF FilesTyped, OnlyActor, ActRecord, Stages
<1>4. CASE GrepScan(x)
  <2>1. PICK p \in act[x].todo :
          act' = [act EXCEPT ![x].todo = @ \ {p},
                             ![x].found = IF HasMatch(p) THEN @ \cup {p} ELSE @]
    BY <1>4 DEF GrepScan
  <2>2. /\ act[x].todo \ {p} \in SUBSET AllPaths
        /\ (IF HasMatch(p) THEN act[x].found \cup {p} ELSE act[x].found) \in SUBSET AllPaths
    BY <1>1 DEF ActRecord
  <2>3. act[x].stage = "walk"
    BY <1>4 DEF GrepScan, At
  <2> QED
    BY <1>1, <1>2, <2>1, <2>2, <2>3 DEF FilesTyped, OnlyActor, ActRecord, Stages
<1>5. CASE GrepSkips(x)
  <2>1. PICK p \in act[x].todo :
          act' = [act EXCEPT ![x].todo = @ \ {p},
                             ![x].before = [q \in DOMAIN @ \ {p} |-> @[q]]]
    BY <1>5 DEF GrepSkips
  <2> DEFINE o == act[x].before
             b == [q \in DOMAIN o \ {p} |-> o[q]]
  <2>2. b \in Befores
    <3>1. PICK S \in SUBSET Targets : o \in [S -> Nat]
      BY <1>1 DEF ActRecord, Befores
    <3>2. b \in [S \ {p} -> Nat]
      BY <3>1
    <3> QED
      BY <3>2 DEF Befores
  <2>3. act[x].todo \ {p} \in SUBSET AllPaths /\ act[x].stage = "walk"
    BY <1>1, <1>5 DEF ActRecord, GrepSkips, At
  <2>4. act' = [act EXCEPT ![x].todo = @ \ {p}, ![x].before = b]
    BY <1>1, <2>1
  <2> HIDE DEF b
  <2> QED
    BY <1>1, <1>2, <2>2, <2>3, <2>4 DEF FilesTyped, OnlyActor, ActRecord, Stages
<1> QED
  BY <1>3, <1>4, <1>5

\* Every step is one of the five.
LEMMA FiveKinds ==
  ASSUME FilesTyped, NEW x \in Actors, FileStep(x)
  PROVE  \/ Quiet(x)
         \/ act[x] # None /\ ~Writing(x) /\ act[x].req.tool = "write_file"
              /\ act[x].req \in Allowed /\ \E h \in Nat : Opened(x, h)
         \/ Fills(x) \/ Renames(x) \/ Removes(x)
<1>1. CASE LocalStep(x)
  BY <1>1 DEF LocalStep, Quiet, files
<1>2. CASE CallStep(x)
  <2>1. ~(Writing(x))'
    BY <1>2, CallProps DEF CallStep, Writing
  <2> QED
    BY <1>2, <2>1 DEF CallStep, Quiet, files
<1>3. CASE GrepStart(x) \/ GrepScan(x) \/ GrepSkips(x)
  BY <1>3, GrepProps DEF Quiet, files, Writing
<1>4. CASE WriteOpen(x)
  <2>1. CASE act'[x].stage = "done" /\ OnlyActor(x)
               /\ UNCHANGED <<entry, inode, acked, clashed>>
    BY <2>1 DEF Quiet, Writing
  <2> QED
    BY <1>4, <2>1, OpenProps DEF Writing
<1>5. CASE WriteFill(x) \/ WriteRename(x) \/ WriteCleanup(x)
  BY <1>5, WriteProps DEF Quiet, Fills, Renames, Removes
<1> QED
  BY <1>1, <1>2, <1>3, <1>4, <1>5 DEF FileStep

\* The call a record describes, after a step.
LEMMA ActTyped ==
  ASSUME FilesTyped, NEW x \in Actors, FileStep(x)
  PROVE  /\ act' \in [Actors -> ActRecord \cup {None}]
         /\ \A y \in Actors : act'[y] # None /\ act'[y].req.tool # "bash" =>
              act'[y].path = TargetOf[act'[y].req]
<1>1. ASSUME OnlyActor(x),
             act'[x] = None \/ (act'[x] \in ActRecord
               /\ (act'[x].req.tool # "bash" => act'[x].path = TargetOf[act'[x].req]))
      PROVE  /\ act' \in [Actors -> ActRecord \cup {None}]
             /\ \A y \in Actors : act'[y] # None /\ act'[y].req.tool # "bash" =>
                  act'[y].path = TargetOf[act'[y].req]
  <2> DEFINE R == ActRecord \cup {None}
  <2>1. \A y \in Actors : act'[y] \in R
    BY <1>1 DEF FilesTyped, OnlyActor
  <2>2. act' \in [Actors -> R]
    <3> HIDE DEF R
    <3> QED
      BY <1>1, <2>1 DEF OnlyActor
  <2> QED
    BY <1>1, <2>2 DEF FilesTyped, OnlyActor
<1>2. ASSUME act[x] # None, SameCall(x), OnlyActor(x)
      PROVE  act'[x] \in ActRecord
               /\ (act'[x].req.tool # "bash" => act'[x].path = TargetOf[act'[x].req])
  BY <1>2 DEF FilesTyped, SameCall
<1>3. CASE CallStep(x)
  BY <1>1, <1>3, CallProps DEF CallStep
<1>4. CASE GrepStart(x) \/ GrepScan(x) \/ GrepSkips(x)
  BY <1>1, <1>4, GrepProps DEF FilesTyped
<1>5. CASE LocalStep(x)
  BY <1>1, <1>2, <1>5 DEF LocalStep
<1>6. CASE WriteOpen(x)
  BY <1>1, <1>2, <1>6, OpenProps DEF Opened
<1>7. CASE WriteFill(x) \/ WriteRename(x) \/ WriteCleanup(x)
  BY <1>1, <1>2, <1>7, WriteProps
<1> QED
  BY <1>3, <1>4, <1>5, <1>6, <1>7 DEF FileStep

\* Who else writes, and on what, is not affected by a step of x.
LEMMA OthersWrite ==
  ASSUME NEW x \in Actors, OnlyActor(x), NEW y \in Actors, y # x
  PROVE  /\ act'[y] = act[y] /\ (Writing(y))' = Writing(y) /\ (Target(y))' = Target(y)
         /\ (Sibling(y))' = Sibling(y)
BY DEF OnlyActor, Writing, Target, Sibling, TmpPath

LEMMA FilesTypedStep ==
  ASSUME WireTyped, FilesTyped, [Next]_vars PROVE FilesTyped'
<1>1. CASE UNCHANGED toolVars
  BY <1>1 DEF toolVars, FilesTyped, Writing
<1>2. ASSUME NEW x \in Actors, FileStep(x) PROVE FilesTyped'
  <2> DEFINE Entries == /\ entry' \in [AllPaths -> Nat]
                        /\ \A p \in AllPaths : entry'[p] <= Len(inode')
             Inodes == inode' \in Seq(Contents)
             Handles == \A y \in Actors : (Writing(y))' => act'[y].handle \in 1 .. Len(inode')
             Acks == acked' \in [Targets -> Texts \cup {None}] /\ clashed' \in BOOLEAN
             Reached == reached' \subseteq Targets
  <2>0. Len(inode) \in Nat
    BY DEF FilesTyped
  <2>1. SUFFICES Entries /\ Inodes /\ Handles /\ Acks
    <3>1. Reached
      BY <1>2, ReachGrows DEF Reaches
    <3> QED
      BY <1>2, <3>1, ActTyped DEF FilesTyped
  <2>2. ASSUME OnlyActor(x), Len(inode') \in Nat, Len(inode') >= Len(inode),
               (Writing(x))' => act'[x].handle \in 1 .. Len(inode')
        PROVE  Handles
    <3> SUFFICES ASSUME NEW y \in Actors, (Writing(y))', y # x
                 PROVE  act'[y].handle \in 1 .. Len(inode')
      BY <2>2
    <3> QED
      BY <2>0, <2>2, OthersWrite DEF FilesTyped
  <2>3. CASE Quiet(x)
    <3>1. (Writing(x))' => act'[x].handle \in 1 .. Len(inode')
      BY <2>3 DEF Quiet, FilesTyped
    <3> QED
      BY <2>0, <2>2, <2>3, <3>1 DEF Quiet, FilesTyped
  <2>4. CASE /\ act[x] # None /\ act[x].req.tool = "write_file"
             /\ \E h \in Nat : Opened(x, h)
    <3>1. PICK h \in Nat : Opened(x, h)
      BY <2>4
    <3>2. Sibling(x) \in AllPaths
      BY <2>4, WriterProps DEF Sibling
    <3>3. Entries
      BY <2>0, <3>1, <3>2 DEF Opened, FilesTyped
    <3>4. Handles
      BY <2>2, <3>1 DEF Opened
    <3>5. Inodes /\ Acks
      BY <3>1 DEF Opened, FilesTyped
    <3> QED
      BY <3>3, <3>4, <3>5
  <2>5. CASE Fills(x)
    <3>1. act[x].req.text \in Contents /\ act[x].handle \in 1 .. Len(inode)
      BY <2>5, WriterProps DEF Fills, Writing, FilesTyped, Contents
    <3>2. Inodes /\ Len(inode') = Len(inode)
      BY <2>5, <3>1, InodeProps DEF Fills, FilesTyped
    <3>3. Handles
      BY <2>0, <2>2, <2>5, <3>1, <3>2 DEF Fills
    <3> QED
      BY <2>5, <3>2, <3>3 DEF Fills, FilesTyped
  <2>6. CASE Renames(x) \/ Removes(x)
    <3>1. /\ act[x].req.text \in Texts /\ Sibling(x) \in AllPaths
          /\ Target(x) \in AllPaths /\ Target(x) \in Targets
      BY <2>6, WriterProps DEF Renames, Removes, Writing, Sibling
    <3>2. Entries /\ Inodes
      <4>1. inode' = inode /\ inode \in Seq(Contents) /\ entry \in [AllPaths -> Nat]
            /\ \A p \in AllPaths : entry[p] <= Len(inode)
        BY <2>6 DEF Renames, Removes, FilesTyped
      <4>2. /\ entry' \in [AllPaths -> Nat]
            /\ \A p \in AllPaths : entry'[p] \in {entry[p], entry[Sibling(x)], 0}
        BY <2>6, <3>1, <4>1 DEF Renames, Removes
      <4> QED
        BY <2>0, <3>1, <4>1, <4>2
    <3>3. Acks
      BY <2>6, <3>1 DEF Renames, Removes, FilesTyped
    <3>4. Handles
      BY <2>0, <2>2, <2>6 DEF Renames, Removes, Writing
    <3> QED
      BY <3>2, <3>3, <3>4
  <2> QED
    BY <1>2, <2>3, <2>4, <2>5, <2>6, FiveKinds
<1>3. ASSUME NEW p \in Targets, Shells(p) PROVE FilesTyped'
  <2>1. \A q \in AllPaths : entry'[q] <= Len(inode')
    BY <1>3 DEF Shells, FilesTyped
  <2>2. \A x \in Actors : (Writing(x))' => act'[x].handle \in 1 .. Len(inode')
    BY <1>3 DEF Shells, FilesTyped, Writing
  <2> QED
    BY <1>3, <2>1, <2>2 DEF Shells, FilesTyped
<1> QED
  BY <1>1, <1>2, <1>3, StepKinds

\* A path without its last component.
LEMMA FrontProps ==
  ASSUME NEW S, NEW s \in Seq(S), Len(s) \in Nat \ {0}
  PROVE  /\ Front(s) \in Seq(S) /\ Len(Front(s)) = Len(s) - 1
         /\ \A i \in 1 .. Len(s) - 1 : Front(s)[i] = s[i]
<1>1. PICK n \in Nat : n = Len(s) - 1
  OBVIOUS
<1>2. n <= Len(s)
  BY <1>1
<1>3. SubSeq(s, 1, n) \in Seq(S) /\ Len(SubSeq(s, 1, n)) = n
  BY <1>1, <1>2
<1>4. \A i \in 1 .. n : SubSeq(s, 1, n)[i] = s[i]
  BY <1>1, <1>2
<1> QED
  BY <1>1, <1>3, <1>4 DEF Front

\* What is added to a path is its last component, and the rest its front.
LEMMA AppendParts ==
  ASSUME NEW S, NEW s \in Seq(S), NEW x
  PROVE  /\ Front(Append(s, x)) = s /\ Last(Append(s, x)) = x
         /\ Len(Append(s, x)) = Len(s) + 1
<1>1. Append(s, x) \in Seq(S \cup {x}) /\ Len(Append(s, x)) = Len(s) + 1
  OBVIOUS
<1>2. Append(s, x)[Len(s) + 1] = x /\ \A i \in 1 .. Len(s) : Append(s, x)[i] = s[i]
  OBVIOUS
<1>3. PICK t \in Seq(S \cup {x}) : t = Append(s, x)
  BY <1>1
<1>4. Len(s) \in Nat /\ Len(t) = Len(s) + 1 /\ \A i \in 1 .. Len(s) : t[i] = s[i]
  BY <1>1, <1>2, <1>3
<1>5. /\ Front(t) \in Seq(S \cup {x}) /\ Len(Front(t)) = Len(s)
      /\ \A i \in 1 .. Len(s) : Front(t)[i] = s[i]
  <2>1. /\ Front(t) \in Seq(S \cup {x}) /\ Len(Front(t)) = Len(t) - 1
        /\ \A i \in 1 .. Len(t) - 1 : Front(t)[i] = t[i]
    BY <1>4, FrontProps
  <2> QED
    BY <1>4, <2>1
<1>6. s \in Seq(S \cup {x})
  OBVIOUS
<1>7. Front(t) = s
  BY <1>5, <1>6
<1> QED
  BY <1>1, <1>2, <1>3, <1>7 DEF Last

\* No sibling is a target.
LEMMA SiblingsNoTargets ==
  ASSUME SiblingsApart, NEW p \in Targets, NEW q \in Targets PROVE TmpPath(p) # q
<1> SUFFICES ASSUME TmpPath(p) = q PROVE FALSE
  OBVIOUS
<1>1. Front(p) \in Seq(Components)
  BY TreeAssumption, FrontProps
<1>2. Front(q) = Front(p) /\ Last(q) = TmpName(Last(p))
  BY <1>1, AppendParts DEF TmpPath
<1> QED
  BY <1>2 DEF SiblingsApart

\* A rename moves the sibling's name, and the sibling is nobody else's.
LEMMA EntriesApartStep ==
  ASSUME SiblingsApart, WireTyped, FilesTyped, EntriesApart, [Next]_vars
  PROVE  EntriesApart'
<1>1. CASE UNCHANGED toolVars
  BY <1>1 DEF toolVars, EntriesApart
<1>2. ASSUME NEW x \in Actors, FileStep(x) PROVE EntriesApart'
  <2>1. CASE Quiet(x) \/ Fills(x)
    BY <2>1 DEF Quiet, Fills, EntriesApart
  <2>2. CASE /\ act[x] # None /\ act[x].req.tool = "write_file"
             /\ \E h \in Nat : Opened(x, h)
    <3>1. PICK h \in Nat : Opened(x, h)
      BY <2>2
    <3>2. Sibling(x) \in AllPaths
      BY <2>2, WriterProps DEF Sibling
    <3>3. \A p \in AllPaths : entry[p] = h => p = Sibling(x)
      BY <3>1, <3>2 DEF Opened, FilesTyped, EntriesApart
    <3> QED
      BY <3>1, <3>2, <3>3 DEF Opened, FilesTyped, EntriesApart
  <2>3. CASE Renames(x) \/ Removes(x)
    <3>1. /\ Sibling(x) \in AllPaths /\ Target(x) \in AllPaths /\ Target(x) # Sibling(x)
      BY <2>3, WriterProps, SiblingsNoTargets DEF Renames, Removes, Writing, Sibling
    <3> QED
      BY <2>3, <3>1 DEF Renames, Removes, FilesTyped, EntriesApart, Exists
  <2> QED
    BY <1>2, <2>1, <2>2, <2>3, FiveKinds
<1>3. ASSUME NEW p \in Targets, Shells(p) PROVE EntriesApart'
  BY <1>3 DEF Shells, FilesTyped, EntriesApart
<1> QED
  BY <1>1, <1>2, <1>3, StepKinds

\* No two targets share a sibling.  (fs_write.rs: atomic_tmp_path.)
LEMMA TmpPathInjective ==
  ASSUME NEW p \in Targets, NEW q \in Targets, TmpPath(p) = TmpPath(q)
  PROVE  p = q
<1> DEFINE a == Append(Last(p), "~")
           b == Append(Last(q), "~")
<1>1. /\ p \in Seq(Components) /\ Len(p) \in Nat \ {0}
      /\ q \in Seq(Components) /\ Len(q) \in Nat \ {0}
  BY TreeAssumption
<1>2. Last(p) \in Seq(Characters) /\ Last(q) \in Seq(Characters)
  BY <1>1, TreeAssumption DEF Last
<1>3. /\ Front(p) \in Seq(Components) /\ Len(Front(p)) = Len(p) - 1
      /\ Front(q) \in Seq(Components) /\ Len(Front(q)) = Len(q) - 1
      /\ \A i \in 1 .. Len(p) - 1 : Front(p)[i] = p[i]
      /\ \A i \in 1 .. Len(q) - 1 : Front(q)[i] = q[i]
  BY <1>1, FrontProps
<1>4. Append(Front(p), a) = Append(Front(q), b)
  BY DEF TmpPath, TmpName
<1> HIDE DEF a, b
<1>5. Len(p) = Len(q) /\ a = b /\ \A i \in 1 .. Len(p) - 1 : p[i] = q[i]
  <2>1. /\ Len(Append(Front(p), a)) = Len(p) /\ Len(Append(Front(q), b)) = Len(q)
        /\ Append(Front(p), a)[Len(p)] = a /\ Append(Front(q), b)[Len(q)] = b
        /\ \A i \in 1 .. Len(p) - 1 : Append(Front(p), a)[i] = Front(p)[i]
        /\ \A i \in 1 .. Len(q) - 1 : Append(Front(q), b)[i] = Front(q)[i]
    BY <1>1, <1>3
  <2> QED
    BY <1>1, <1>3, <1>4, <2>1
<1>6. Last(p) = Last(q)
  <2>1. ASSUME NEW s \in Seq(Characters), NEW t \in Seq(Characters),
               Append(s, "~") = Append(t, "~")
        PROVE  s = t
    <3>1. /\ Len(Append(s, "~")) = Len(s) + 1 /\ Len(Append(t, "~")) = Len(t) + 1
          /\ \A i \in 1 .. Len(s) : Append(s, "~")[i] = s[i]
          /\ \A i \in 1 .. Len(t) : Append(t, "~")[i] = t[i]
      OBVIOUS
    <3>2. Len(s) = Len(t) /\ \A i \in 1 .. Len(s) : s[i] = t[i]
      BY <2>1, <3>1
    <3> QED
      BY <3>2
  <2> QED
    BY <1>2, <1>5, <2>1 DEF a, b
<1>7. \A i \in 1 .. Len(p) : p[i] = q[i]
  BY <1>1, <1>5, <1>6 DEF Last
<1> QED
  BY <1>1, <1>5, <1>7

\* Siblings of different targets are different names, and not targets.
LEMMA ApartProps ==
  ASSUME SiblingsApart, FilesTyped, EntriesApart, NEW x \in Actors,
         act[x] # None, act[x].req.tool = "write_file"
  PROVE  /\ Target(x) \in Targets /\ Sibling(x) \in AllPaths /\ Targets \subseteq AllPaths
         /\ \A p \in Targets : p # Sibling(x)
         /\ \A y \in Actors : Writing(y) =>
              /\ Target(y) \in Targets /\ Sibling(y) \in AllPaths
              /\ Target(y) # Target(x) => Sibling(y) # Sibling(x)
         /\ \A p, q \in AllPaths : p # q /\ entry[p] # 0 => entry[p] # entry[q]
<1>1. Target(x) \in Targets /\ Sibling(x) \in AllPaths /\ Targets \subseteq AllPaths
  BY WriterProps DEF Sibling, AllPaths
<1>2. \A p \in Targets : p # Sibling(x)
  BY <1>1, SiblingsNoTargets DEF Sibling
<1>3. ASSUME NEW y \in Actors, Writing(y)
      PROVE  /\ Target(y) \in Targets /\ Sibling(y) \in AllPaths
             /\ Target(y) # Target(x) => Sibling(y) # Sibling(x)
  <2>1. Target(y) \in Targets /\ Sibling(y) \in AllPaths
    BY <1>3, WriterProps DEF Sibling, Writing
  <2> QED
    BY <1>1, <2>1, TmpPathInjective DEF Sibling
<1> QED
  BY <1>1, <1>2, <1>3 DEF EntriesApart

\* A reader that sees the file sees all of it.
LEMMA ReadsWholeStep ==
  ASSUME FilesTyped, AllAcked, ReadsWhole, NEW x \in Actors, FileStep(x)
  PROVE  ReadsWhole'
<1>1. ASSUME OnlyActor(x),
             (At(x, "read_file", "done"))' /\ act'[x].result.ok
               /\ act'[x].path \notin reached' => act'[x].result.text # Empty
      PROVE  ReadsWhole'
  <2>1. reached \subseteq reached'
    BY ReachGrows DEF Reaches
  <2> QED
    BY <1>1, <2>1 DEF ReadsWhole, OnlyActor, At, Target
<1>2. CASE LocalStep(x)
  <2>1. ASSUME act'[x].req.tool = "read_file", act'[x].stage = "done", act'[x].result.ok,
               act'[x].path \notin reached'
        PROVE  act'[x].result.text # Empty
    <3>1. Exists(Target(x)) /\ act'[x].result.text = Content(Target(x))
          /\ act[x] # None /\ act[x].req.tool = "read_file"
      BY <1>2, <2>1 DEF LocalStep, SameCall
    <3>2. Target(x) \in Targets
      BY <3>1, TargetProps
    <3>3. Target(x) \notin reached
      BY <1>2, <2>1, ReachGrows DEF LocalStep, SameCall, Target, Reaches
    <3> QED
      BY <3>1, <3>2, <3>3 DEF AllAcked
  <2> QED
    BY <1>1, <1>2, <2>1 DEF LocalStep, At
<1>3. CASE CallStep(x)
  BY <1>1, <1>3, CallProps DEF CallStep, At
<1>4. CASE GrepStart(x) \/ GrepScan(x) \/ GrepSkips(x)
  BY <1>1, <1>4, GrepProps DEF At
<1>5. CASE WriteOpen(x)
  BY <1>1, <1>5, OpenProps DEF Opened, SameCall, At
<1>6. CASE WriteFill(x) \/ WriteRename(x) \/ WriteCleanup(x)
  BY <1>1, <1>6, WriteProps DEF SameCall, At
<1> QED
  BY <1>2, <1>3, <1>4, <1>5, <1>6 DEF FileStep

\* As long as no two calls overlap, a write touches no inode but its own, and
\* publishes it whole.
LEMMA UndisturbedStep ==
  ASSUME SiblingsApart, WireTyped, FilesTyped, EntriesApart, Undisturbed, [Next]_vars
  PROVE  Undisturbed'
<1>1. CASE UNCHANGED toolVars
  BY <1>1 DEF toolVars, Undisturbed, Alone, OwnSibling, OwnText, AllAcked, ReadsWhole,
     Writing, Target, At, Exists, Content
<1>2. ASSUME NEW x \in Actors, FileStep(x), ~clashed'
      PROVE  (Alone /\ OwnSibling /\ OwnText /\ AllAcked /\ ReadsWhole)'
  <2>0. ~clashed /\ Alone /\ OwnSibling /\ OwnText /\ AllAcked /\ ReadsWhole
    BY <1>2, FiveKinds DEF Undisturbed, Quiet, Opened, Fills, Renames, Removes
  <2>1. ReadsWhole'
    BY <1>2, <2>0, ReadsWholeStep
  <2>2. SUFFICES (Alone /\ OwnSibling /\ OwnText /\ AllAcked)'
    BY <2>1
  <2>3. \A y \in Actors : Writing(y) => act[y].handle \in 1 .. Len(inode)
    BY DEF FilesTyped
  <2>r. Targets \ reached' \subseteq Targets \ reached
    BY <1>2, ReachGrows DEF Reaches
  <2>4. CASE Quiet(x)
    <3>1. Alone'
      BY <2>0, <2>4, OthersWrite DEF Quiet, Alone, SameCall, Target
    <3>2. OwnSibling' /\ OwnText'
      BY <2>0, <2>4, OthersWrite DEF Quiet, OwnSibling, OwnText, Sibling, Writing, At
    <3>3. AllAcked'
      BY <2>0, <2>r, <2>4 DEF Quiet, AllAcked, Exists, Content
    <3> QED
      BY <3>1, <3>2, <3>3
  <2>5. CASE /\ act[x] # None /\ act[x].req.tool = "write_file"
             /\ \E h \in Nat : Opened(x, h)
    <3>1. PICK h \in Nat : Opened(x, h)
      BY <2>5
    <3>2. \A y \in Actors \ {x} : Writing(y) => Target(y) # Target(x)
      BY <1>2, <3>1 DEF Opened
    <3>3. OnlyActor(x) /\ (Target(x))' = Target(x) /\ (Sibling(x))' = Sibling(x)
      BY <3>1 DEF Opened, SameCall, Target, Sibling, TmpPath
    <3>4. Alone'
      BY <2>0, <3>2, <3>3, OthersWrite DEF Alone
    <3>5. OwnSibling'
      <4>1. \A y \in Actors \ {x} : Writing(y) => Sibling(y) # Sibling(x)
        BY <2>5, <3>2, ApartProps
      <4>2. \A y \in Actors \ {x} : Writing(y) => entry'[Sibling(y)] = entry[Sibling(y)]
        BY <2>5, <3>1, <4>1, ApartProps DEF Opened, FilesTyped
      <4>3. entry'[Sibling(x)] = act'[x].handle
        BY <2>5, <3>1, ApartProps DEF Opened, FilesTyped
      <4> QED
        BY <2>0, <3>3, <4>2, <4>3, OthersWrite DEF OwnSibling, Sibling
    <3>6. OwnText'
      <4>1. ASSUME NEW y \in Actors, y # x, At(y, "write_file", "filled")
            PROVE  inode'[act[y].handle] = inode[act[y].handle]
        <5>1. Writing(y) /\ act[y].stage # "cleanup"
          BY <4>1 DEF At, Writing
        <5>2. /\ act[y].handle \in 1 .. Len(inode) /\ entry[Sibling(y)] = act[y].handle
              /\ Sibling(y) # Sibling(x) /\ Sibling(y) \in AllPaths /\ Sibling(x) \in AllPaths
          BY <2>0, <2>3, <2>5, <3>2, <4>1, <5>1, ApartProps DEF OwnSibling, Sibling
        <5>3. act[y].handle # h
          BY <3>1, <5>2 DEF Opened, EntriesApart, FilesTyped
        <5> QED
          BY <3>1, <5>2, <5>3 DEF Opened
      <4> QED
        BY <2>0, <3>1, <4>1 DEF OwnText, At, Opened, OnlyActor
    <3>7. AllAcked'
      <4>1. ASSUME NEW p \in Targets
            PROVE  entry'[p] = entry[p] /\ (entry[p] # 0 => inode'[entry[p]] = inode[entry[p]])
        <5>1. p \in AllPaths /\ p # Sibling(x) /\ Sibling(x) \in AllPaths
          BY <2>5, ApartProps
        <5>2. entry'[p] = entry[p] /\ entry[p] \in Nat /\ entry[p] <= Len(inode)
          BY <3>1, <5>1 DEF Opened, FilesTyped
        <5>3. entry[p] # 0 => entry[p] # h
          BY <3>1, <5>1, <5>2 DEF Opened, EntriesApart, FilesTyped
        <5> QED
          BY <3>1, <5>2, <5>3 DEF Opened, FilesTyped
      <4> QED
        BY <2>0, <2>r, <3>1, <4>1 DEF AllAcked, Exists, Content, Opened
    <3> QED
      BY <3>4, <3>5, <3>6, <3>7
  <2>6. CASE Fills(x) \/ Renames(x) \/ Removes(x)
    <3>0. /\ Writing(x) /\ OnlyActor(x) /\ act[x] # None /\ act[x].req.tool = "write_file"
          /\ (Target(x))' = Target(x) /\ (Sibling(x))' = Sibling(x)
      BY <2>6 DEF Fills, Renames, Removes, SameCall, Target, Sibling, TmpPath, Writing
    <3>1. Alone'
      BY <2>0, <3>0, OthersWrite DEF Alone
    <3>2. \A y \in Actors \ {x} : Writing(y) => Sibling(y) # Sibling(x)
      BY <2>0, <3>0, ApartProps DEF Alone
    <3>3. /\ Sibling(x) \in AllPaths /\ Target(x) \in Targets /\ Target(x) \in AllPaths
          /\ \A p \in Targets : p # Sibling(x)
          /\ \A y \in Actors : Writing(y) => Sibling(y) \in AllPaths /\ Sibling(y) # Target(x)
      <4>1. \A y \in Actors : Writing(y) => Sibling(y) \in AllPaths /\ Sibling(y) # Target(x)
        <5>1. /\ Target(x) \in Targets
              /\ \A y \in Actors : Writing(y) =>
                   Target(y) \in Targets /\ Sibling(y) \in AllPaths
          BY <3>0, ApartProps
        <5> QED
          BY <5>1, SiblingsNoTargets DEF Sibling
      <4> QED
        BY <3>0, <4>1, ApartProps
    <3>4. OwnSibling'
      <4>1. \A y \in Actors \ {x} : Writing(y) => entry'[Sibling(y)] = entry[Sibling(y)]
        BY <2>6, <3>2, <3>3 DEF FilesTyped, Fills, Renames, Removes
      <4>2. (Writing(x))' => /\ act[x].stage = "opened" /\ UNCHANGED entry
                             /\ act'[x].handle = act[x].handle
        BY <2>6 DEF Fills, Renames, Removes, Writing
      <4> QED
        BY <2>0, <3>0, <4>1, <4>2, OthersWrite DEF OwnSibling, Sibling
    <3>5. CASE Fills(x)
      <4>1. /\ act[x].handle \in 1 .. Len(inode) /\ entry[Sibling(x)] = act[x].handle
            /\ inode \in Seq(Contents)
        BY <2>0, <2>3, <3>0, <3>5 DEF Fills, OwnSibling, Sibling, FilesTyped
      <4>2. /\ inode'[act[x].handle] = act[x].req.text
            /\ \A i \in 1 .. Len(inode) : i # act[x].handle => inode'[i] = inode[i]
        BY <3>5, <4>1 DEF Fills
      <4>3. OwnText'
        <5>1. ASSUME NEW y \in Actors, y # x, At(y, "write_file", "filled")
              PROVE  inode'[act[y].handle] = inode[act[y].handle]
          <6>1. Writing(y) /\ act[y].stage # "cleanup"
            BY <5>1 DEF At, Writing
          <6>2. act[y].handle \in 1 .. Len(inode) /\ entry[Sibling(y)] = act[y].handle
            BY <2>0, <2>3, <6>1 DEF OwnSibling, Sibling
          <6>3. act[y].handle # act[x].handle
            BY <3>2, <3>3, <4>1, <5>1, <6>1, <6>2 DEF EntriesApart
          <6> QED
            BY <4>2, <6>2, <6>3
        <5> QED
          BY <2>0, <3>5, <4>2, <5>1 DEF OwnText, At, Fills, OnlyActor, SameCall
      <4>4. AllAcked'
        <5>1. ASSUME NEW p \in Targets, entry[p] # 0
              PROVE  inode'[entry[p]] = inode[entry[p]]
          BY <3>3, <4>1, <4>2, <5>1 DEF EntriesApart, FilesTyped, AllPaths
        <5> QED
          BY <2>0, <2>r, <3>5, <5>1 DEF AllAcked, Exists, Content, Fills
      <4> QED
        BY <3>1, <3>4, <4>3, <4>4
    <3>6. CASE Renames(x)
      <4>1. /\ inode[entry[Sibling(x)]] = act[x].req.text /\ act[x].req.text # Empty
            /\ entry[Sibling(x)] # 0
        BY <2>0, <3>0, <3>6, WriterProps, ContentsAssumption
        DEF Renames, OwnSibling, OwnText, Sibling, At, Exists
      <4>2. OwnText'
        BY <2>0, <3>6 DEF OwnText, At, Renames, OnlyActor
      <4>3. AllAcked'
        <5>1. ASSUME NEW p \in Targets, p # Target(x)
              PROVE  entry'[p] = entry[p] /\ acked'[p] = acked[p]
          BY <3>3, <3>6, <5>1 DEF Renames, FilesTyped, AllPaths
        <5>2. /\ entry'[Target(x)] = entry[Sibling(x)]
              /\ acked'[Target(x)] = act[x].req.text
          BY <3>3, <3>6 DEF Renames, FilesTyped
        <5>3. inode' = inode
          BY <3>6 DEF Renames
        <5> QED
          BY <2>0, <2>r, <4>1, <5>1, <5>2, <5>3 DEF AllAcked, Exists, Content
      <4> QED
        BY <3>1, <3>4, <4>2, <4>3
    <3>7. CASE Removes(x)
      <4>1. OwnText'
        BY <2>0, <3>7 DEF OwnText, At, Removes, OnlyActor
      <4>2. AllAcked'
        BY <2>0, <2>r, <3>3, <3>7 DEF AllAcked, Exists, Content, Removes, FilesTyped, AllPaths
      <4> QED
        BY <3>1, <3>4, <4>1, <4>2
    <3> QED
      BY <2>6, <3>5, <3>6, <3>7
  <2> QED
    BY <1>2, <2>4, <2>5, <2>6, FiveKinds
<1>3. ASSUME NEW p \in Targets, Shells(p), ~clashed
      PROVE  (Alone /\ OwnSibling /\ OwnText /\ AllAcked /\ ReadsWhole)'
  <2>1. /\ UNCHANGED <<act, acked, reached>> /\ p \in reached
        /\ \A i \in 1 .. Len(inode) : i # entry[p] => inode'[i] = inode[i]
        /\ \A q \in AllPaths : q # p => entry'[q] = entry[q]
    BY <1>3 DEF Shells
  <2>2. Alone /\ OwnSibling /\ OwnText /\ AllAcked /\ ReadsWhole
    BY <1>3 DEF Undisturbed
  <2>3. Alone' /\ ReadsWhole'
    BY <2>1, <2>2 DEF Alone, ReadsWhole, Writing, Target, At
  <2>4. ASSUME NEW y \in Actors, Writing(y)
        PROVE  Sibling(y) \in AllPaths /\ Sibling(y) # p /\ (Sibling(y))' = Sibling(y)
    <3>1. Target(y) \in Targets /\ Sibling(y) \in AllPaths
      BY <2>4, WriterProps DEF Sibling, Writing
    <3> QED
      BY <2>1, <3>1, SiblingsNoTargets DEF Sibling, Target
  <2>5. OwnSibling'
    BY <2>1, <2>2, <2>4 DEF OwnSibling, Writing, Sibling
  <2>6. ASSUME NEW q \in AllPaths, q # p, entry[q] # 0
        PROVE  inode'[entry[q]] = inode[entry[q]]
    BY <2>1, <2>6 DEF EntriesApart, FilesTyped, AllPaths
  <2>7. OwnText'
    <3> SUFFICES ASSUME NEW y \in Actors, At(y, "write_file", "filled")
                 PROVE  inode'[act[y].handle] = act[y].req.text
      BY <2>1 DEF OwnText, At
    <3>1. Writing(y) /\ act[y].stage # "cleanup"
      BY DEF At, Writing
    <3>2. entry[Sibling(y)] = act[y].handle /\ act[y].handle # 0
      BY <2>2, <3>1 DEF OwnSibling, Sibling, FilesTyped
    <3> QED
      BY <2>2, <2>4, <2>6, <3>1, <3>2 DEF OwnText
  <2>8. AllAcked'
    <3>1. Targets \subseteq AllPaths
      BY DEF AllPaths
    <3> QED
      BY <2>1, <2>2, <2>6, <3>1 DEF AllAcked, Exists, Content
  <2> QED
    BY <2>3, <2>5, <2>7, <2>8
<1>4. (\E p \in Targets : Shells(p)) => clashed' = clashed
  BY DEF Shells
<1> QED
  BY <1>1, <1>2, <1>3, <1>4, StepKinds DEF Undisturbed

\* Paths of a tree and their prefixes.
LEMMA PrefixProps ==
  ASSUME NEW S, NEW p \in Seq(S), p # <<>>
  PROVE  /\ Len(p) \in Nat \ {0} /\ Front(p) = SubSeq(p, 1, Len(p) - 1)
         /\ \A n \in 1 .. Len(p) :
              /\ SubSeq(p, 1, n) \in Seq(S) \ {<<>>} /\ Len(SubSeq(p, 1, n)) = n
              /\ \A m \in 1 .. n : SubSeq(SubSeq(p, 1, n), 1, m) = SubSeq(p, 1, m)
<1>1. Len(p) \in Nat \ {0} /\ Front(p) = SubSeq(p, 1, Len(p) - 1)
  BY DEF Front
<1>2. ASSUME NEW n \in 1 .. Len(p)
      PROVE  /\ SubSeq(p, 1, n) \in Seq(S) \ {<<>>} /\ Len(SubSeq(p, 1, n)) = n
             /\ \A m \in 1 .. n : SubSeq(SubSeq(p, 1, n), 1, m) = SubSeq(p, 1, m)
  BY <1>1
<1> QED
  BY <1>1, <1>2

\* create_dir_all makes every directory on the way; without it, or if the parent
\* is none, nothing is opened.  (fs_write.rs: invoke.)
LEMMA OpenDirs ==
  ASSUME FilesTyped, Tree, NEW x \in Actors, WriteOpen(x)
  PROVE  /\ dirs \subseteq dirs' /\ dirs' \subseteq Seq(Components) \ {<<>>}
         /\ \A d \in dirs' : \A n \in 1 .. Len(d) : SubSeq(d, 1, n) \in dirs'
         /\ act'[x].stage = "opened" => (Prefixed(Target(x)))'
<1> DEFINE path == Target(x)
<1>1. /\ act[x] # None /\ act[x].req.tool = "write_file"
      /\ act'[x].path = act[x].path
  BY OpenProps DEF Opened, SameCall
<1>2. path \in Seq(Components) /\ path # <<>>
  BY <1>1, WriterProps, TreeAssumption
<1>3. /\ Len(path) \in Nat \ {0} /\ Front(path) = SubSeq(path, 1, Len(path) - 1)
      /\ \A n \in 1 .. Len(path) :
           /\ SubSeq(path, 1, n) \in Seq(Components) \ {<<>>} /\ Len(SubSeq(path, 1, n)) = n
           /\ \A m \in 1 .. n : SubSeq(SubSeq(path, 1, n), 1, m) = SubSeq(path, 1, m)
  BY <1>2, PrefixProps
<1>4. dirs' = dirs \/ dirs' = dirs \cup {SubSeq(path, 1, n) : n \in 1 .. (Len(path) - 1)}
  BY DEF WriteOpen
<1>5. act'[x].stage = "opened" => Front(path) \in dirs'
  <2>1. CASE Done(x, Failed)
    <3>1. Failed \in Results
      BY DEF Results
    <3> QED
      BY <1>1, <2>1, <3>1, DoneProps
  <2> QED
    BY <2>1 DEF WriteOpen
<1> HIDE DEF path
<1>6. dirs \subseteq dirs' /\ dirs' \subseteq Seq(Components) \ {<<>>}
  BY <1>3, <1>4 DEF Tree
<1>7. \A d \in dirs' : \A n \in 1 .. Len(d) : SubSeq(d, 1, n) \in dirs'
  <2>1. CASE dirs' = dirs
    BY <2>1 DEF Tree
  <2>2. CASE dirs' = dirs \cup {SubSeq(path, 1, n) : n \in 1 .. (Len(path) - 1)}
    <3> SUFFICES ASSUME NEW d \in dirs', NEW n \in 1 .. Len(d), d \notin dirs
                 PROVE  SubSeq(d, 1, n) \in dirs'
      BY <2>2 DEF Tree
    <3>1. PICK k \in 1 .. (Len(path) - 1) : d = SubSeq(path, 1, k)
      BY <2>2
    <3>2. n \in 1 .. k /\ SubSeq(d, 1, n) = SubSeq(path, 1, n)
      BY <1>3, <3>1
    <3>3. n \in 1 .. (Len(path) - 1)
      BY <1>3, <3>1, <3>2
    <3> QED
      BY <2>2, <3>2, <3>3
  <2> QED
    BY <1>4, <2>1, <2>2
<1>8. ASSUME act'[x].stage = "opened", NEW n \in 1 .. Len(path) - 1
      PROVE  SubSeq(path, 1, n) \in dirs'
  <2> DEFINE parent == Front(path)
  <2>1. parent \in dirs' /\ Len(path) - 1 \in 1 .. Len(path)
    BY <1>3, <1>5, <1>8
  <2>2. Len(parent) = Len(path) - 1 /\ SubSeq(parent, 1, n) = SubSeq(path, 1, n)
    BY <1>3, <1>8, <2>1
  <2> QED
    BY <1>7, <1>8, <2>1, <2>2
<1>9. (Target(x))' = path
  BY <1>1 DEF Target, path
<1> QED
  BY <1>6, <1>7, <1>8, <1>9 DEF Prefixed

\* Directories are never removed, and a file is only ever put into one.
LEMMA TreeStep ==
  ASSUME SiblingsApart, WireTyped, FilesTyped, EntriesApart, Tree, [Next]_vars
  PROVE  Tree' /\ dirs \subseteq dirs'
<1>1. CASE UNCHANGED toolVars
  BY <1>1 DEF toolVars, Tree, Prefixed, Writing, Target, Exists
<1>2. ASSUME NEW x \in Actors, FileStep(x) PROVE Tree' /\ dirs \subseteq dirs'
  <2>1. ~WriteOpen(x) => dirs' = dirs
    BY <1>2, GrepProps, WriteProps DEF FileStep, LocalStep, CallStep, files
  <2>2. /\ dirs \subseteq dirs' /\ dirs' \subseteq Seq(Components) \ {<<>>}
        /\ \A d \in dirs' : \A n \in 1 .. Len(d) : SubSeq(d, 1, n) \in dirs'
    BY <2>1, OpenDirs DEF Tree
  <2>3. \A p : Prefixed(p) => Prefixed(p)'
    BY <2>2 DEF Prefixed
  <2>4. ASSUME OnlyActor(x), (Writing(x))' => (Prefixed(Target(x)))'
        PROVE  \A y \in Actors : (Writing(y))' => (Prefixed(Target(y)))'
    <3> SUFFICES ASSUME NEW y \in Actors, (Writing(y))', y # x
                 PROVE  (Prefixed(Target(y)))'
      BY <2>4
    <3>1. Writing(y) /\ (Target(y))' = Target(y)
      BY <2>4, OthersWrite
    <3>2. Prefixed(Target(y))
      BY <3>1 DEF Tree
    <3> QED
      BY <2>2, <3>1, <3>2 DEF Prefixed
  <2>5. ASSUME OnlyActor(x), SameCall(x), Writing(x) PROVE (Prefixed(Target(x)))'
    <3>1. Prefixed(Target(x)) /\ (Target(x))' = Target(x)
      BY <2>5 DEF Tree, SameCall, Target
    <3> QED
      BY <2>2, <3>1 DEF Prefixed
  <2>6. OnlyActor(x) /\ ((Writing(x))' => (Prefixed(Target(x)))')
    <3>1. CASE WriteOpen(x)
      BY <3>1, OpenProps, OpenDirs DEF Opened, Writing
    <3>2. CASE ~WriteOpen(x)
      <4>1. CASE Quiet(x) \/ Fills(x) \/ Renames(x) \/ Removes(x)
        BY <2>5, <4>1 DEF Quiet, Fills, Renames, Removes
      <4>2. CASE act[x] # None /\ ~Writing(x) /\ \E h \in Nat : Opened(x, h)
        <5>1. CASE LocalStep(x)
          BY <5>1 DEF LocalStep
        <5>2. CASE CallStep(x)
          BY <5>2, CallProps DEF CallStep, Writing
        <5>3. CASE GrepStart(x) \/ GrepScan(x) \/ GrepSkips(x)
          BY <5>3, GrepProps DEF Writing
        <5>4. CASE WriteFill(x) \/ WriteRename(x) \/ WriteCleanup(x)
          BY <4>2, <5>4, WriteProps
        <5> QED
          BY <1>2, <3>2, <5>1, <5>2, <5>3, <5>4 DEF FileStep
      <4> QED
        BY <1>2, <4>1, <4>2, FiveKinds
    <3> QED
      BY <3>1, <3>2
  <2>7. ASSUME NEW p \in Targets, entry'[p] # 0
        PROVE  (Prefixed(p))'
    <3>1. p \in AllPaths
      BY DEF AllPaths
    <3>2. Exists(p) \/ (Renames(x) /\ p = Target(x))
      <4>1. CASE Quiet(x) \/ Fills(x)
        BY <2>7, <4>1 DEF Quiet, Fills, Exists
      <4>2. CASE act[x] # None /\ act[x].req.tool = "write_file" /\ \E h \in Nat : Opened(x, h)
        BY <2>7, <3>1, <4>2, ApartProps DEF Opened, FilesTyped, Exists
      <4>3. CASE Renames(x) \/ Removes(x)
        <5>1. p # Sibling(x)
          BY <4>3, ApartProps DEF Renames, Removes, Writing
        <5> QED
          BY <2>7, <3>1, <4>3, <5>1 DEF Renames, Removes, FilesTyped, Exists
      <4> QED
        BY <1>2, <4>1, <4>2, <4>3, FiveKinds
    <3>3. Prefixed(p)
      BY <3>2 DEF Tree, Renames
    <3> QED
      BY <2>2, <3>3 DEF Prefixed
  <2> QED
    BY <2>2, <2>4, <2>6, <2>7 DEF Tree, Exists
<1>3. ASSUME NEW p \in Targets, Shells(p) PROVE Tree' /\ dirs \subseteq dirs'
  <2>1. UNCHANGED <<dirs, act>>
    BY <1>3 DEF Shells
  <2>2. \A y \in Actors : (Writing(y))' => (Prefixed(Target(y)))'
    BY <2>1 DEF Tree, Writing, Prefixed, Target
  <2>3. ASSUME NEW q \in Targets, entry'[q] # 0 PROVE Prefixed(q)
    <3>1. CASE Exists(q)
      BY <3>1 DEF Tree
    <3>2. CASE ~Exists(q)
      <4>1. q = p /\ Front(p) \in dirs
        BY <1>3, <2>3, <3>2 DEF Shells, Exists, AllPaths
      <4>2. q \in Seq(Components) /\ q # <<>>
        BY TreeAssumption
      <4>3. /\ Len(q) \in Nat \ {0} /\ Front(q) = SubSeq(q, 1, Len(q) - 1)
            /\ \A n \in 1 .. Len(q) :
                 /\ Len(SubSeq(q, 1, n)) = n
                 /\ \A m \in 1 .. n : SubSeq(SubSeq(q, 1, n), 1, m) = SubSeq(q, 1, m)
        BY <4>2, PrefixProps
      <4> SUFFICES ASSUME NEW n \in 1 .. Len(q) - 1 PROVE SubSeq(q, 1, n) \in dirs
        BY DEF Prefixed
      <4>4. Len(q) - 1 \in 1 .. Len(q) /\ Len(Front(q)) = Len(q) - 1
        BY <4>3
      <4>5. SubSeq(q, 1, n) = SubSeq(Front(q), 1, n)
        BY <4>3, <4>4
      <4> QED
        BY <4>1, <4>4, <4>5 DEF Tree
    <3> QED
      BY <3>1, <3>2
  <2> QED
    BY <2>1, <2>2, <2>3 DEF Tree, Exists, Prefixed
<1> QED
  BY <1>1, <1>2, <1>3, StepKinds

\* A step leaves a settled inode its only name, if it is still there, and its
\* text, unless a shell can reach it.
LEMMA SettledKept ==
  ASSUME SiblingsApart, FilesTyped, FilesTyped',
         NEW b \in Befores, Settled(b),
         (\E x \in Actors : FileStep(x)) \/ (\E p \in Targets : Shells(p))
  PROVE  /\ Settled(b)'
         /\ \A p \in DOMAIN b : entry'[p] = b[p] => entry[p] = b[p]
<1>0. /\ DOMAIN b \subseteq Targets /\ Targets \subseteq AllPaths /\ Len(inode) \in Nat
      /\ \A q \in Targets : TmpPath(q) \in AllPaths /\ TmpPath(q) \notin Targets
  BY SiblingsNoTargets DEF Befores, AllPaths, FilesTyped
<1>r. reached \subseteq reached'
  BY ReachGrows DEF Reaches, Shells
<1>6. ASSUME Len(inode') \in Nat, Len(inode') >= Len(inode),
             \A p \in DOMAIN b : p \notin reached /\ inode'[b[p]] # inode[b[p]] =>
               inode'[b[p]] \notin Binary \cup {Empty},
             \A q \in AllPaths : entry'[q] # entry[q] => \A p \in DOMAIN b : entry'[q] # b[p]
      PROVE  /\ Settled(b)'
             /\ \A p \in DOMAIN b : entry'[p] = b[p] => entry[p] = b[p]
  <2>1. \A p \in DOMAIN b : entry'[p] = b[p] => entry[p] = b[p]
    BY <1>0, <1>6
  <2>2. ASSUME NEW p \in DOMAIN b
        PROVE  /\ b[p] \in 1 .. Len(inode')
               /\ p \notin reached' => inode'[b[p]] \notin Binary \cup {Empty}
               /\ \A q \in AllPaths : entry'[q] = b[p] => q = p
    <3>1. b[p] \in 1 .. Len(inode')
      BY <1>0, <1>6 DEF Settled
    <3>2. p \notin reached' => inode'[b[p]] \notin Binary \cup {Empty}
      BY <1>r, <1>6 DEF Settled
    <3>3. \A q \in AllPaths : entry'[q] = b[p] => q = p
      BY <1>6 DEF Settled
    <3> QED
      BY <3>1, <3>2, <3>3
  <2> QED
    BY <2>1, <2>2 DEF Settled
<1>1. ASSUME NEW x \in Actors, Quiet(x)
      PROVE  Settled(b)' /\ \A p \in DOMAIN b : entry'[p] = b[p] => entry[p] = b[p]
  BY <1>0, <1>1, <1>6 DEF Quiet
<1>2. ASSUME NEW x \in Actors, act[x] # None, act[x].req.tool = "write_file",
             \E h \in Nat : Opened(x, h)
      PROVE  Settled(b)' /\ \A p \in DOMAIN b : entry'[p] = b[p] => entry[p] = b[p]
  <2>1. PICK h \in Nat : Opened(x, h)
    BY <1>2
  <2>2. /\ Target(x) \in Targets /\ Sibling(x) = TmpPath(Target(x))
        /\ Sibling(x) \in AllPaths /\ Sibling(x) \notin Targets
    BY <1>0, <1>2, WriterProps DEF Sibling
  <2>3. \A p \in DOMAIN b : b[p] # h /\ b[p] \in 1 .. Len(inode)
    BY <1>0, <2>1, <2>2 DEF Settled, Opened
  <2>4. \A q \in AllPaths : entry'[q] = entry[q] \/ entry'[q] = h
    BY <2>1, <2>2 DEF Opened, FilesTyped
  <2>5. Len(inode') \in Nat /\ Len(inode') >= Len(inode)
        /\ \A i \in 1 .. Len(inode) : i # h => inode'[i] = inode[i]
    BY <2>1 DEF Opened, FilesTyped
  <2> QED
    BY <1>6, <2>3, <2>4, <2>5
<1>3. ASSUME NEW x \in Actors, Fills(x)
      PROVE  Settled(b)' /\ \A p \in DOMAIN b : entry'[p] = b[p] => entry[p] = b[p]
  <2>1. /\ act[x].handle \in 1 .. Len(inode) /\ inode \in Seq(Contents)
        /\ act[x].req.text \notin Binary \cup {Empty}
    BY <1>3, WriterProps, ContentsAssumption DEF Fills, Writing, FilesTyped
  <2>2. /\ Len(inode') = Len(inode)
        /\ \A i \in 1 .. Len(inode) : inode'[i] \in {inode[i], act[x].req.text}
    BY <1>3, <2>1 DEF Fills
  <2>3. \A p \in DOMAIN b : b[p] \in 1 .. Len(inode)
    BY DEF Settled
  <2>4. entry' = entry
    BY <1>3 DEF Fills
  <2>5. \A p \in DOMAIN b : inode'[b[p]] # inode[b[p]] => inode'[b[p]] = act[x].req.text
    BY <2>2, <2>3
  <2> QED
    BY <1>0, <1>6, <2>1, <2>2, <2>4, <2>5
<1>4. ASSUME NEW x \in Actors, Renames(x) \/ Removes(x)
      PROVE  Settled(b)' /\ \A p \in DOMAIN b : entry'[p] = b[p] => entry[p] = b[p]
  <2>1. /\ Target(x) \in Targets /\ Sibling(x) = TmpPath(Target(x))
        /\ Sibling(x) \in AllPaths /\ Sibling(x) \notin Targets
    BY <1>0, <1>4, WriterProps DEF Sibling, Renames, Removes, Writing
  <2>2. inode' = inode
    BY <1>4 DEF Renames, Removes
  <2>3. \A q \in AllPaths : entry'[q] \in {entry[q], entry[Sibling(x)], 0}
    BY <1>4, <2>1 DEF Renames, Removes, FilesTyped
  <2>4. \A p \in DOMAIN b : b[p] # 0 /\ b[p] # entry[Sibling(x)]
    BY <1>0, <2>1 DEF Settled
  <2> QED
    BY <1>0, <1>6, <2>2, <2>3, <2>4
<1>5. ASSUME NEW p \in Targets, Shells(p)
      PROVE  Settled(b)' /\ \A q \in DOMAIN b : entry'[q] = b[q] => entry[q] = b[q]
  <2>1. /\ p \in AllPaths /\ p \in reached /\ Len(inode') \in Nat /\ Len(inode') >= Len(inode)
        /\ \A i \in 1 .. Len(inode) : i # entry[p] => inode'[i] = inode[i]
        /\ \A q \in AllPaths : q # p => entry'[q] = entry[q]
        /\ entry'[p] \in {entry[p], 0, Len(inode) + 1}
    BY <1>5 DEF Shells
  <2>2. \A q \in DOMAIN b : b[q] \in 1 .. Len(inode) /\ (entry[p] = b[q] => q = p)
    BY <2>1 DEF Settled
  <2>3. \A q \in DOMAIN b : b[q] \notin {0, Len(inode) + 1}
    BY <1>0, <2>2
  <2> QED
    BY <1>6, <2>1, <2>2, <2>3
<1> QED
  BY <1>1, <1>2, <1>3, <1>4, <1>5, FiveKinds

\* A walk that begins has everything to do: below a directory are the paths that
\* it is a prefix of, and a path that is none has nothing below.
\* (fs_grep.rs: walk.)
LEMMA UnderAll ==
  ASSUME FilesTyped, Tree, NEW root \in Targets, NEW p \in Targets, Exists(p),
         Searched(root, p)
  PROVE  p \in Under(root)
<1>1. CASE root \in dirs
  BY <1>1 DEF Under, AllPaths
<1>2. CASE root \notin dirs
  <2>1. /\ root \in Seq(Components) /\ root # <<>>
        /\ p \in Seq(Components) /\ p # <<>>
    BY TreeAssumption
  <2>2. /\ Len(root) \in Nat \ {0} /\ Len(p) \in Nat \ {0} /\ Len(root) <= Len(p)
        /\ root = SubSeq(p, 1, Len(root))
    BY <2>1 DEF IsPrefix, Searched
  <2>3. Prefixed(p)
    BY DEF Tree
  <2>4. Len(root) = Len(p)
    <3>1. Len(root) \notin 1 .. Len(p) - 1
      <4> SUFFICES ASSUME Len(root) \in 1 .. Len(p) - 1 PROVE FALSE
        OBVIOUS
      <4>1. SubSeq(p, 1, Len(root)) \in dirs
        BY <2>3 DEF Prefixed
      <4> QED
        BY <1>2, <2>2, <4>1
    <3> QED
      BY <2>2, <3>1
  <2>5. root = p
    BY <2>1, <2>2, <2>4
  <2> QED
    BY <1>2, <2>5 DEF Under
<1> QED
  BY <1>1, <1>2

LEMMA GrepKnowsStep ==
  ASSUME SiblingsApart, WireTyped, FilesTyped, FilesTyped', EntriesApart, Tree, GrepKnows,
         [Next]_vars
  PROVE  GrepKnows'
<1>1. CASE UNCHANGED toolVars
  BY <1>1 DEF toolVars, GrepKnows, Settled, Unseen
<1>2. ASSUME NEW x \in Actors, FileStep(x) PROVE GrepKnows'
  <2>1. ASSUME NEW y \in Actors, act[y] # None
        PROVE  /\ act[y].before \in Befores
               /\ Settled(act[y].before)
               /\ act[y].req.tool = "grep" => Unseen(act[y])
    BY <2>1 DEF FilesTyped, ActRecord, GrepKnows
  <2>2. ASSUME NEW b \in Befores, Settled(b)
        PROVE  /\ Settled(b)'
               /\ \A p \in DOMAIN b : entry'[p] = b[p] => entry[p] = b[p]
    BY <1>2, <2>2, SettledKept
  <2>r. reached \subseteq reached'
    BY <1>2, ReachGrows DEF Reaches
  <2>3. ASSUME OnlyActor(x), NEW a, act'[x] = a,
               a # None => /\ a.stage = "start" => DOMAIN a.before = {}
                           /\ Settled(a.before)'
                           /\ a.req.tool = "grep" => Unseen(a)'
        PROVE  GrepKnows'
    <3>1. ASSUME NEW y \in Actors, y # x, act[y] # None
          PROVE  (/\ act[y].stage = "start" => DOMAIN act[y].before = {}
                  /\ Settled(act[y].before)
                  /\ act[y].req.tool = "grep" => Unseen(act[y]))'
      <4>1. PICK o : o = act[y]
        OBVIOUS
      <4>2. act'[y] = o
        BY <2>3, <3>1, <4>1 DEF OnlyActor
      <4>3. Settled(o.before)' /\ (o.req.tool = "grep" => Unseen(o)')
        BY <2>1, <2>2, <2>r, <3>1, <4>1 DEF Unseen
      <4>4. o.stage = "start" => DOMAIN o.before = {}
        BY <3>1, <4>1 DEF GrepKnows
      <4> QED
        BY <4>2, <4>3, <4>4 DEF Settled, Unseen
    <3>2. act'[x] # None =>
            (/\ act[x].stage = "start" => DOMAIN act[x].before = {}
             /\ Settled(act[x].before)
             /\ act[x].req.tool = "grep" => Unseen(act[x]))'
      BY <2>3 DEF Settled, Unseen
    <3> QED
      BY <2>3, <3>1, <3>2 DEF GrepKnows, OnlyActor
  <2>4. PICK a : a = act'[x]
    OBVIOUS
  <2>5. PICK o : o = act[x]
    OBVIOUS
  <2>6. ASSUME act[x] # None, OnlyActor(x), SameCall(x), a.stage # "start",
               a.req.tool = "grep" /\ a.stage = "done" /\ a.result.ok
                 /\ ~a.result.truncated => o.todo = {}
        PROVE  GrepKnows'
    <3>1. /\ a.req = o.req /\ a.path = o.path /\ a.todo = o.todo /\ a.found = o.found
          /\ a.before = o.before
      BY <2>4, <2>5, <2>6 DEF SameCall
    <3>2. /\ Settled(o.before)'
          /\ \A p \in DOMAIN o.before : entry'[p] = o.before[p] => entry[p] = o.before[p]
          /\ o.req.tool = "grep" => Unseen(o)
      BY <2>1, <2>2, <2>5, <2>6
    <3>3. Settled(a.before)'
      BY <3>1, <3>2
    <3>4. a.req.tool = "grep" => Unseen(a)'
      BY <2>6, <2>r, <3>1, <3>2 DEF Unseen
    <3> QED
      BY <2>3, <2>4, <2>6, <3>3, <3>4
  <2>7. CASE LocalStep(x)
    BY <2>4, <2>5, <2>6, <2>7 DEF LocalStep, SameCall
  <2>8. CASE CallStep(x)
    <3>1. a # None => /\ a.stage = "start" /\ DOMAIN a.before = {}
      BY <2>4, <2>8, CallProps DEF CallStep
    <3> QED
      BY <2>3, <2>4, <2>8, <3>1 DEF CallStep, Settled, Unseen
  <2>9. CASE WriteOpen(x)
    BY <2>4, <2>5, <2>6, <2>9, OpenProps DEF Opened, SameCall
  <2>10. CASE WriteFill(x) \/ WriteRename(x) \/ WriteCleanup(x)
    BY <2>4, <2>5, <2>6, <2>10, WriteProps DEF SameCall
  <2>11. CASE GrepStart(x)
    <3>1. /\ OnlyActor(x) /\ a.stage = "walk" /\ a.path = Target(x) /\ Target(x) \in Targets
          /\ UNCHANGED <<files, reached>>
      BY <2>4, <2>11, GrepProps DEF Target
    <3> DEFINE b == [p \in {q \in Targets : HasMatch(q)} |-> entry[p]]
    <3>2. a.todo = Under(Target(x)) /\ a.before = b
      <4>1. /\ act[x] \in ActRecord
            /\ act' = [act EXCEPT ![x].stage = "walk", ![x].todo = Under(Target(x)),
                                  ![x].before = b]
        BY <2>11 DEF GrepStart, FilesTyped, Starts, At
      <4> HIDE DEF b
      <4> QED
        BY <2>4, <4>1 DEF FilesTyped, ActRecord
    <3>3. ASSUME NEW p \in DOMAIN a.before
          PROVE  /\ p \in Targets /\ Exists(p) /\ Content(p) \notin Binary \cup {Empty}
                 /\ a.before[p] = entry[p]
      BY <3>2, <3>3 DEF HasMatch
    <3>4. Settled(a.before)
      <4> SUFFICES ASSUME NEW p \in DOMAIN a.before
                   PROVE  /\ a.before[p] \in 1 .. Len(inode)
                          /\ inode[a.before[p]] \notin Binary \cup {Empty}
                          /\ \A q \in AllPaths : entry[q] = a.before[p] => q = p
        BY DEF Settled
      <4>1. p \in Targets /\ Exists(p) /\ Content(p) \notin Binary \cup {Empty}
            /\ a.before[p] = entry[p]
        BY <3>3
      <4>2. a.before[p] \in 1 .. Len(inode) /\ inode[a.before[p]] \notin Binary \cup {Empty}
        BY <4>1 DEF FilesTyped, AllPaths, Exists, Content
      <4>3. \A q \in AllPaths : entry[q] = a.before[p] => q = p
        BY <4>1 DEF EntriesApart, AllPaths, Exists
      <4> QED
        BY <4>2, <4>3
    <3>5. Unseen(a)
      BY <3>1, <3>2, <3>3, UnderAll DEF Unseen
    <3>6. Settled(a.before)' /\ Unseen(a)'
      BY <3>1, <3>4, <3>5 DEF Settled, Unseen, files
    <3> QED
      BY <2>3, <2>4, <3>1, <3>6
  <2>12. CASE GrepScan(x)
    <3>1. /\ OnlyActor(x) /\ a.stage = "walk" /\ act[x] # None /\ act[x].req.tool = "grep"
          /\ UNCHANGED <<files, reached>>
      BY <2>4, <2>12, GrepProps
    <3>2. PICK p \in act[x].todo :
            act' = [act EXCEPT ![x].todo = @ \ {p},
                               ![x].found = IF HasMatch(p) THEN @ \cup {p} ELSE @]
      BY <2>12 DEF GrepScan
    <3>3. /\ a.todo = o.todo \ {p} /\ a.path = o.path /\ a.before = o.before
          /\ a.found = IF HasMatch(p) THEN o.found \cup {p} ELSE o.found
      BY <2>4, <2>5, <3>1, <3>2 DEF FilesTyped, ActRecord
    <3>4. Settled(o.before) /\ Unseen(o) /\ o.before \in Befores
      BY <2>1, <2>5, <3>1
    <3>5. p \in DOMAIN o.before \ reached /\ entry[p] = o.before[p] => HasMatch(p)
      BY <3>4 DEF Settled, HasMatch, Exists, Content
    <3>6. Unseen(a)
      <4> SUFFICES ASSUME NEW q \in DOMAIN a.before \ reached, Searched(a.path, q),
                          entry[q] = a.before[q]
                   PROVE  q \in a.todo \cup a.found
        BY <3>1 DEF Unseen
      <4>1. q \in o.todo \cup o.found
        BY <3>3, <3>4 DEF Unseen
      <4> QED
        BY <3>3, <3>5, <4>1
    <3>7. Settled(a.before)' /\ Unseen(a)'
      BY <3>1, <3>3, <3>4, <3>6 DEF Settled, Unseen, files
    <3> QED
      BY <2>3, <2>4, <3>1, <3>7
  <2>13. CASE GrepSkips(x)
    <3>1. /\ OnlyActor(x) /\ a.stage = "walk" /\ act[x] # None /\ act[x].req.tool = "grep"
          /\ UNCHANGED <<files, reached>>
      BY <2>4, <2>13, GrepProps
    <3>2. PICK p \in act[x].todo :
            act' = [act EXCEPT ![x].todo = @ \ {p},
                               ![x].before = [q \in DOMAIN @ \ {p} |-> @[q]]]
      BY <2>13 DEF GrepSkips
    <3>3. /\ a.todo = o.todo \ {p} /\ a.path = o.path /\ a.found = o.found
          /\ a.before = [q \in DOMAIN o.before \ {p} |-> o.before[q]]
      <4>1. PICK b : b = [q \in DOMAIN o.before \ {p} |-> o.before[q]]
        OBVIOUS
      <4>2. act' = [act EXCEPT ![x].todo = @ \ {p}, ![x].before = b]
        BY <2>5, <3>2, <4>1
      <4>3. a.todo = o.todo \ {p} /\ a.path = o.path /\ a.found = o.found /\ a.before = b
        BY <2>4, <2>5, <3>1, <4>2 DEF FilesTyped, ActRecord
      <4> QED
        BY <4>1, <4>3
    <3>4. Settled(o.before) /\ Unseen(o)
      BY <2>1, <2>5, <3>1
    <3>5. Settled(a.before)
      BY <3>3, <3>4 DEF Settled
    <3>6. Unseen(a)
      <4> SUFFICES ASSUME NEW q \in DOMAIN a.before \ reached, Searched(a.path, q),
                          entry[q] = a.before[q]
                   PROVE  q \in a.todo \cup a.found
        BY <3>1 DEF Unseen
      <4>1. q # p /\ q \in DOMAIN o.before \ reached /\ entry[q] = o.before[q]
        BY <3>3
      <4> QED
        BY <3>3, <3>4, <4>1 DEF Unseen
    <3>7. Settled(a.before)' /\ Unseen(a)'
      BY <3>1, <3>5, <3>6 DEF Settled, Unseen, files
    <3> QED
      BY <2>3, <2>4, <3>1, <3>7
  <2> QED
    BY <1>2, <2>7, <2>8, <2>9, <2>10, <2>11, <2>12, <2>13 DEF FileStep
<1>3. ASSUME NEW p \in Targets, Shells(p) PROVE GrepKnows'
  <2>1. act' = act /\ reached' = reached
    BY <1>3 DEF Shells
  <2>2. ASSUME NEW y \in Actors, act[y] # None
        PROVE  (/\ act[y].stage = "start" => DOMAIN act[y].before = {}
                /\ Settled(act[y].before)
                /\ act[y].req.tool = "grep" => Unseen(act[y]))'
    <3>1. PICK o : o = act[y]
      OBVIOUS
    <3>2. /\ o.before \in Befores /\ Settled(o.before)
          /\ o.stage = "start" => DOMAIN o.before = {}
          /\ o.req.tool = "grep" => Unseen(o)
      BY <2>2, <3>1 DEF FilesTyped, ActRecord, GrepKnows
    <3>3. /\ Settled(o.before)'
          /\ \A q \in DOMAIN o.before : entry'[q] = o.before[q] => entry[q] = o.before[q]
      BY <1>3, <3>2, SettledKept
    <3>4. (o.req.tool = "grep" => Unseen(o)')
      BY <2>1, <3>2, <3>3 DEF Unseen
    <3> QED
      BY <2>1, <3>1, <3>2, <3>3, <3>4 DEF Settled, Unseen
  <2> QED
    BY <2>1, <2>2 DEF GrepKnows
<1> QED
  BY <1>1, <1>2, <1>3, StepKinds

-----------------------------------------------------------------------------
(* The sandbox *)

Marks == Characters \cup {"/", ".."}

\* The text of a path is built component by component.
LEMMA NormalizedProps ==
  ASSUME NEW p \in Seq(Seq(Characters))
  PROVE  /\ Normalized(p) \in [0 .. Len(p) -> Seq(Marks)] /\ Normalized(p)[0] = <<>>
         /\ \A n \in 1 .. Len(p) : Normalized(p)[n] = Pushed(Normalized(p)[n - 1], p[n])
<1> DEFINE k == Len(p)
           S == Seq(Marks)
           next == [n \in 1 .. k |-> [t \in S |-> Pushed(t, p[n])]]
           value(g, n) == IF n = 0 THEN <<>> ELSE Pushed(g[n - 1], p[n])
           Fits(g) == g = [n \in 0 .. k |-> value(g, n)]
<1>1. k \in Nat /\ \A n \in 1 .. k : p[n] \in Seq(Characters)
  OBVIOUS
<1>2. Normalized(p) = CHOOSE g : Fits(g)
  BY DEF Normalized
<1>3. ASSUME NEW t \in S, NEW c \in Seq(Characters) PROVE Pushed(t, c) \in S
  <2>1. c \in S
    BY DEF Marks
  <2>2. Append(t, "/") \in S /\ t \o <<"..", "/">> \in S
    BY DEF Marks
  <2>3. /\ (IF t # <<>> /\ Last(t) # "/" THEN Append(t, "/") ELSE t) \in S
        /\ (IF t # <<>> /\ Last(t) # "/" THEN Append(t, "/") ELSE t) \o c \in S
    BY <2>1, <2>2
  <2> QED
    BY <2>2, <2>3 DEF Pushed
<1> HIDE DEF k
<1>4. <<>> \in S /\ next \in [1 .. k -> [S -> S]]
  <2>1. ASSUME NEW n \in 1 .. k PROVE [t \in S |-> Pushed(t, p[n])] \in [S -> S]
    BY <1>1, <1>3
  <2> QED
    BY <2>1
<1> HIDE DEF S
<1>5. PICK g \in [0 .. k -> S] : g[0] = <<>> /\ \A n \in 1 .. k : g[n] = next[n][g[n - 1]]
  <2> HIDE DEF next
  <2>1. PICK g : Recursion(g, k, S, <<>>, next)
    BY <1>1, <1>4, RecursionExists
  <2> QED
    BY <2>1 DEF Recursion
<1>6. Fits(g)
  <2>1. ASSUME NEW n \in 0 .. k PROVE g[n] = value(g, n)
    <3>1. CASE n = 0
      BY <1>5, <3>1
    <3>2. CASE n # 0
      <4>1. n \in 1 .. k /\ n - 1 \in 0 .. k
        BY <1>1, <3>2
      <4>2. g[n - 1] \in S
        BY <4>1
      <4> QED
        BY <1>5, <3>2, <4>1, <4>2
    <3> QED
      BY <3>1, <3>2
  <2>2. g = [n \in 0 .. k |-> g[n]]
    OBVIOUS
  <2> HIDE DEF value
  <2> QED
    BY <2>1, <2>2
<1>7. PICK f : f = Normalized(p)
  OBVIOUS
<1>8. Fits(f)
  <2> HIDE DEF Fits
  <2> QED
    BY <1>2, <1>6, <1>7
<1>9. f[0] = <<>> /\ \A n \in 1 .. k : f[n] = Pushed(f[n - 1], p[n])
  BY <1>1, <1>8
<1> DEFINE T == {n \in Nat : f[n] \in S}
<1>10. ASSUME NEW n \in 0 .. k, n < k, n \in T PROVE n + 1 \in T
  <2>1. n + 1 \in 1 .. k /\ (n + 1) - 1 = n /\ n + 1 \in Nat
    BY <1>1, <1>10
  <2>2. f[n + 1] = Pushed(f[n], p[n + 1]) /\ p[n + 1] \in Seq(Characters)
    BY <1>1, <1>9, <2>1
  <2> QED
    BY <1>3, <1>10, <2>1, <2>2 DEF S
<1>11. 0 .. k \subseteq T
  <2>1. 0 \in T
    BY <1>4, <1>9
  <2> HIDE DEF T
  <2> QED
    BY <1>1, <1>10, <2>1, Climb
<1>12. f \in [0 .. k -> S]
  BY <1>8, <1>11
<1> QED
  BY <1>7, <1>9, <1>12 DEF k, S

\* The text of a path that does not begin with the root does not either.
LEMMA RelativeText ==
  ASSUME NEW p \in Seq(Seq(Characters)), p # <<>>, IsPath(p), p[1] # Slash
  PROVE  LET t == NormalizePath(p) IN t = <<>> \/ t[1] # "/"
<1>1. PICK f \in [0 .. Len(p) -> Seq(Marks)] :
        /\ f[0] = <<>> /\ \A n \in 1 .. Len(p) : f[n] = Pushed(f[n - 1], p[n])
        /\ f = Normalized(p)
  BY NormalizedProps
<1>2. PICK k \in Nat : k = Len(p)
  OBVIOUS
<1> DEFINE T == {n \in Nat : f[n] = <<>> \/ f[n][1] # "/"}
<1>3. ASSUME NEW n \in 0 .. k, n < k, n \in T PROVE n + 1 \in T
  <2>1. n + 1 \in 1 .. k /\ (n + 1) - 1 = n /\ n + 1 \in Nat
    BY <1>2, <1>3
  <2>2. f[n + 1] = Pushed(f[n], p[n + 1]) /\ f[n] \in Seq(Marks)
    BY <1>1, <1>2, <2>1
  <2>3. PICK c \in Seq(Characters) : c = p[n + 1]
    BY <1>2, <2>1
  <2>4. c = Dot \/ (c # <<>> /\ "/" \notin Range(c))
    <3>1. n + 1 \in DOMAIN p
      BY <1>2, <2>1
    <3> QED
      BY <2>3, <3>1 DEF IsPath
  <2>5. PICK t \in Seq(Marks) : t = f[n] /\ (t = <<>> \/ t[1] # "/")
    BY <1>3, <2>2
  <2>6. ASSUME c # <<>>, "/" \notin Range(c)
        PROVE  Len(c) \in Nat \ {0} /\ c[1] # "/" /\ c # Slash
    <3>1. Len(c) \in Nat \ {0} /\ 1 \in DOMAIN c
      BY <2>6
    <3>2. c[1] # "/"
      BY <2>6, <3>1 DEF Range
    <3> QED
      BY <3>1, <3>2 DEF Slash
  <2> DEFINE v == Pushed(t, c)
  <2>7. CASE c = Dot
    <3>0. Dot # Slash /\ Dot # DotDot
      BY DEF Dot, DotDot, Slash
    <3>1. v = t
      BY <2>7, <3>0 DEF Pushed
    <3> QED
      BY <2>1, <2>2, <2>3, <2>5, <3>1
  <2>8. CASE c = DotDot
    <3>1. v = t \o <<"..", "/">>
      BY <2>8 DEF Pushed, DotDot, Dot, Slash
    <3>2. v[1] # "/"
      <4>1. CASE t = <<>>
        BY <3>1, <4>1
      <4>2. CASE t # <<>>
        <5>1. v[1] = t[1]
          BY <3>1, <4>2
        <5> QED
          BY <2>5, <4>2, <5>1
      <4> QED
        BY <4>1, <4>2
    <3> QED
      BY <2>1, <2>2, <2>3, <2>5, <3>2
  <2>9. CASE c \notin {Dot, DotDot}
    <3>1. /\ Len(c) \in Nat \ {0} /\ c[1] # "/"
          /\ v = (IF t # <<>> /\ Last(t) # "/" THEN Append(t, "/") ELSE t) \o c
      BY <2>4, <2>6, <2>9 DEF Pushed
    <3>2. CASE t = <<>>
      <4>1. v = <<>> \o c
        BY <3>1, <3>2
      <4>2. v[1] = c[1]
        BY <3>1, <4>1
      <4> QED
        BY <2>1, <2>2, <2>3, <2>5, <3>1, <4>2
    <3>3. CASE t # <<>>
      <4>1. c \in Seq(Marks)
        BY DEF Marks
      <4>2. PICK w \in Seq(Marks) : /\ w = t \/ w = Append(t, "/")
                                    /\ v = w \o c
        <5>1. Append(t, "/") \in Seq(Marks)
          BY DEF Marks
        <5> QED
          BY <3>1, <5>1
      <4>3. Len(w) \in Nat \ {0} /\ w[1] = t[1]
        <5>1. Len(t) \in Nat \ {0}
          BY <3>3
        <5>2. Len(Append(t, "/")) = Len(t) + 1 /\ Append(t, "/")[1] = t[1]
          BY <5>1
        <5>3. CASE w = t
          BY <5>1, <5>3
        <5>4. CASE w = Append(t, "/")
          BY <5>1, <5>2, <5>4
        <5> QED
          BY <4>2, <5>3, <5>4
      <4>4. v[1] = t[1]
        BY <3>1, <4>1, <4>2, <4>3
      <4> QED
        BY <2>1, <2>2, <2>3, <2>5, <3>3, <4>4
    <3> QED
      BY <3>2, <3>3
  <2> QED
    BY <2>7, <2>8, <2>9
<1>4. 0 .. k \subseteq T
  <2>1. 0 \in T
    BY <1>1
  <2> HIDE DEF T
  <2> QED
    BY <1>2, <1>3, <2>1, Climb
<1> QED
  BY <1>1, <1>2, <1>4 DEF NormalizePath

\* The beginnings of a text, each with a slash at its end; the n-th ends with the
\* n-th of the names a.
Lines(s, a, k) ==
  /\ s \in [1 .. k -> Seq(Marks)] /\ s[1] = <<"/">>
  /\ \A n \in 2 .. k : /\ a[n] \in Seq(Marks) /\ \A i \in 1 .. Len(a[n]) : a[n][i] # "/"
                       /\ s[n] = (s[n - 1] \o a[n]) \o <<"/">>

\* A line is the beginning of every later one.
LEMMA LinesGrow ==
  ASSUME NEW s, NEW a, NEW k \in Nat, Lines(s, a, k), NEW n \in 1 .. k
  PROVE  /\ s[n] \in Seq(Marks) /\ Len(s[n]) <= Len(s[k])
         /\ \A i \in 1 .. Len(s[n]) : s[k][i] = s[n][i]
<1> DEFINE T == {m \in Nat : /\ Len(s[n]) <= Len(s[m])
                             /\ \A i \in 1 .. Len(s[n]) : s[m][i] = s[n][i]}
<1>1. \A m \in 1 .. k : s[m] \in Seq(Marks)
  BY DEF Lines
<1>2. ASSUME NEW m \in n .. k, m < k, m \in T PROVE m + 1 \in T
  <2>1. m + 1 \in 2 .. k /\ (m + 1) - 1 = m /\ m + 1 \in Nat /\ m \in 1 .. k
    BY <1>2
  <2>2. PICK c \in Seq(Marks) : c = a[m + 1]
    BY <2>1 DEF Lines
  <2>3. PICK u \in Seq(Marks), v \in Seq(Marks) : u = s[m] /\ v = s[n]
    BY <1>1, <2>1
  <2>4. s[m + 1] = (u \o c) \o <<"/">>
    BY <2>1, <2>2, <2>3 DEF Lines
  <2>5. u \o c \in Seq(Marks) /\ Len(u \o c) = Len(u) + Len(c)
    OBVIOUS
  <2>6. /\ Len(s[m + 1]) = Len(u) + Len(c) + 1
        /\ \A i \in 1 .. Len(u) : s[m + 1][i] = u[i]
    BY <2>4, <2>5
  <2>7. Len(v) <= Len(u) /\ \A i \in 1 .. Len(v) : u[i] = v[i]
    BY <1>2, <2>3
  <2>8. Len(v) <= Len(s[m + 1]) /\ \A i \in 1 .. Len(v) : s[m + 1][i] = v[i]
    BY <2>6, <2>7
  <2> QED
    BY <2>1, <2>3, <2>8
<1>3. n .. k \subseteq T
  <2>1. n \in T /\ n \in Nat
    BY <1>1
  <2> HIDE DEF T
  <2> QED
    BY <1>2, <2>1, Climb
<1> QED
  BY <1>1, <1>3

\* Where a name is in the last line: a slash comes after it.
LEMMA NameInLine ==
  ASSUME NEW s, NEW a, NEW k \in Nat, Lines(s, a, k), NEW j \in 1 .. k, j < k
  PROVE  \E t \in Seq(Marks), v \in Seq(Marks), c \in Seq(Marks) :
           /\ t = s[k] /\ v = s[j] /\ c = a[j + 1]
           /\ Len(v) + Len(c) + 1 <= Len(t)
           /\ \A i \in 1 .. Len(c) : t[Len(v) + i] = c[i] /\ c[i] # "/"
           /\ t[Len(v) + Len(c) + 1] = "/"
<1>1. PICK n \in 2 .. k : n = j + 1 /\ n - 1 = j /\ n \in 1 .. k
  OBVIOUS
<1>2. PICK v \in Seq(Marks), c \in Seq(Marks) : v = s[n - 1] /\ c = a[n]
  BY <1>1 DEF Lines
<1>3. s[n] = (v \o c) \o <<"/">> /\ \A i \in 1 .. Len(c) : c[i] # "/"
  BY <1>2 DEF Lines
<1>4. /\ v \o c \in Seq(Marks) /\ Len(v \o c) = Len(v) + Len(c)
      /\ \A i \in 1 .. Len(c) : (v \o c)[Len(v) + i] = c[i]
  OBVIOUS
<1>5. /\ Len(s[n]) = Len(v) + Len(c) + 1 /\ s[n][Len(v) + Len(c) + 1] = "/"
      /\ \A i \in 1 .. Len(v) + Len(c) : s[n][i] = (v \o c)[i]
  BY <1>3, <1>4
<1>6. ASSUME NEW i \in 1 .. Len(c) PROVE s[n][Len(v) + i] = c[i]
  <2>1. Len(v) + i \in 1 .. Len(v) + Len(c)
    OBVIOUS
  <2> QED
    BY <1>4, <1>5, <2>1
<1>7. /\ s[k] \in Seq(Marks) /\ Len(s[n]) <= Len(s[k])
      /\ \A i \in 1 .. Len(s[n]) : s[k][i] = s[n][i]
  <2>1. s[k] \in Seq(Marks)
    BY DEF Lines
  <2>2. Len(s[n]) <= Len(s[k]) /\ \A i \in 1 .. Len(s[n]) : s[k][i] = s[n][i]
    BY <1>1, LinesGrow
  <2> QED
    BY <2>1, <2>2
<1>8. /\ s[k][Len(v) + Len(c) + 1] = "/"
      /\ \A i \in 1 .. Len(c) : s[k][Len(v) + i] = c[i]
  BY <1>5, <1>6, <1>7
<1>9. Len(v) + Len(c) + 1 <= Len(s[k])
  BY <1>5, <1>7
<1>10. PICK t \in Seq(Marks) : t = s[k]
  BY <1>7
<1> QED
  BY <1>1, <1>2, <1>3, <1>8, <1>9, <1>10

\* If the last line of one path is the beginning of the last line of another,
\* so is the path.
LEMMA LinesTellNames ==
  ASSUME NEW s, NEW a, NEW k \in Nat \ {0}, Lines(s, a, k),
         NEW u, NEW c, NEW m \in Nat \ {0}, Lines(u, c, m),
         Len(s[k]) <= Len(u[m]), \A i \in 1 .. Len(s[k]) : u[m][i] = s[k][i]
  PROVE  k <= m /\ \A j \in 2 .. k : a[j] = c[j]
<1> DEFINE Same(j) == j <= m /\ s[j] = u[j] /\ \A i \in 2 .. j : a[i] = c[i]
           T == {j \in Nat : Same(j)}
<1>0. /\ k \in Nat /\ m \in Nat
      /\ \A n \in 1 .. k : s[n] \in Seq(Marks)
      /\ \A n \in 1 .. m : u[n] \in Seq(Marks)
  BY DEF Lines
<1>1. ASSUME NEW j \in 1 .. k, j < k, j \in T PROVE j + 1 \in T
  <2>1. j + 1 \in 2 .. k /\ (j + 1) - 1 = j /\ j \in 1 .. m /\ j \in 1 .. k
    BY <1>1
  <2>a. PICK w \in Seq(Marks) : w = u[m]
    BY <1>0
  <2>b. PICK t \in Seq(Marks), v \in Seq(Marks), p \in Seq(Marks) :
          /\ t = s[k] /\ v = s[j] /\ p = a[j + 1]
          /\ Len(v) + Len(p) + 1 <= Len(t)
          /\ \A i \in 1 .. Len(p) : t[Len(v) + i] = p[i] /\ p[i] # "/"
          /\ t[Len(v) + Len(p) + 1] = "/"
    <3>1. k \in Nat /\ j \in 1 .. k /\ j < k /\ Lines(s, a, k)
      BY <1>0, <1>1
    <3> QED
      BY <3>1, NameInLine
  <2>c. PICK l \in Nat : l = Len(v)
    OBVIOUS
  <2>2. /\ t = s[k] /\ w = u[m] /\ p = a[j + 1] /\ l = Len(s[j])
        /\ l + Len(p) + 1 <= Len(t)
        /\ \A i \in 1 .. Len(p) : t[l + i] = p[i] /\ p[i] # "/"
        /\ t[l + Len(p) + 1] = "/"
    BY <2>a, <2>b, <2>c
  <2>3. Len(t) <= Len(w) /\ \A i \in 1 .. Len(t) : w[i] = t[i]
    BY <2>2
  <2>4. j # m
    <3>1. CASE j = m
      <4>1. Len(s[j]) = Len(w)
        BY <1>1, <2>2, <3>1
      <4>2. l = Len(w) /\ l + Len(p) + 1 <= Len(t) /\ Len(t) <= Len(w)
        BY <2>2, <2>3, <4>1
      <4>3. Len(p) \in Nat /\ Len(t) \in Nat /\ Len(w) \in Nat
        OBVIOUS
      <4> QED
        BY <4>2, <4>3
    <3> QED
      BY <3>1
  <2>5. j + 1 \in 2 .. m
    BY <2>1, <2>4
  <2>6. PICK q \in Seq(Marks) :
          /\ q = c[j + 1]
          /\ l + Len(q) + 1 <= Len(w)
          /\ \A i \in 1 .. Len(q) : w[l + i] = q[i] /\ q[i] # "/"
          /\ w[l + Len(q) + 1] = "/"
    <3>1. Len(u[j]) = l /\ j < m
      BY <1>1, <2>1, <2>2, <2>4
    <3>2. PICK x \in Seq(Marks), d \in Seq(Marks), q \in Seq(Marks) :
            /\ x = u[m] /\ d = u[j] /\ q = c[j + 1]
            /\ Len(d) + Len(q) + 1 <= Len(x)
            /\ \A i \in 1 .. Len(q) : x[Len(d) + i] = q[i] /\ q[i] # "/"
            /\ x[Len(d) + Len(q) + 1] = "/"
      <4>1. m \in Nat /\ j \in 1 .. m /\ j < m /\ Lines(u, c, m)
        BY <1>0, <2>1, <3>1
      <4> QED
        BY <4>1, NameInLine
    <3>3. q = c[j + 1] /\ l + Len(q) + 1 <= Len(w) /\ w[l + Len(q) + 1] = "/"
      BY <2>2, <3>1, <3>2
    <3>4. \A i \in 1 .. Len(q) : w[l + i] = q[i] /\ q[i] # "/"
      BY <2>2, <3>1, <3>2
    <3> QED
      BY <3>3, <3>4
  <2>7. Len(p) \in Nat /\ Len(q) \in Nat /\ Len(t) \in Nat /\ Len(w) \in Nat
    OBVIOUS
  <2>8. ~ (Len(p) < Len(q))
    <3> SUFFICES ASSUME Len(p) < Len(q) PROVE FALSE
      OBVIOUS
    <3>1. Len(p) + 1 \in 1 .. Len(q) /\ l + Len(p) + 1 \in 1 .. Len(t)
      <4>1. l + Len(p) + 1 <= Len(t)
        BY <2>2
      <4> QED
        BY <2>7, <4>1
    <3>2. w[l + (Len(p) + 1)] = q[Len(p) + 1] /\ q[Len(p) + 1] # "/"
      BY <2>6, <3>1
    <3>3. l + (Len(p) + 1) = l + Len(p) + 1
      BY <2>7
    <3> QED
      BY <2>2, <2>3, <3>1, <3>2, <3>3
  <2>9. ~ (Len(q) < Len(p))
    <3> SUFFICES ASSUME Len(q) < Len(p) PROVE FALSE
      OBVIOUS
    <3>1. Len(q) + 1 \in 1 .. Len(p) /\ l + Len(q) + 1 \in 1 .. Len(t)
      <4>1. l + Len(p) + 1 <= Len(t)
        BY <2>2
      <4> QED
        BY <2>7, <4>1
    <3>2. t[l + (Len(q) + 1)] = p[Len(q) + 1] /\ p[Len(q) + 1] # "/"
      BY <2>2, <3>1
    <3>3. l + (Len(q) + 1) = l + Len(q) + 1
      BY <2>7
    <3> QED
      BY <2>3, <2>6, <3>1, <3>2, <3>3
  <2>10. ASSUME NEW i \in 1 .. Len(p) PROVE p[i] = q[i]
    <3>1. l + Len(p) + 1 <= Len(t)
      BY <2>2
    <3>2. i \in 1 .. Len(q) /\ l + i \in 1 .. Len(t)
      BY <2>7, <2>8, <2>9, <3>1
    <3>3. t[l + i] = p[i]
      BY <2>2
    <3>4. w[l + i] = q[i]
      BY <2>6, <3>2
    <3> QED
      BY <2>3, <3>2, <3>3, <3>4
  <2>11. p = q
    BY <2>7, <2>8, <2>9, <2>10
  <2>12. s[j + 1] = u[j + 1]
    <3>1. a[j + 1] = c[j + 1] /\ s[j] = u[j]
      BY <1>1, <2>2, <2>6, <2>11
    <3>2. /\ s[j + 1] = (s[j] \o a[j + 1]) \o <<"/">>
          /\ u[j + 1] = (u[j] \o c[j + 1]) \o <<"/">>
      BY <2>1, <2>5 DEF Lines
    <3> QED
      BY <3>1, <3>2
  <2>13. \A i \in 2 .. j + 1 : a[i] = c[i]
    <3>1. a[j + 1] = c[j + 1] /\ \A i \in 2 .. j : a[i] = c[i]
      BY <1>1, <2>2, <2>6, <2>11
    <3>2. \A i \in 2 .. j + 1 : i = j + 1 \/ i \in 2 .. j
      BY <2>1
    <3> QED
      BY <3>1, <3>2
  <2> QED
    BY <2>1, <2>5, <2>12, <2>13
<1>2. 1 .. k \subseteq T
  <2>1. 1 \in T
    <3>1. s[1] = u[1] /\ 1 <= m /\ 2 .. 1 = {}
      BY <1>0 DEF Lines
    <3> QED
      BY <3>1
  <2> HIDE DEF T
  <2> QED
    BY <1>1, <2>1, Climb
<1>3. k \in T
  <2> HIDE DEF T
  <2> QED
    BY <1>2
<1> QED
  BY <1>3

\* A path from the root, without dots.
Absolute(p) ==
  /\ p \in Seq(Seq(Characters)) /\ p # <<>> /\ p[1] = Slash
  /\ \A n \in 2 .. Len(p) : p[n] \notin {<<>>, Slash, Dot, DotDot} /\ "/" \notin Range(p[n])

\* The lines of a path from the root, and the last of them.
LEMMA LinesOfPath ==
  ASSUME NEW p, Absolute(p)
  PROVE  /\ \E s : /\ Lines(s, p, Len(p))
                   /\ s[Len(p)] = IF Len(p) = 1 THEN NormalizePath(p)
                                  ELSE Append(NormalizePath(p), "/")
         /\ NormalizePath(p) \in Seq(Marks) \ {<<>>} /\ NormalizePath(p)[1] = "/"
         /\ Len(p) > 1 => Last(NormalizePath(p)) # "/"
<1>1. PICK k \in Nat \ {0} : k = Len(p)
  BY DEF Absolute
<1>2. PICK f \in [0 .. k -> Seq(Marks)] :
        /\ f[0] = <<>> /\ \A n \in 1 .. k : f[n] = Pushed(f[n - 1], p[n])
        /\ f = Normalized(p)
  BY <1>1, NormalizedProps DEF Absolute
<1> DEFINE s == [n \in 1 .. k |-> IF n = 1 THEN f[1] ELSE Append(f[n], "/")]
<1>3. f[1] = <<"/">>
  <2>1. f[1] = Pushed(<<>>, Slash)
    BY <1>1, <1>2 DEF Absolute
  <2> QED
    BY <2>1 DEF Pushed, Slash
<1>4. s \in [1 .. k -> Seq(Marks)] /\ s[1] = <<"/">>
  <2>1. ASSUME NEW n \in 1 .. k PROVE s[n] \in Seq(Marks)
    <3>1. f[n] \in Seq(Marks)
      BY <1>1
    <3>2. Append(f[n], "/") \in Seq(Marks)
      BY <3>1 DEF Marks
    <3> QED
      BY <1>3, <3>1, <3>2
  <2> QED
    BY <1>1, <1>3, <2>1
<1>5. ASSUME NEW n \in 2 .. k
      PROVE  /\ p[n] \in Seq(Marks) /\ Len(p[n]) \in Nat \ {0}
             /\ \A i \in 1 .. Len(p[n]) : p[n][i] # "/"
             /\ f[n] = (IF f[n - 1] # <<>> /\ Last(f[n - 1]) # "/"
                        THEN Append(f[n - 1], "/") ELSE f[n - 1]) \o p[n]
             /\ f[n - 1] \in Seq(Marks)
  <2>1. /\ p[n] \in Seq(Characters) /\ p[n] \notin {<<>>, Slash, Dot, DotDot}
        /\ "/" \notin Range(p[n])
    BY <1>1 DEF Absolute
  <2>2. p[n] \in Seq(Marks) /\ Len(p[n]) \in Nat \ {0}
    BY <2>1 DEF Marks
  <2>3. \A i \in 1 .. Len(p[n]) : p[n][i] # "/"
    BY <2>1 DEF Range
  <2>4. f[n] = Pushed(f[n - 1], p[n]) /\ f[n - 1] \in Seq(Marks)
    BY <1>1, <1>2
  <2> QED
    BY <2>1, <2>2, <2>3, <2>4 DEF Pushed
<1>6. ASSUME NEW n \in 2 .. k PROVE f[n] # <<>> /\ Last(f[n]) # "/"
  <2>1. PICK w \in Seq(Marks) : f[n] = w \o p[n]
    <3>1. Append(f[n - 1], "/") \in Seq(Marks)
      BY <1>5 DEF Marks
    <3> QED
      BY <1>5, <3>1
  <2>2. PICK c \in Seq(Marks) : c = p[n]
    BY <1>5
  <2>3. Len(c) \in Nat \ {0} /\ c[Len(c)] # "/"
    <3>1. Len(c) \in Nat \ {0} /\ \A i \in 1 .. Len(c) : c[i] # "/"
      BY <1>5, <2>2
    <3>2. Len(c) \in 1 .. Len(c)
      BY <3>1
    <3> QED
      BY <3>1, <3>2
  <2>4. Len(w \o c) = Len(w) + Len(c) /\ (w \o c)[Len(w) + Len(c)] = c[Len(c)]
    BY <2>3
  <2> QED
    BY <2>1, <2>2, <2>3, <2>4 DEF Last
<1>7. ASSUME NEW n \in 2 .. k PROVE f[n] = s[n - 1] \o p[n]
  <2>1. CASE n = 2
    <3>1. f[n - 1] = <<"/">> /\ s[n - 1] = <<"/">>
      BY <1>1, <1>3, <2>1
    <3>2. Last(<<"/">>) = "/"
      BY DEF Last
    <3> QED
      BY <1>5, <3>1, <3>2
  <2>2. CASE n # 2
    <3>1. n - 1 \in 2 .. k /\ s[n - 1] = Append(f[n - 1], "/")
      BY <1>1, <2>2
    <3>2. f[n - 1] # <<>> /\ Last(f[n - 1]) # "/"
      BY <1>6, <3>1
    <3> QED
      BY <1>5, <3>1, <3>2
  <2> QED
    BY <2>1, <2>2
<1>8. ASSUME NEW n \in 2 .. k PROVE s[n] = (s[n - 1] \o p[n]) \o <<"/">>
  <2>1. s[n] = Append(f[n], "/") /\ f[n] \in Seq(Marks)
    BY <1>1
  <2>2. s[n] = f[n] \o <<"/">>
    <3> HIDE DEF s
    <3> QED
      BY <2>1
  <2> QED
    BY <1>7, <2>2
<1>9. Lines(s, p, k)
  <2> HIDE DEF s
  <2> QED
    BY <1>4, <1>5, <1>8 DEF Lines
<1>10. s[k] = IF k = 1 THEN f[k] ELSE Append(f[k], "/")
  BY <1>1
<1> HIDE DEF s
<1>11. f[k] \in Seq(Marks) \ {<<>>} /\ f[k][1] = "/"
  <2>1. CASE k = 1
    BY <1>1, <1>3, <2>1
  <2>2. CASE k # 1
    <3>1. f[k] \in Seq(Marks) /\ f[k] # <<>> /\ s[k] = Append(f[k], "/")
      BY <1>1, <1>6, <1>10, <2>2
    <3>2. Len(s[1]) = 1 /\ s[1][1] = "/"
      BY <1>4
    <3>3. s[k][1] = "/"
      <4> HIDE DEF s
      <4>1. \A i \in 1 .. Len(s[1]) : s[k][i] = s[1][i]
        BY <1>1, <1>9, LinesGrow
      <4> QED
        BY <3>2, <4>1
    <3>4. Len(f[k]) \in Nat \ {0}
      BY <3>1
    <3>5. Append(f[k], "/")[1] = f[k][1]
      BY <3>1, <3>4
    <3> QED
      BY <3>1, <3>3, <3>5
  <2> QED
    BY <2>1, <2>2
<1>12. k > 1 => Last(f[k]) # "/"
  BY <1>1, <1>6
<1> QED
  BY <1>1, <1>2, <1>9, <1>10, <1>11, <1>12 DEF NormalizePath

\* The beginning of a sequence, item by item.
LEMMA PrefixItems ==
  ASSUME NEW S, NEW s \in Seq(S), NEW t \in Seq(S)
  PROVE  IsPrefix(s, t) <=> Len(s) <= Len(t) /\ \A i \in 1 .. Len(s) : t[i] = s[i]
<1>1. CASE Len(s) <= Len(t)
  <2>1. SubSeq(s, 1, Len(s)) = s
    OBVIOUS
  <2>2. PICK v \in Seq(S) : v = SubSeq(t, 1, Len(s))
    <3>1. PICK n \in Nat : n = Len(s)
      OBVIOUS
    <3>2. SubSeq(t, 1, n) \in Seq(S)
      BY <1>1, <3>1
    <3> QED
      BY <3>1, <3>2
  <2>3. Len(v) = Len(s) /\ \A i \in 1 .. Len(s) : v[i] = t[i]
    BY <1>1, <2>2
  <2>4. v = s <=> \A i \in 1 .. Len(s) : t[i] = s[i]
    <3>1. ASSUME \A i \in 1 .. Len(s) : t[i] = s[i] PROVE v = s
      BY <2>3, <3>1
    <3>2. ASSUME v = s PROVE \A i \in 1 .. Len(s) : t[i] = s[i]
      BY <2>3, <3>2
    <3> QED
      BY <3>1, <3>2
  <2> QED
    BY <1>1, <2>1, <2>2, <2>4 DEF IsPrefix
<1>2. CASE ~ (Len(s) <= Len(t))
  BY <1>2 DEF IsPrefix
<1> QED
  BY <1>1, <1>2

\* A text in the workspace is that of a path in the workspace: a name that only
\* begins like the workspace's is none.  (policy.rs: is_within_workspace.)
LEMMA WithinIsPrefix ==
  ASSUME NEW a, Absolute(a), NEW p, Absolute(p),
         LET root == NormalizePath(a)
             text == NormalizePath(p)
         IN  text = root \/ IsPrefix(Append(root, "/"), text)
  PROVE  Len(a) <= Len(p) /\ \A j \in 1 .. Len(a) : a[j] = p[j]
<1>1. PICK k \in Nat \ {0}, m \in Nat \ {0} : k = Len(a) /\ m = Len(p)
  BY DEF Absolute
<1>2. a[1] = p[1]
  BY DEF Absolute
<1>3. CASE k = 1
  BY <1>1, <1>2, <1>3
<1>4. CASE k # 1
  <2>1. PICK root \in Seq(Marks) \ {<<>>}, text \in Seq(Marks) \ {<<>>} :
          /\ root = NormalizePath(a) /\ text = NormalizePath(p)
          /\ root[1] = "/" /\ text[1] = "/" /\ Last(root) # "/"
    BY <1>1, <1>4, LinesOfPath
  <2>2. PICK s : Lines(s, a, k) /\ s[k] = Append(root, "/")
    BY <1>1, <1>4, <2>1, LinesOfPath
  <2>3. PICK u : Lines(u, p, m) /\ u[m] = IF m = 1 THEN text ELSE Append(text, "/")
    BY <1>1, <2>1, LinesOfPath
  <2>4. Append(root, "/") \in Seq(Marks) /\ Append(text, "/") \in Seq(Marks)
    BY <2>1 DEF Marks
  <2>5. Len(s[k]) <= Len(u[m]) /\ \A i \in 1 .. Len(s[k]) : u[m][i] = s[k][i]
    <3>1. CASE text = root
      <4>1. m # 1
        <5>1. CASE m = 1
          <6>1. text = <<"/">>
            BY <2>3, <5>1 DEF Lines
          <6> QED
            BY <2>1, <3>1, <6>1 DEF Last
        <5> QED
          BY <5>1
      <4>2. u[m] = s[k]
        BY <2>2, <2>3, <3>1, <4>1
      <4> QED
        BY <2>2, <2>4, <4>2
    <3>2. CASE IsPrefix(Append(root, "/"), text)
      <4>1. PICK v \in Seq(Marks) : v = Append(root, "/")
        BY <2>4
      <4>2. Len(v) <= Len(text) /\ \A i \in 1 .. Len(v) : text[i] = v[i]
        <5>1. text \in Seq(Marks) /\ IsPrefix(v, text)
          BY <2>1, <3>2, <4>1
        <5> QED
          BY <5>1, PrefixItems
      <4>3. /\ Len(Append(text, "/")) = Len(text) + 1
            /\ \A i \in 1 .. Len(text) : Append(text, "/")[i] = text[i]
        BY <2>1
      <4>4. Len(text) <= Len(u[m]) /\ \A i \in 1 .. Len(text) : u[m][i] = text[i]
        BY <2>1, <2>3, <4>3
      <4>5. Len(v) \in Nat /\ Len(text) \in Nat /\ Len(u[m]) \in Nat
        BY <2>1, <2>3, <2>4
      <4>6. Len(v) <= Len(u[m]) /\ \A i \in 1 .. Len(v) : u[m][i] = v[i]
        BY <4>2, <4>4, <4>5
      <4> QED
        BY <2>2, <4>1, <4>6
    <3> QED
      BY <2>1, <3>1, <3>2
  <2>6. k <= m /\ \A j \in 2 .. k : a[j] = p[j]
    <3>1. Lines(s, a, k) /\ Lines(u, p, m)
      BY <2>2, <2>3
    <3> QED
      BY <2>5, <3>1, LinesTellNames
  <2>7. \A j \in 1 .. k : j = 1 \/ j \in 2 .. k
    BY <1>1
  <2> QED
    BY <1>1, <1>2, <2>6, <2>7
<1> QED
  BY <1>3, <1>4

\* A path from the root without dots leads where it says.
LEMMA CanonicalAbsolute ==
  ASSUME NEW p, Absolute(p) PROVE Canonical(p) = p
<1> DEFINE k == Len(p)
           value(g, n) == IF n = 0 THEN <<>> ELSE Walked(g[n - 1], p[n])
           Fits(g) == g = [n \in 0 .. k |-> value(g, n)]
           b == [n \in 0 .. k |-> SubSeq(p, 1, n)]
<1>1. k \in Nat \ {0} /\ p \in Seq(Seq(Characters))
  BY DEF Absolute
<1>2. ASSUME NEW n \in 1 .. k
      PROVE  /\ \A d : Walked(d, p[n]) = Append(d, p[n])
             /\ Append(SubSeq(p, 1, n - 1), p[n]) = SubSeq(p, 1, n)
  <2>1. p[n] # Dot /\ p[n] # DotDot
    <3>1. CASE n = 1
      BY <3>1 DEF Absolute, Slash, Dot, DotDot
    <3>2. CASE n # 1
      BY <1>1, <3>2 DEF Absolute
    <3> QED
      BY <3>1, <3>2
  <2>2. \A d : Walked(d, p[n]) = Append(d, p[n])
    BY <2>1 DEF Walked
  <2>3. Append(SubSeq(p, 1, n - 1), p[n]) = SubSeq(p, 1, n)
    BY <1>1
  <2> QED
    BY <2>2, <2>3
<1>3. Walk(p) = CHOOSE g : Fits(g)
  BY DEF Walk
<1> HIDE DEF k
<1>4. Fits(b)
  <2>1. ASSUME NEW n \in 0 .. k PROVE b[n] = value(b, n)
    <3>1. CASE n = 0
      BY <1>1, <3>1
    <3>2. CASE n # 0
      <4>1. n \in 1 .. k /\ n - 1 \in 0 .. k
        BY <1>1, <3>2
      <4>2. b[n] = SubSeq(p, 1, n) /\ b[n - 1] = SubSeq(p, 1, n - 1)
        BY <4>1
      <4> HIDE DEF b
      <4> QED
        BY <1>2, <3>2, <4>1, <4>2
    <3> QED
      BY <3>1, <3>2
  <2>2. b = [n \in 0 .. k |-> b[n]]
    OBVIOUS
  <2> HIDE DEF value, b
  <2> QED
    BY <2>1, <2>2
<1>5. PICK f : f = Walk(p)
  OBVIOUS
<1>6. Fits(f)
  <2> HIDE DEF Fits, b
  <2> QED
    BY <1>3, <1>4, <1>5
<1> DEFINE T == {n \in Nat : f[n] = SubSeq(p, 1, n)}
<1>7. ASSUME NEW n \in 0 .. k, n < k, n \in T PROVE n + 1 \in T
  <2>1. n + 1 \in 1 .. k /\ n + 1 \in 0 .. k /\ (n + 1) - 1 = n /\ n + 1 \in Nat /\ n + 1 # 0
    BY <1>1, <1>7
  <2>2. f[n + 1] = Walked(f[n], p[n + 1])
    BY <1>6, <2>1
  <2> QED
    BY <1>2, <1>7, <2>1, <2>2
<1>8. 0 .. k \subseteq T
  <2>1. 0 \in T
    <3>1. f[0] = <<>>
      BY <1>1, <1>6
    <3>2. SubSeq(p, 1, 0) = <<>>
      BY <1>1
    <3> QED
      BY <3>1, <3>2
  <2> HIDE DEF T
  <2> QED
    BY <1>1, <1>7, <2>1, Climb
<1>9. f[k] = SubSeq(p, 1, k)
  BY <1>1, <1>8
<1> QED
  BY <1>1, <1>5, <1>9 DEF Canonical, k

\* A path that is given begins with the root or with something else.
LEMMA AbsoluteSpelling ==
  ASSUME NEW p \in Spellings
  PROVE  /\ p \in Seq(Seq(Characters)) \ {<<>>} /\ p \in Seq(Components) /\ IsPath(p)
         /\ p[1] = Slash /\ ~HasDotDot(p) => Absolute(p)
<1>1. p \in Seq(Components) \ {<<>>} /\ IsPath(p) /\ Components \subseteq Seq(Characters)
  BY PathsAssumption, TreeAssumption
<1>2. p \in Seq(Seq(Characters)) \ {<<>>}
  BY <1>1
<1>3. ASSUME p[1] = Slash, ~HasDotDot(p), NEW n \in 2 .. Len(p)
      PROVE  p[n] \notin {<<>>, Slash, Dot, DotDot} /\ "/" \notin Range(p[n])
  <2>1. n \in DOMAIN p /\ n # 1
    BY <1>2
  <2>2. p[n] \notin {Dot, <<>>} /\ "/" \notin Range(p[n])
    BY <1>1, <2>1 DEF IsPath
  <2>3. p[n] # DotDot
    BY <1>3, <2>1 DEF HasDotDot, ToSet
  <2>4. "/" \in Range(Slash)
    <3>1. 1 \in DOMAIN Slash /\ Slash[1] = "/"
      BY DEF Slash
    <3> QED
      BY <3>1 DEF Range
  <2> QED
    BY <2>2, <2>3, <2>4
<1> QED
  BY <1>1, <1>2, <1>3 DEF Absolute

\* What the sandbox lets through, and its sibling.
WritesConfined ==
  \A r \in Allowed \cap Writes :
    {TargetOf[r], TmpPath(TargetOf[r])} \cap (Outside \cup Denied) = {}

\* The sandbox lets a write through only to a path in the workspace whose name no
\* deny pattern matches; the sibling is there too, unless the path is the
\* workspace itself.  (policy.rs: validate_write; fs_write.rs: atomic_tmp_path.)
LEMMA SandboxConfines ==
  ASSUME SiblingsUndenied PROVE WritesConfined
<1> SUFFICES ASSUME NEW r \in Allowed \cap Writes
             PROVE  {TargetOf[r], TmpPath(TargetOf[r])} \cap (Outside \cup Denied) = {}
  BY DEF WritesConfined
<1>1. PICK p : p = r.path
  OBVIOUS
<1>2. p \in Spellings /\ Workspace \in Spellings
  BY <1>1 DEF Spellings
<1>3. ValidateWrite(p)
  BY <1>1 DEF Allowed, Permitted, Writes
<1>4. Workspace[1] = Slash
  BY RootsAssumption, <1>2, AbsoluteSpelling
<1>5. Absolute(Workspace)
  BY <1>2, <1>4, PathsAssumption, AbsoluteSpelling
<1>6. PICK root \in Seq(Marks) \ {<<>>} :
        root = NormalizePath(Workspace) /\ root[1] = "/"
  BY <1>5, LinesOfPath
<1>7. PICK text \in Seq(Marks) : text = NormalizePath(p)
  <2>1. p \in Seq(Seq(Characters)) /\ Len(p) \in 0 .. Len(p)
    BY <1>2, AbsoluteSpelling
  <2>2. Normalized(p)[Len(p)] \in Seq(Marks)
    BY <2>1, NormalizedProps
  <2> QED
    BY <2>2 DEF NormalizePath
<1>8. text = root \/ IsPrefix(Append(root, "/"), text)
  BY <1>3, <1>6, <1>7 DEF ValidateWrite, IsWithinWorkspace
<1>9. text # <<>> /\ text[1] = "/"
  <2>1. CASE text = root
    BY <1>6, <2>1
  <2>2. CASE IsPrefix(Append(root, "/"), text)
    <3>1. PICK v \in Seq(Marks) : v = Append(root, "/")
      <4>1. "/" \in Marks
        BY DEF Marks
      <4>2. Append(root, "/") \in Seq(Marks)
        BY <4>1
      <4> QED
        BY <4>2
    <3>2. Len(v) \in Nat \ {0} /\ v[1] = "/"
      BY <1>6, <3>1
    <3>3. Len(v) <= Len(text) /\ \A i \in 1 .. Len(v) : text[i] = v[i]
      <4>1. IsPrefix(v, text)
        BY <2>2, <3>1
      <4> QED
        BY <4>1, PrefixItems
    <3> QED
      BY <3>2, <3>3
  <2> QED
    BY <1>8, <2>1, <2>2
<1>10. Absolute(p)
  <2>1. p[1] = Slash
    BY <1>2, <1>7, <1>9, AbsoluteSpelling, RelativeText
  <2> QED
    BY <1>2, <1>3, <2>1, AbsoluteSpelling DEF ValidateWrite
<1>11. Len(Workspace) <= Len(p) /\ \A j \in 1 .. Len(Workspace) : Workspace[j] = p[j]
  BY <1>5, <1>6, <1>7, <1>8, <1>10, WithinIsPrefix
<1>12. TargetOf[r] = p /\ p \in Targets
  <2>1. r \in DOMAIN TargetOf /\ TargetOf[r] = Canonical(p)
    BY <1>1 DEF TargetOf, Writes, Commands
  <2>2. TargetOf[r] = p
    BY <1>10, <2>1, CanonicalAbsolute
  <2> QED
    BY <2>1, <2>2 DEF Targets, Range
<1>13. PICK w \in Seq(Components) \ {<<>>}, c \in Seq(Components) \ {<<>>} : w = Workspace /\ c = p
  BY <1>2, PathsAssumption
<1>14. IsPrefix(w, c)
  BY <1>11, <1>13, PrefixItems
<1>15. PICK front \in Seq(Components) :
         /\ front = Front(c) /\ Len(front) = Len(c) - 1
         /\ \A i \in 1 .. Len(c) - 1 : front[i] = c[i]
  BY <1>13, FrontProps
<1>16. PICK name : name = TmpName(Last(c))
  OBVIOUS
<1>17. PICK tmp \in Seq(Components \cup {name}) :
         /\ tmp = Append(front, name) /\ TmpPath(c) = tmp /\ Last(tmp) = name
         /\ Len(tmp) = Len(c) /\ \A i \in 1 .. Len(c) - 1 : tmp[i] = c[i]
  <2>1. /\ Append(front, name) \in Seq(Components \cup {name})
        /\ \A i \in 1 .. Len(front) : Append(front, name)[i] = front[i]
    OBVIOUS
  <2>2. Last(Append(front, name)) = name /\ Len(Append(front, name)) = Len(front) + 1
    BY AppendParts
  <2>3. TmpPath(c) = Append(front, name)
    BY <1>15, <1>16 DEF TmpPath
  <2>4. Len(front) = Len(c) - 1 /\ \A i \in 1 .. Len(c) - 1 : front[i] = c[i]
    BY <1>15
  <2>5. Len(c) \in Nat
    OBVIOUS
  <2>6. Len(Append(front, name)) = Len(c)
    BY <2>2, <2>4, <2>5
  <2>7. \A i \in 1 .. Len(c) - 1 : Append(front, name)[i] = c[i]
    BY <2>1, <2>4
  <2> QED
    BY <2>1, <2>2, <2>3, <2>6, <2>7
<1>18. p \notin Outside \cup Denied
  BY <1>3, <1>13, <1>14 DEF Outside, Denied, ValidateWrite, CheckDeny
<1>19. tmp \notin Denied
  BY <1>3, <1>12, <1>13, <1>16, <1>17 DEF SiblingsUndenied, Denied, ValidateWrite, CheckDeny
<1>20. tmp \notin Outside
  <2>1. CASE Len(w) = Len(c)
    <3>1. w = c
      BY <1>11, <1>13, <2>1
    <3> QED
      BY <1>13, <1>17, <3>1 DEF Outside
  <2>2. CASE Len(w) # Len(c)
    <3>1. Len(w) <= Len(c) - 1 /\ Len(w) \in Nat /\ Len(c) \in Nat
      BY <1>11, <1>13, <2>2
    <3>2. \A i \in 1 .. Len(w) : tmp[i] = w[i]
      <4>1. \A i \in 1 .. Len(w) : i \in 1 .. Len(c) - 1 /\ w[i] = c[i]
        BY <1>11, <1>13, <3>1
      <4> QED
        BY <1>17, <4>1
    <3>3. w \in Seq(Components \cup {name})
      BY <1>13
    <3>4. Len(w) <= Len(tmp)
      BY <1>17, <3>1
    <3>5. IsPrefix(w, tmp)
      BY <3>2, <3>3, <3>4, PrefixItems
    <3> QED
      BY <1>13, <1>17, <3>5 DEF Outside
  <2> QED
    BY <2>1, <2>2
<1> QED
  BY <1>12, <1>13, <1>17, <1>18, <1>19, <1>20

\* What is outside the workspace or under a denied name is behind no handle, and
\* is no target or sibling of a write that the sandbox let through.
LEMMA OutsideStep ==
  ASSUME WritesConfined, WireTyped, FilesTyped, EntriesApart,
         HandlesInside, OutsideUntouched, [Next]_vars
  PROVE  HandlesInside' /\ OutsideUntouched'
<1>1. CASE UNCHANGED toolVars
  BY <1>1 DEF toolVars, HandlesInside, OutsideUntouched, Writing, Exists, Content
<1>2. ASSUME NEW x \in Actors, FileStep(x) PROVE HandlesInside' /\ OutsideUntouched'
  <2> DEFINE G == Outside \cup Denied
  <2>0. G \subseteq AllPaths
    BY DEF Outside, Denied
  <2>1. ASSUME act[x] # None, act[x].req.tool = "write_file", act[x].req \in Allowed
        PROVE  Target(x) \notin G /\ Sibling(x) \notin G
    BY <2>1, WriterProps DEF WritesConfined, Sibling
  <2> HIDE DEF G
  <2>2. ASSUME OnlyActor(x), \A p \in G : entry'[p] = entry[p],
               (Writing(x))' => act'[x].req \in Allowed /\ \A p \in G : entry[p] # act'[x].handle
        PROVE  HandlesInside'
    <3> SUFFICES ASSUME NEW y \in Actors, (Writing(y))'
                 PROVE  act'[y].req \in Allowed /\ \A p \in G : entry'[p] # act'[y].handle
      BY DEF HandlesInside, G
    <3>1. CASE y = x
      BY <2>2, <3>1
    <3>2. CASE y # x
      <4>1. Writing(y) /\ act'[y] = act[y]
        BY <2>2, <3>2, OthersWrite
      <4> QED
        BY <2>2, <4>1 DEF HandlesInside, G
    <3> QED
      BY <3>1, <3>2
  <2>3. ASSUME \A p \in G : entry'[p] = entry[p]
                   /\ (entry[p] # 0 => inode'[entry[p]] = inode[entry[p]])
        PROVE  OutsideUntouched'
    <3>1. reached \subseteq reached'
      BY <1>2, ReachGrows DEF Reaches
    <3> QED
      BY <2>3, <3>1 DEF OutsideUntouched, Exists, Content, G
  <2>4. Writing(x) =>
          /\ act[x] # None /\ act[x].req.tool = "write_file" /\ act[x].req \in Allowed
          /\ \A p \in G : entry[p] # act[x].handle
    BY DEF HandlesInside, Writing, G
  <2>5. CASE Quiet(x)
    <3>1. (Writing(x))' => act'[x].req \in Allowed /\ \A p \in G : entry[p] # act'[x].handle
      BY <2>4, <2>5 DEF Quiet, SameCall
    <3> QED
      BY <2>2, <2>3, <2>5, <3>1 DEF Quiet
  <2>6. CASE /\ act[x] # None /\ act[x].req.tool = "write_file" /\ act[x].req \in Allowed
             /\ \E h \in Nat : Opened(x, h)
    <3>1. PICK h \in Nat : Opened(x, h)
      BY <2>6
    <3>2. Sibling(x) \notin G /\ Sibling(x) \in AllPaths
      BY <2>1, <2>6, WriterProps DEF Sibling
    <3>3. \A p \in G : entry'[p] = entry[p] /\ entry[p] # h
      BY <2>0, <3>1, <3>2 DEF Opened, FilesTyped, EntriesApart
    <3>4. \A p \in G : entry[p] # 0 => inode'[entry[p]] = inode[entry[p]]
      BY <2>0, <3>1, <3>3 DEF Opened, FilesTyped
    <3>5. act'[x].req \in Allowed /\ act'[x].handle = h /\ OnlyActor(x)
      BY <2>6, <3>1 DEF Opened, SameCall
    <3> QED
      BY <2>2, <2>3, <3>3, <3>4, <3>5
  <2>7. CASE Fills(x)
    <3>1. act[x].handle \in 1 .. Len(inode) /\ inode \in Seq(Contents)
      BY <2>7 DEF Fills, FilesTyped
    <3>2. \A p \in G : entry[p] # 0 => inode'[entry[p]] = inode[entry[p]]
      BY <2>0, <2>4, <2>7, <3>1 DEF Fills, FilesTyped
    <3> QED
      BY <2>2, <2>3, <2>4, <2>7, <3>2 DEF Fills, SameCall
  <2>8. CASE Renames(x) \/ Removes(x)
    <3>1. /\ Sibling(x) \notin G /\ Target(x) \notin G
          /\ OnlyActor(x) /\ ~(Writing(x))' /\ inode' = inode
      BY <2>1, <2>4, <2>8 DEF Renames, Removes, Writing
    <3>2. \A p \in G : entry'[p] = entry[p]
      BY <2>0, <2>8, <3>1 DEF Renames, Removes, FilesTyped
    <3> QED
      BY <2>2, <2>3, <3>1, <3>2
  <2> QED
    BY <1>2, <2>5, <2>6, <2>7, <2>8, FiveKinds
<1>3. ASSUME NEW p \in Targets, Shells(p) PROVE HandlesInside' /\ OutsideUntouched'
  <2> DEFINE G == Outside \cup Denied
  <2>0. G \subseteq AllPaths
    BY DEF Outside, Denied
  <2> HIDE DEF G
  <2>1. /\ UNCHANGED <<act, reached>> /\ p \in AllPaths /\ p \in reached
        /\ entry'[p] \in {entry[p], 0, Len(inode) + 1}
        /\ \A q \in AllPaths : q # p => entry'[q] = entry[q]
        /\ \A i \in 1 .. Len(inode) : i # entry[p] => inode'[i] = inode[i]
    BY <1>3 DEF Shells
  <2>2. ASSUME NEW y \in Actors, Writing(y)
        PROVE  act[y].req \in Allowed /\ \A q \in G : entry'[q] # act[y].handle
    <3>1. /\ act[y].req \in Allowed /\ act[y].handle \in 1 .. Len(inode)
          /\ \A q \in G : entry[q] # act[y].handle
      BY <2>2 DEF HandlesInside, FilesTyped, G
    <3>2. act[y].handle \notin {0, Len(inode) + 1}
      BY <3>1 DEF FilesTyped
    <3> QED
      BY <2>0, <2>1, <3>1, <3>2
  <2>3. HandlesInside'
    BY <2>1, <2>2 DEF HandlesInside, Writing, G
  <2>4. ASSUME NEW q \in G \ reached
        PROVE  entry'[q] = entry[q] /\ (entry[q] # 0 => inode'[entry[q]] = inode[entry[q]])
    <3>1. q \in AllPaths /\ q # p
      BY <2>0, <2>1
    <3>2. entry[q] # 0 => entry[q] \in 1 .. Len(inode) /\ entry[q] # entry[p]
      BY <2>1, <3>1 DEF FilesTyped, EntriesApart
    <3> QED
      BY <2>1, <3>1, <3>2
  <2>5. OutsideUntouched'
    BY <2>1, <2>4 DEF OutsideUntouched, Exists, Content, G
  <2> QED
    BY <2>3, <2>5
<1> QED
  BY <1>1, <1>2, <1>3, StepKinds

-----------------------------------------------------------------------------
(* The initial tree *)

\* Every file that is there at first gets an inode of its own.
LEMMA OrderProps ==
  LET order == SetToSeq(DOMAIN Present) IN
  \E n \in Nat : /\ DOMAIN order = 1 .. n
                 /\ \A i \in 1 .. n : order[i] \in DOMAIN Present
                 /\ \A p \in DOMAIN Present : \E i \in 1 .. n : order[i] = p
<1> DEFINE S == DOMAIN Present
           n == Cardinality(S)
           I == 1 .. n
<1>1. n \in Nat /\ ExistsBijection(I, S) /\ IsFiniteSet(S)
  BY TreeAssumption, FS_CardinalityType
<1>2. \E f \in [I -> S] : IsInjective(f)
  BY <1>1 DEF ExistsBijection, Bijection, Injection
<1>3. SetToSeq(S) \in [I -> S] /\ IsInjective(SetToSeq(S))
  BY <1>2 DEF SetToSeq
<1>4. SetToSeq(S) \in Injection(I, S)
  BY <1>3 DEF Injection
<1>5. Cardinality(I) = n
  BY <1>1, FS_Interval
<1>6. SetToSeq(S) \in Surjection(I, S)
  BY <1>1, <1>4, <1>5, FS_Injection
<1> QED
  BY <1>1, <1>3, <1>6 DEF Surjection

LEMMA FilesInit ==
  ASSUME ToolsInit
  PROVE  /\ FilesTyped /\ EntriesApart /\ Undisturbed /\ Tree /\ GrepKnows
         /\ HandlesInside /\ OutsideUntouched
<1> DEFINE order == SetToSeq(DOMAIN Present)
<1>1. PICK n \in Nat : /\ DOMAIN order = 1 .. n
                       /\ \A i \in 1 .. n : order[i] \in DOMAIN Present
                       /\ \A p \in DOMAIN Present : \E i \in 1 .. n : order[i] = p
  BY OrderProps
<1> DEFINE At0(p) == CHOOSE i \in DOMAIN order : order[i] = p
<1>2. /\ inode = [i \in 1 .. n |-> Present[order[i]]]
      /\ entry = [p \in AllPaths |-> IF p \in DOMAIN Present THEN At0(p) ELSE 0]
      /\ dirs = Dirs0 /\ act = [x \in Actors |-> None] /\ clashed = FALSE /\ reached = {}
      /\ acked = [p \in Targets |-> IF p \in DOMAIN Present THEN Present[p] ELSE None]
  BY <1>1 DEF ToolsInit
<1>3. \A p \in DOMAIN Present : At0(p) \in 1 .. n /\ order[At0(p)] = p
  BY <1>1
<1> HIDE DEF At0, order
<1>4. \A p \in DOMAIN Present : Present[p] \in Texts
  BY DEF Texts, Range
<1>5. inode \in Seq(Contents) /\ Len(inode) = n
  BY <1>1, <1>2, <1>4 DEF Contents
<1>6. \A p \in AllPaths : /\ entry[p] \in 0 .. n
                          /\ entry[p] # 0 => p \in DOMAIN Present /\ entry[p] = At0(p)
  BY <1>2, <1>3
<1>7. \A p \in AllPaths : Exists(p) => p \in DOMAIN Present /\ Content(p) = Present[p]
  BY <1>2, <1>3, <1>6 DEF Exists, Content
<1>8. \A x \in Actors : act[x] = None
  BY <1>2
<1>9. FilesTyped
  <2>1. entry \in [AllPaths -> Nat] /\ \A p \in AllPaths : entry[p] <= Len(inode)
    BY <1>2, <1>5, <1>6
  <2>2. acked \in [Targets -> Texts \cup {None}] /\ clashed \in BOOLEAN
    BY <1>2, <1>4
  <2>3. act \in [Actors -> ActRecord \cup {None}]
    BY <1>2
  <2> QED
    BY <1>2, <1>5, <1>8, <2>1, <2>2, <2>3 DEF FilesTyped, Writing
<1>10. EntriesApart
  BY <1>3, <1>6 DEF EntriesApart
<1>11. Undisturbed
  <2>1. ASSUME NEW p \in Targets
        PROVE  /\ acked[p] = IF Exists(p) THEN Content(p) ELSE None
               /\ Exists(p) => Content(p) # Empty
    <3>1. p \in AllPaths
      BY DEF AllPaths
    <3>2. CASE p \in DOMAIN Present
      BY <1>2, <1>3, <1>4, <1>7, <3>1, <3>2, ContentsAssumption DEF Exists
    <3>3. CASE p \notin DOMAIN Present
      BY <1>2, <3>1, <3>3 DEF Exists
    <3> QED
      BY <3>2, <3>3
  <2> QED
    BY <1>8, <2>1 DEF Undisturbed, Alone, OwnSibling, OwnText, AllAcked, ReadsWhole,
       Writing, At
<1>12. Tree
  <2>1. \A p \in Targets : Exists(p) => Prefixed(p)
    BY <1>2, <1>7, TreeAssumption DEF Prefixed, AllPaths
  <2> QED
    BY <1>2, <1>8, <2>1, TreeAssumption DEF Tree, Writing
<1>13. GrepKnows /\ HandlesInside
  BY <1>8 DEF GrepKnows, HandlesInside, Writing
<1>14. OutsideUntouched
  BY <1>7 DEF OutsideUntouched, Outside, Denied
<1> QED
  BY <1>9, <1>10, <1>11, <1>12, <1>13, <1>14

-----------------------------------------------------------------------------
(* The theorems *)

\* Unless two calls of write_file for one path overlapped, every file that no
\* command of bash can change holds what the last acknowledged call gave it, and no
\* reader saw a part: whatever else the host, the server, the other tools and the
\* shells do, and wherever a call failed.
\* (fs_write.rs: WriteFileTool::invoke; bash.rs: build_command.)
THEOREM AcknowledgedIsPublished ==
  ASSUME SiblingsApart PROVE Spec => []PublishedIsAcked
<1> DEFINE IInv == FilesTyped /\ EntriesApart /\ Undisturbed
<1>1. HostInit => IInv
  BY FilesInit DEF HostInit
<1>2. WireTyped /\ IInv /\ [Next]_vars => IInv'
  BY FilesTypedStep, EntriesApartStep, UndisturbedStep
<1>3. IInv => PublishedIsAcked
  BY DEF Undisturbed, AllAcked, ReadsWhole, PublishedIsAcked
<1> HIDE DEF IInv
<1> QED
  BY <1>1, <1>2, <1>3, WireInvariant, PTL DEF Spec

\* A grep that does not say it was cut short found every file with a match that
\* was there, unchanged, all the time, in no dot directory below its root, was
\* UTF-8, could be read and could be changed by no shell; the others it passes
\* over without a word.  (fs_grep.rs: GrepTool::invoke, walk, scan_file.)
THEOREM GrepIsComplete ==
  ASSUME SiblingsApart PROVE Spec => []GrepTellsAll
<1> DEFINE IInv == FilesTyped /\ EntriesApart /\ Tree /\ GrepKnows
<1>1. HostInit => IInv
  BY FilesInit DEF HostInit
<1>2. WireTyped /\ IInv /\ [Next]_vars => IInv'
  BY FilesTypedStep, EntriesApartStep, TreeStep, GrepKnowsStep
<1>3. IInv => GrepTellsAll
  BY DEF GrepKnows, Unseen, GrepTellsAll, At, Target
<1> HIDE DEF IInv
<1> QED
  BY <1>1, <1>2, <1>3, WireInvariant, PTL DEF Spec

\* Nothing outside the workspace and nothing under a denied name changes but by
\* the processes of a command of bash, unless the name of a sibling is denied or
\* the name of another file.  (policy.rs: validate_write, is_within_workspace;
\* fs_write.rs: atomic_tmp_path; bash.rs: build_command.)
THEOREM OutsideIsUntouched ==
  ASSUME SiblingsApart, SiblingsUndenied PROVE Spec => []OutsideUntouched
<1> DEFINE IInv == FilesTyped /\ EntriesApart /\ HandlesInside /\ OutsideUntouched
<1>1. HostInit => IInv
  BY FilesInit DEF HostInit
<1>2. WireTyped /\ IInv /\ [Next]_vars => IInv'
  BY FilesTypedStep, EntriesApartStep, OutsideStep, SandboxConfines
<1>3. IInv => OutsideUntouched
  OBVIOUS
<1> HIDE DEF IInv
<1> QED
  BY <1>1, <1>2, <1>3, WireInvariant, PTL DEF Spec

=============================================================================
