------------------------------ MODULE DagRuntime ------------------------------
(***************************************************************************)
(* The plan graph of crates/dag-runtime: nodes addressed by a stable       *)
(* index, edges that must stay acyclic, and the lifecycle                  *)
(* Pending -> Running -> Completed / Failed / Skipped driven by claim,     *)
(* release, complete, fail and skip.  DagGraph is a plain &mut structure,  *)
(* so one method call is one step.  Calls that return an error (or Ok      *)
(* without touching the node) leave the graph alone and are not steps.     *)
(*                                                                         *)
(* Storage is petgraph's StableDiGraph: a removed index goes on a free     *)
(* list and the next add_node takes the most recently freed index back.    *)
(***************************************************************************)
EXTENDS Naturals, Sequences

CONSTANTS
  Pids,      \* processes that may claim a node
  NoPid,     \* claimed_by = None
  Outputs,   \* values a handler may return
  Null,      \* serde_json Value::Null, the outputs of a fresh node
  MaxSlots,  \* bound: indices the graph may ever hold
  MaxAdds    \* bound: calls of add_node

ASSUME NoPidAssumption == NoPid \notin Pids
ASSUME NullAssumption == Null \notin Outputs
ASSUME MaxSlotsAssumption == MaxSlots \in Nat
ASSUME MaxAddsAssumption == MaxAdds \in Nat

VARIABLES
  live,     \* indices that resolve to a node
  id,       \* DagNode.id, by index: the how-manieth add_node created it
  free,     \* freed indices, the most recently freed last
  top,      \* indices handed out so far: 0 .. top-1
  edges,    \* pairs <<from, to>>
  status,   \* DagNode.status, by index
  claimed,  \* DagNode.claimed_by
  outputs,  \* DagNode.outputs
  failed,   \* DagNode.error_message is Some(_)
  slotOf    \* history: slotOf[k] is the index returned by the k-th add_node

structure == <<live, id, free, top, edges, slotOf>>
lifecycle == <<status, claimed, outputs, failed>>
vars == <<structure, lifecycle>>

Slot == 0 .. MaxSlots - 1
Status == {"Pending", "Running", "Completed", "Failed", "Skipped"}
Terminal == {"Completed", "Failed", "Skipped"}
Value == Outputs \cup {Null}

-----------------------------------------------------------------------------
(* Queries *)

Predecessors(n) == {m \in live : <<m, n>> \in edges}

\* Mutant: only an immediate back edge is seen as a cycle.
IsCyclicDirectOnly(E) == \E e \in E : <<e[2], e[1]>> \in E

\* A set of edges is cyclic iff some non-empty set of nodes is closed under
\* "has a predecessor in the set".
IsCyclic(E) ==
  \E S \in SUBSET Slot :
    S # {} /\ \A n \in S : \E m \in S : <<m, n>> \in E

\* The condition under which next_ready may return n.
Ready(n) ==
  /\ n \in live
  /\ status[n] = "Pending"
  /\ \A p \in Predecessors(n) : status[p] = "Completed"

-----------------------------------------------------------------------------
(* Structure *)

Init ==
  /\ live = {}
  /\ id = [n \in Slot |-> 0]
  /\ free = <<>>
  /\ top = 0
  /\ edges = {}
  /\ status = [n \in Slot |-> "Pending"]
  /\ claimed = [n \in Slot |-> NoPid]
  /\ outputs = [n \in Slot |-> Null]
  /\ failed = [n \in Slot |-> FALSE]
  /\ slotOf = <<>>

\* Where StableDiGraph::add_node puts a new node.
NewSlot == IF free = <<>> THEN top ELSE free[Len(free)]

AddNode ==
  /\ Len(slotOf) < MaxAdds
  /\ NewSlot \in Slot
  /\ live' = live \cup {NewSlot}
  /\ id' = [id EXCEPT ![NewSlot] = Len(slotOf) + 1]
  /\ free' = IF free = <<>> THEN free ELSE SubSeq(free, 1, Len(free) - 1)
  /\ top' = IF free = <<>> THEN top + 1 ELSE top
  /\ status' = [status EXCEPT ![NewSlot] = "Pending"]
  /\ claimed' = [claimed EXCEPT ![NewSlot] = NoPid]
  /\ outputs' = [outputs EXCEPT ![NewSlot] = Null]
  /\ failed' = [failed EXCEPT ![NewSlot] = FALSE]
  /\ slotOf' = Append(slotOf, NewSlot)
  /\ UNCHANGED edges

\* The tentative edge is rolled back when it closes a cycle: no step then.
AddEdge(from, to) ==
  /\ from # to
  /\ {from, to} \subseteq live
  /\ ~IsCyclic(edges \cup {<<from, to>>})
  /\ edges' = edges \cup {<<from, to>>}
  /\ UNCHANGED <<live, id, free, top, slotOf, lifecycle>>

\* Mutant: the incident edges stay.
RemoveNodeKeepsEdges(n) ==
  /\ n \in live
  /\ live' = live \ {n}
  /\ free' = Append(free, n)
  /\ UNCHANGED <<id, top, slotOf, edges, lifecycle>>

RemoveNode(n) ==
  /\ n \in live
  /\ live' = live \ {n}
  /\ free' = Append(free, n)
  /\ edges' = {e \in edges : n \notin {e[1], e[2]}}
  /\ UNCHANGED <<id, top, slotOf, lifecycle>>

-----------------------------------------------------------------------------
(* Lifecycle *)

\* A node somebody holds is refused (or, for its own holder, left as it is).
\* Predecessors are not looked at: that is next_ready's business.
Claim(n, pid) ==
  /\ n \in live
  /\ claimed[n] = NoPid
  /\ status[n] = "Pending"
  /\ claimed' = [claimed EXCEPT ![n] = pid]
  /\ status' = [status EXCEPT ![n] = "Running"]
  /\ UNCHANGED <<structure, outputs, failed>>

\* Mutant: pid 0 stands for "not claimed".
ReleaseToPidZero(n) ==
  /\ n \in live
  /\ claimed' = [claimed EXCEPT ![n] = 0]
  /\ status' = [status EXCEPT ![n] = IF @ = "Running" THEN "Pending" ELSE @]
  /\ UNCHANGED <<structure, outputs, failed>>

Release(n) ==
  /\ n \in live
  /\ claimed' = [claimed EXCEPT ![n] = NoPid]
  /\ status' = [status EXCEPT ![n] = IF @ = "Running" THEN "Pending" ELSE @]
  /\ UNCHANGED <<structure, outputs, failed>>

\* Mutant: the claim is not cleared.
CompleteKeepsClaim(n, v) ==
  /\ n \in live
  /\ status[n] = "Running"
  /\ status' = [status EXCEPT ![n] = "Completed"]
  /\ outputs' = [outputs EXCEPT ![n] = v]
  /\ failed' = [failed EXCEPT ![n] = FALSE]
  /\ UNCHANGED <<structure, claimed>>

\* Mutant: a replayed complete stores its output again.
CompleteOverwrites(n, v) ==
  /\ n \in live
  /\ status[n] \in {"Running", "Completed"}
  /\ status' = [status EXCEPT ![n] = "Completed"]
  /\ outputs' = [outputs EXCEPT ![n] = v]
  /\ claimed' = [claimed EXCEPT ![n] = NoPid]
  /\ failed' = [failed EXCEPT ![n] = FALSE]
  /\ UNCHANGED structure

\* The caller is not compared with the holder of the claim.
Complete(n, v) ==
  /\ n \in live
  /\ status[n] = "Running"
  /\ status' = [status EXCEPT ![n] = "Completed"]
  /\ outputs' = [outputs EXCEPT ![n] = v]
  /\ claimed' = [claimed EXCEPT ![n] = NoPid]
  /\ failed' = [failed EXCEPT ![n] = FALSE]
  /\ UNCHANGED structure

\* Any status may fail; the outputs stay.
Fail(n) ==
  /\ n \in live
  /\ status' = [status EXCEPT ![n] = "Failed"]
  /\ failed' = [failed EXCEPT ![n] = TRUE]
  /\ claimed' = [claimed EXCEPT ![n] = NoPid]
  /\ UNCHANGED <<structure, outputs>>

Skip(n) ==
  /\ n \in live
  /\ status' = [status EXCEPT ![n] = "Skipped"]
  /\ claimed' = [claimed EXCEPT ![n] = NoPid]
  /\ UNCHANGED <<structure, outputs, failed>>

Next ==
  \/ AddNode
  \/ \E from, to \in Slot : AddEdge(from, to)
  \/ \E n \in Slot : RemoveNode(n)
  \/ \E n \in Slot, pid \in Pids : Claim(n, pid)
  \/ \E n \in Slot : Release(n)
  \/ \E n \in Slot, v \in Value : Complete(n, v)
  \/ \E n \in Slot : Fail(n)
  \/ \E n \in Slot : Skip(n)

Spec == Init /\ [][Next]_vars

-----------------------------------------------------------------------------
(* Properties *)

TypeOK ==
  /\ live \subseteq Slot
  /\ id \in [Slot -> Nat]
  /\ free \in Seq(Slot)
  /\ top \in 0 .. MaxSlots
  /\ edges \subseteq Slot \X Slot
  /\ status \in [Slot -> Status]
  /\ claimed \in [Slot -> Pids \cup {NoPid}]
  /\ outputs \in [Slot -> Value]
  /\ failed \in [Slot -> BOOLEAN]
  /\ slotOf \in Seq(Slot)

\* The node record tells one story, whatever the order of claims, releases,
\* completions, failures and prunings: somebody holds the claim exactly while
\* the node runs, an error message exists only on a node that failed (and may
\* then have been skipped), and outputs exist only after a completion.
\* (graph.rs: claim, release, complete, fail, skip.)
RecordConsistent ==
  \A n \in live :
    /\ claimed[n] # NoPid <=> status[n] = "Running"
    /\ status[n] = "Failed" => failed[n]
    /\ failed[n] => status[n] \in {"Failed", "Skipped"}
    /\ outputs[n] # Null => status[n] \in Terminal

\* No edge survives the removal of one of its ends, so a node that reuses a
\* removed index starts with no dependencies.  (graph.rs: remove_node.)
NoDanglingEdge ==
  \A e \in edges : e[1] \in live /\ e[2] \in live

\* The edges never close a cycle, so toposort always succeeds.
\* (graph.rs: add_edge, validate.)
Acyclic == ~IsCyclic(edges)

\* While nothing has failed or been pruned and nothing runs, a plan with
\* pending nodes has a node next_ready can return: the executor never waits
\* on a dependency loop.  (graph.rs: add_edge's cycle check, next_ready.)
NoStuckPlan ==
  /\ \A n \in live : status[n] \in {"Pending", "Completed"}
  /\ \E n \in live : status[n] = "Pending"
  => \E n \in Slot : Ready(n)

\* What an index that stays live may go through: it keeps its node whatever
\* else is removed, a finished node is never pending or running again, and
\* outputs once recorded are never overwritten by a replayed or late complete.
\* (graph.rs: the module's StableGraph argument; complete's idempotency.)
NodeHistory ==
  [][\A n \in live \cap live' :
       /\ id'[n] = id[n]
       /\ status[n] \in Terminal => status'[n] \in Terminal
       /\ outputs[n] # Null => outputs'[n] = outputs[n]]_vars

=============================================================================
