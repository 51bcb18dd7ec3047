--------------------------- MODULE DagRuntimeProofs ---------------------------
(***************************************************************************)
(* Proofs about DagRuntime for every set of processes and outputs and      *)
(* every bound.                                                            *)
(***************************************************************************)
EXTENDS DagRuntime, TLAPS

-----------------------------------------------------------------------------
(* Type correctness *)

\* The index add_node picks is one the graph may hold, given add_node's guard.
\* (graph.rs: add_node.)
LEMMA AddNodeTyped == ASSUME TypeOK, AddNode PROVE TypeOK'
<1> USE MaxSlotsAssumption
<1>1. NewSlot \in Slot
  BY DEF AddNode
<1>2. free' \in Seq(Slot)
  BY <1>1 DEF AddNode, TypeOK
<1>3. top' \in 0 .. MaxSlots
  BY <1>1 DEF AddNode, TypeOK, NewSlot, Slot
<1>4. slotOf' \in Seq(Slot) /\ id' \in [Slot -> Nat]
  BY <1>1 DEF AddNode, TypeOK
<1>5. live' \subseteq Slot /\ edges' \subseteq Slot \X Slot
  BY <1>1 DEF AddNode, TypeOK
<1>6. /\ status' \in [Slot -> Status]
      /\ claimed' \in [Slot -> Pids \cup {NoPid}]
      /\ outputs' \in [Slot -> Value]
      /\ failed' \in [Slot -> BOOLEAN]
  BY <1>1 DEF AddNode, TypeOK, Status, Value
<1> QED
  BY <1>2, <1>3, <1>4, <1>5, <1>6 DEF TypeOK

\* Every variable keeps its type in every behaviour.
THEOREM TypeCorrect == Spec => []TypeOK
<1>1. Init => TypeOK
  BY MaxSlotsAssumption DEF Init, TypeOK, Status, Value
<1>2. TypeOK /\ [Next]_vars => TypeOK'
  <2> SUFFICES ASSUME TypeOK, [Next]_vars PROVE TypeOK'
    OBVIOUS
  <2>1. CASE AddNode
    BY <2>1, AddNodeTyped
  <2>2. ASSUME NEW from \in Slot, NEW to \in Slot, AddEdge(from, to)
        PROVE  TypeOK'
    BY <2>2 DEF AddEdge, TypeOK, lifecycle
  <2>3. ASSUME NEW n \in Slot, RemoveNode(n) PROVE TypeOK'
    BY <2>3 DEF RemoveNode, TypeOK, lifecycle
  <2>4. ASSUME NEW n \in Slot, NEW pid \in Pids, Claim(n, pid) PROVE TypeOK'
    BY <2>4 DEF Claim, TypeOK, structure, Status
  <2>5. ASSUME NEW n \in Slot, Release(n) PROVE TypeOK'
    BY <2>5 DEF Release, TypeOK, structure, Status
  <2>6. ASSUME NEW n \in Slot, NEW v \in Value, Complete(n, v) PROVE TypeOK'
    BY <2>6 DEF Complete, TypeOK, structure, Status
  <2>7. ASSUME NEW n \in Slot, Fail(n) PROVE TypeOK'
    BY <2>7 DEF Fail, TypeOK, structure, Status
  <2>8. ASSUME NEW n \in Slot, Skip(n) PROVE TypeOK'
    BY <2>8 DEF Skip, TypeOK, structure, Status
  <2>9. CASE UNCHANGED vars
    BY <2>9 DEF vars, structure, lifecycle, TypeOK
  <2> QED
    BY <2>1, <2>2, <2>3, <2>4, <2>5, <2>6, <2>7, <2>8, <2>9 DEF Next
<1> QED
  BY <1>1, <1>2, PTL DEF Spec

-----------------------------------------------------------------------------
(* The node record *)

\* Claim, status, error message and outputs of a node agree in every
\* reachable state.  (graph.rs: claim, release, complete, fail, skip.)
THEOREM RecordsConsistent == Spec => []RecordConsistent
<1>1. Init => RecordConsistent
  BY DEF Init, RecordConsistent
<1>2. TypeOK /\ RecordConsistent /\ [Next]_vars => RecordConsistent'
  <2> SUFFICES ASSUME TypeOK, RecordConsistent, [Next]_vars
               PROVE  RecordConsistent'
    OBVIOUS
  <2> USE NoPidAssumption DEF RecordConsistent, TypeOK, Terminal, Status
  <2>1. CASE AddNode
    BY <2>1 DEF AddNode
  <2>2. ASSUME NEW from \in Slot, NEW to \in Slot, AddEdge(from, to)
        PROVE  RecordConsistent'
    BY <2>2 DEF AddEdge, lifecycle
  <2>3. ASSUME NEW n \in Slot, RemoveNode(n) PROVE RecordConsistent'
    BY <2>3 DEF RemoveNode, lifecycle
  <2>4. ASSUME NEW n \in Slot, NEW pid \in Pids, Claim(n, pid)
        PROVE  RecordConsistent'
    BY <2>4 DEF Claim, structure
  <2>5. ASSUME NEW n \in Slot, Release(n) PROVE RecordConsistent'
    BY <2>5 DEF Release, structure
  <2>6. ASSUME NEW n \in Slot, NEW v \in Value, Complete(n, v)
        PROVE  RecordConsistent'
    BY <2>6 DEF Complete, structure
  <2>7. ASSUME NEW n \in Slot, Fail(n) PROVE RecordConsistent'
    BY <2>7 DEF Fail, structure
  <2>8. ASSUME NEW n \in Slot, Skip(n) PROVE RecordConsistent'
    BY <2>8 DEF Skip, structure
  <2>9. CASE UNCHANGED vars
    BY <2>9 DEF vars, structure, lifecycle
  <2> QED
    BY <2>1, <2>2, <2>3, <2>4, <2>5, <2>6, <2>7, <2>8, <2>9 DEF Next
<1> QED
  BY <1>1, <1>2, TypeCorrect, PTL DEF Spec

-----------------------------------------------------------------------------
(* Indices and edges *)

\* An index handed out is either live or once on the free list.  It is how
\* petgraph keeps its indices, and what NodeHistoryKept needs to know of it.
IndicesPartitioned ==
  /\ \A n \in Slot : n < top <=> n \in live \/ \E i \in DOMAIN free : free[i] = n
  /\ \A i \in DOMAIN free : free[i] \notin live
  /\ \A i, j \in DOMAIN free : free[i] = free[j] => i = j

\* add_node lands on an index that is not live and takes it off the list.
LEMMA NewSlotFresh ==
  ASSUME TypeOK, IndicesPartitioned, AddNode
  PROVE  /\ NewSlot \in Slot \ live
         /\ IndicesPartitioned'
<1>1. CASE free = <<>>
  <2>1. /\ NewSlot = top
        /\ live' = live \cup {top}
        /\ free' = <<>>
        /\ top' = top + 1
    BY <1>1 DEF AddNode, NewSlot
  <2>2. top \in Slot
    BY <2>1 DEF AddNode
  <2>3. top \notin live
    BY <2>2 DEF IndicesPartitioned, Slot
  <2>4. \A n \in Slot : n < top + 1 <=> n \in live \cup {top}
    BY <2>2, <1>1 DEF IndicesPartitioned, Slot, TypeOK
  <2> QED
    BY <2>1, <2>2, <2>3, <2>4 DEF IndicesPartitioned
<1>2. CASE free # <<>>
  <2> DEFINE k == Len(free)
  <2>1. k \in Nat \ {0} /\ DOMAIN free = 1 .. k
    BY <1>2 DEF TypeOK
  <2>2. /\ NewSlot = free[k]
        /\ live' = live \cup {free[k]}
        /\ free' = SubSeq(free, 1, k - 1)
        /\ top' = top
    BY <1>2 DEF AddNode, NewSlot
  <2>3. free[k] \in Slot \ live
    <3>1. k \in DOMAIN free
      BY <2>1
    <3>2. free[k] \in Slot
      BY <3>1 DEF TypeOK
    <3> QED
      BY <3>1, <3>2 DEF IndicesPartitioned
  <2>4. /\ DOMAIN free' = 1 .. k - 1
        /\ \A i \in 1 .. k - 1 : free'[i] = free[i]
    BY <2>1, <2>2 DEF TypeOK
  <2>5. \A i \in 1 .. k - 1 : free[i] # free[k]
    BY <2>1 DEF IndicesPartitioned
  <2>6. \A n \in Slot : (\E i \in 1 .. k : free[i] = n)
                       <=> n = free[k] \/ \E i \in 1 .. k - 1 : free[i] = n
    BY <2>1
  <2>7. \A n \in Slot : n < top' <=> n \in live' \/ \E i \in DOMAIN free' : free'[i] = n
    BY <2>1, <2>2, <2>4, <2>6 DEF IndicesPartitioned
  <2>8. \A i \in DOMAIN free' : free'[i] \notin live'
    BY <2>1, <2>2, <2>4, <2>5 DEF IndicesPartitioned
  <2>9. \A i, j \in DOMAIN free' : free'[i] = free'[j] => i = j
    BY <2>1, <2>4 DEF IndicesPartitioned
  <2> QED
    BY <2>2, <2>3, <2>7, <2>8, <2>9 DEF IndicesPartitioned
<1> QED
  BY <1>1, <1>2

\* remove_node puts the index on the free list and nowhere else.
LEMMA RemovedSlotFree ==
  ASSUME TypeOK, IndicesPartitioned, NEW n \in Slot, RemoveNode(n)
  PROVE  IndicesPartitioned'
<1> DEFINE k == Len(free)
<1>1. /\ n \in live
      /\ live' = live \ {n}
      /\ free' = Append(free, n)
      /\ top' = top
  BY DEF RemoveNode
<1>2. k \in Nat /\ DOMAIN free = 1 .. k
  BY DEF TypeOK
<1>3. /\ DOMAIN free' = 1 .. k + 1
      /\ free'[k + 1] = n
      /\ \A i \in 1 .. k : free'[i] = free[i]
  BY <1>1, <1>2 DEF TypeOK
<1>4. \A i \in 1 .. k : free[i] # n /\ free[i] \notin live
  BY <1>1, <1>2 DEF IndicesPartitioned
<1>5. \A m \in Slot : (\E i \in 1 .. k + 1 : free'[i] = m)
                     <=> m = n \/ \E i \in 1 .. k : free[i] = m
  BY <1>2, <1>3
<1>6. \A m \in Slot : m < top' <=> m \in live' \/ \E i \in DOMAIN free' : free'[i] = m
  BY <1>1, <1>2, <1>3, <1>5 DEF IndicesPartitioned
<1>7. \A i \in DOMAIN free' : free'[i] \notin live'
  BY <1>1, <1>2, <1>3, <1>4
<1>8. \A i, j \in DOMAIN free' : free'[i] = free'[j] => i = j
  BY <1>2, <1>3, <1>4 DEF IndicesPartitioned
<1> QED
  BY <1>6, <1>7, <1>8 DEF IndicesPartitioned

\* Live indices and free indices partition what was handed out, so add_node
\* never lands on a live node.  (The model of StableDiGraph behind graph.rs.)
LEMMA IndicesArePartitioned == Spec => []IndicesPartitioned
<1>1. Init => IndicesPartitioned
  BY DEF Init, IndicesPartitioned, Slot
<1>2. TypeOK /\ IndicesPartitioned /\ [Next]_vars => IndicesPartitioned'
  <2> SUFFICES ASSUME TypeOK, IndicesPartitioned, [Next]_vars
               PROVE  IndicesPartitioned'
    OBVIOUS
  <2>1. CASE AddNode
    BY <2>1, NewSlotFresh
  <2>2. ASSUME NEW n \in Slot, RemoveNode(n) PROVE IndicesPartitioned'
    BY <2>2, RemovedSlotFree
  <2>3. ASSUME UNCHANGED <<live, free, top>> PROVE IndicesPartitioned'
    BY <2>3 DEF IndicesPartitioned
  <2> QED
    BY <2>1, <2>2, <2>3
    DEF Next, AddEdge, Claim, Release, Complete, Fail, Skip, vars, structure
<1> QED
  BY <1>1, <1>2, TypeCorrect, PTL DEF Spec

\* No edge outlives one of its ends.  (graph.rs: remove_node.)
THEOREM EdgesJoinLiveNodes == Spec => []NoDanglingEdge
<1>1. Init => NoDanglingEdge
  BY DEF Init, NoDanglingEdge
<1>2. NoDanglingEdge /\ [Next]_vars => NoDanglingEdge'
  <2> SUFFICES ASSUME NoDanglingEdge, [Next]_vars PROVE NoDanglingEdge'
    OBVIOUS
  <2>1. CASE AddNode
    BY <2>1 DEF AddNode, NoDanglingEdge
  <2>2. ASSUME NEW from \in Slot, NEW to \in Slot, AddEdge(from, to)
        PROVE  NoDanglingEdge'
    BY <2>2 DEF AddEdge, NoDanglingEdge
  <2>3. ASSUME NEW n \in Slot, RemoveNode(n) PROVE NoDanglingEdge'
    BY <2>3 DEF RemoveNode, NoDanglingEdge
  <2>4. ASSUME UNCHANGED <<live, edges>> PROVE NoDanglingEdge'
    BY <2>4 DEF NoDanglingEdge
  <2> QED
    BY <2>1, <2>2, <2>3, <2>4
    DEF Next, Claim, Release, Complete, Fail, Skip, vars, structure
<1> QED
  BY <1>1, <1>2, PTL DEF Spec

\* Dropping edges cannot close a cycle.
LEMMA FewerEdgesAcyclic ==
  ASSUME NEW E, NEW F, E \subseteq F, ~IsCyclic(F)
  PROVE  ~IsCyclic(E)
BY DEF IsCyclic

\* The plan graph is acyclic in every reachable state.  (graph.rs: add_edge.)
THEOREM GraphAcyclic == Spec => []Acyclic
<1>1. Init => Acyclic
  BY DEF Init, Acyclic, IsCyclic
<1>2. Acyclic /\ [Next]_vars => Acyclic'
  <2> SUFFICES ASSUME Acyclic, [Next]_vars PROVE Acyclic'
    OBVIOUS
  <2>1. ASSUME NEW from \in Slot, NEW to \in Slot, AddEdge(from, to)
        PROVE  Acyclic'
    BY <2>1 DEF AddEdge, Acyclic, IsCyclic
  <2>2. ASSUME NEW n \in Slot, RemoveNode(n) PROVE Acyclic'
    <3>1. edges' \subseteq edges
      BY <2>2 DEF RemoveNode
    <3> QED
      BY <3>1, FewerEdgesAcyclic DEF Acyclic, IsCyclic
  <2>3. ASSUME UNCHANGED edges PROVE Acyclic'
    BY <2>3 DEF Acyclic, IsCyclic
  <2> QED
    BY <2>1, <2>2, <2>3
    DEF Next, AddNode, Claim, Release, Complete, Fail, Skip, vars, structure
<1> QED
  BY <1>1, <1>2, PTL DEF Spec

\* A plan nobody has failed or pruned and nobody is running always has a node
\* next_ready can return.  In an acyclic graph the set of pending nodes has an
\* element with no predecessor in the set, and that one is ready.
\* (graph.rs: next_ready, add_edge.)
THEOREM PlanNeverStuck == Spec => []NoStuckPlan
<1>1. TypeOK /\ Acyclic => NoStuckPlan
  <2> SUFFICES ASSUME TypeOK, Acyclic,
                      \A n \in live : status[n] \in {"Pending", "Completed"},
                      \E n \in live : status[n] = "Pending"
               PROVE  \E n \in Slot : Ready(n)
    BY DEF NoStuckPlan
  <2> DEFINE P == {n \in live : status[n] = "Pending"}
  <2>1. P # {} /\ P \in SUBSET Slot
    BY DEF TypeOK
  <2>2. PICK n \in P : \A m \in P : <<m, n>> \notin edges
    BY <2>1 DEF Acyclic, IsCyclic
  <2>3. \A p \in Predecessors(n) : status[p] = "Completed"
    BY <2>2 DEF Predecessors
  <2>4. Ready(n) /\ n \in Slot
    BY <2>1, <2>2, <2>3 DEF Ready
  <2> QED
    BY <2>4
<1> QED
  BY <1>1, TypeCorrect, GraphAcyclic, PTL

-----------------------------------------------------------------------------
(* What a step may do to a node *)

\* No step renumbers a live node, reopens a finished one or overwrites its
\* recorded outputs.  The record's consistency is what excludes an overwrite:
\* complete writes only on a running node, whose outputs are still Null.
\* (graph.rs: remove_node, claim, release, complete.)
THEOREM NodeHistoryKept == Spec => NodeHistory
<1> DEFINE Kept == \A n \in live \cap live' :
                     /\ id'[n] = id[n]
                     /\ status[n] \in Terminal => status'[n] \in Terminal
                     /\ outputs[n] # Null => outputs'[n] = outputs[n]
<1>1. TypeOK /\ RecordConsistent /\ IndicesPartitioned /\ [Next]_vars => Kept
  <2> SUFFICES ASSUME TypeOK, RecordConsistent, IndicesPartitioned, [Next]_vars
               PROVE  Kept
    OBVIOUS
  <2>1. CASE AddNode
    <3>1. NewSlot \notin live
      BY <2>1, NewSlotFresh
    <3> QED
      BY <2>1, <3>1 DEF AddNode, TypeOK
  <2>2. ASSUME NEW n \in Slot, NEW pid \in Pids, Claim(n, pid) PROVE Kept
    BY <2>2 DEF Claim, structure, TypeOK, Terminal
  <2>3. ASSUME NEW n \in Slot, Release(n) PROVE Kept
    BY <2>3 DEF Release, structure, TypeOK, Terminal
  <2>4. ASSUME NEW n \in Slot, NEW v \in Value, Complete(n, v) PROVE Kept
    BY <2>4 DEF Complete, structure, TypeOK, Terminal, RecordConsistent
  <2>5. ASSUME NEW n \in Slot, Fail(n) \/ Skip(n) PROVE Kept
    BY <2>5 DEF Fail, Skip, structure, TypeOK, Terminal
  <2>6. ASSUME UNCHANGED <<id, status, outputs>> PROVE Kept
    BY <2>6
  <2> QED
    BY <2>1, <2>2, <2>3, <2>4, <2>5, <2>6
    DEF Next, AddEdge, RemoveNode, vars, structure, lifecycle
<1> QED
  BY <1>1, TypeCorrect, RecordsConsistent, IndicesArePartitioned, PTL
  DEF Spec, NodeHistory
=============================================================================
