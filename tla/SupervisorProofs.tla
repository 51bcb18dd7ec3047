--------------------------- MODULE SupervisorProofs ---------------------------
(***************************************************************************)
(* Proofs about Supervisor for every cap, every set of labels, inputs and  *)
(* outputs, and every bound.  The graph is a DagRuntime, so what           *)
(* DagRuntimeProofs proves of a plan graph is used here by instantiation.  *)
(***************************************************************************)
EXTENDS Supervisor, NumberLemmas, TLAPS

DP == INSTANCE DagRuntimeProofs WITH Pids <- {Pid}

-----------------------------------------------------------------------------
(* The graph of a supervisor behaves as a plan graph. *)

\* A node is picked by find_or_add_node or named by the host, and is there.
LEMMA LiveSlots == Spec => [](live \subseteq D!Slot)
<1>1. Init => live \subseteq D!Slot
  BY DEF Init, D!Init
<1>2. live \subseteq D!Slot /\ [Next]_vars => (live \subseteq D!Slot)'
  <2> SUFFICES ASSUME live \subseteq D!Slot, [Next]_vars
               PROVE  live' \subseteq D!Slot
    BY DEF D!Slot
  <2>1. ASSUME D!AddNode PROVE live' \subseteq D!Slot
    BY <2>1 DEF D!AddNode
  <2>2. ASSUME NEW n \in D!Slot, D!RemoveNode(n) PROVE live' \subseteq D!Slot
    BY <2>2 DEF D!RemoveNode
  <2>3. ASSUME UNCHANGED live PROVE live' \subseteq D!Slot
    BY <2>3
  <2> QED
    BY <2>1, <2>2, <2>3
    DEF Next, TurnStep, HostStep, PlanArrives, PlanFails, AddStepNode, ClaimStepNode,
        HandlerReturns, HandlerFails, CriticDecides, CriticReflects, StartTurn,
        DropTurn, HostAdds, HostReleases, HostRemoves, AddNodeWith, vars, graph,
        D!Claim, D!Release, D!Complete, D!Fail, D!structure
<1> QED
  BY <1>1, <1>2, PTL DEF Spec

\* Whatever a turn or the host does is a call of the plan graph or leaves the
\* graph alone.  (supervisor.rs run_turn, execute_plan; graph.rs.)
THEOREM TurnsUseGraph == Spec => D!Spec
<1>1. Init => D!Init
  BY DEF Init
<1>2. live \subseteq D!Slot /\ [Next]_vars => [D!Next]_D!vars
  <2> SUFFICES ASSUME live \subseteq D!Slot, [Next]_vars
               PROVE  D!Next \/ UNCHANGED D!vars
    OBVIOUS
  <2>1. ASSUME UNCHANGED graph PROVE UNCHANGED D!vars
    BY <2>1 DEF graph, D!vars, D!structure, D!lifecycle
  <2>2. ASSUME D!AddNode PROVE D!Next
    BY <2>2 DEF D!Next
  <2>3. CASE ClaimStepNode
    <3>1. D!Claim(node', Pid) /\ node' \in D!Slot
      BY <2>3 DEF ClaimStepNode, D!Claim
    <3> QED
      BY <3>1 DEF D!Next
  <2>4. CASE HandlerReturns
    <3>1. node \in D!Slot /\ \E v \in D!Value : D!Complete(node, v)
      BY <2>4 DEF HandlerReturns, D!Complete
    <3> QED
      BY <3>1 DEF D!Next
  <2>5. CASE HandlerFails
    <3>1. node \in D!Slot /\ D!Fail(node)
      BY <2>5 DEF HandlerFails, D!Fail
    <3> QED
      BY <3>1 DEF D!Next
  <2>6. ASSUME NEW n \in D!Slot, D!Release(n) \/ D!RemoveNode(n) PROVE D!Next
    BY <2>6 DEF D!Next
  <2>7. CASE TurnStep
    BY <2>7, <2>1, <2>2, <2>3, <2>4, <2>5
    DEF TurnStep, PlanArrives, PlanFails, AddStepNode, CriticDecides, CriticReflects,
        AddNodeWith
  <2>8. CASE HostStep
    BY <2>8, <2>1, <2>2, <2>6
    DEF HostStep, StartTurn, DropTurn, HostAdds, HostReleases, HostRemoves, AddNodeWith
  <2>9. CASE UNCHANGED vars
    BY <2>9, <2>1 DEF vars
  <2> QED
    BY <2>7, <2>8, <2>9 DEF Next
<1> QED
  BY <1>1, <1>2, LiveSlots, PTL DEF Spec, D!Spec

\* The instance of DagRuntime in Supervisor and the one that carries the proofs
\* are the same graph.
LEMMA SameGraph ==
  /\ D!Slot = DP!Slot
  /\ D!NewSlot = DP!NewSlot
  /\ D!TypeOK <=> DP!TypeOK
  /\ D!AddNode <=> DP!AddNode
<1>1. D!Slot = DP!Slot /\ D!NewSlot = DP!NewSlot /\ D!Value = DP!Value
  BY DEF D!Slot, DP!Slot, D!NewSlot, DP!NewSlot, D!Value, DP!Value
<1>2. D!TypeOK <=> DP!TypeOK
  BY <1>1 DEF D!TypeOK, DP!TypeOK, D!Status, DP!Status
<1>3. D!AddNode <=> DP!AddNode
  BY <1>1 DEF D!AddNode, DP!AddNode
<1> QED
  BY <1>1, <1>2, <1>3

\* They have the same behaviours.
LEMMA SameBehaviours == D!Spec <=> DP!Spec
<1>1. D!Init <=> DP!Init
  BY DEF D!Init, DP!Init, D!Slot, DP!Slot
<1>2. D!Next <=> DP!Next
  BY SameGraph
  DEF D!Next, DP!Next, D!AddEdge, DP!AddEdge, D!IsCyclic, DP!IsCyclic, D!Slot, DP!Slot,
      D!RemoveNode, DP!RemoveNode, D!Claim, DP!Claim, D!Release, DP!Release,
      D!Complete, DP!Complete, D!Fail, DP!Fail, D!Skip, DP!Skip, D!Value, DP!Value,
      D!structure, DP!structure, D!lifecycle, DP!lifecycle
<1>3. [D!Next]_D!vars <=> [DP!Next]_DP!vars
  BY <1>2 DEF D!vars, DP!vars, D!structure, DP!structure, D!lifecycle, DP!lifecycle
<1> QED
  BY <1>1, <1>3, PTL DEF D!Spec, DP!Spec

\* Types and index bookkeeping of the graph, from the theorems of DagRuntime.
LEMMA GraphFacts == Spec => [](D!TypeOK /\ DP!IndicesPartitioned)
<1>1. DP!Spec => []DP!TypeOK
  BY DP!TypeCorrect, GraphAssumption
<1>2. DP!Spec => []DP!IndicesPartitioned
  BY DP!IndicesArePartitioned, GraphAssumption
<1> QED
  BY <1>1, <1>2, TurnsUseGraph, SameBehaviours, SameGraph, PTL

-----------------------------------------------------------------------------
(* The inductive invariant *)

\* The locals of run_turn and the labels of nodes have their types, and there
\* is a step left to execute while one is looked for or runs.
TurnTyped ==
  /\ phase \in {"idle", "planning", "step", "executing", "critiquing"}
  /\ plan \in Seq(Step)
  /\ results \in Seq(D!Value)
  /\ ran \in Seq(D!Slot)
  /\ label \in [D!Slot -> Labels \cup {Null}]
  /\ phase \in {"step", "executing"} => Len(results) < Len(plan)

\* The counter of the loop is the number of the plan being made or executed,
\* and a turn that gave up had used up every one.
RoundsCounted ==
  /\ planned \in Nat /\ iteration \in Nat
  /\ phase = "planning" => iteration = planned + 1 /\ iteration <= MaxReflections
  /\ phase \in {"step", "executing", "critiquing"} => iteration = planned
  /\ phase # "idle" => outcome = "none"
  /\ planned <= MaxReflections
  /\ outcome = "exhausted" => planned = MaxReflections

\* The node of the step that runs is running, and no dropped turn left it.
NodeRuns ==
  phase = "executing" => node \in live /\ status[node] = "Running" /\ node \notin orphans

\* Step i of the plan, for every step done, has its own node, completed with
\* the recorded result; the node of the step that runs comes last.
RunLogged ==
  phase \in {"step", "executing", "critiquing"} =>
    /\ Len(ran) = IF phase = "executing" THEN Len(results) + 1 ELSE Len(results)
    /\ phase = "critiquing" => Len(results) = Len(plan)
    /\ \A i \in 1 .. Len(results) :
         /\ ran[i] \in live
         /\ status[ran[i]] = "Completed"
         /\ label[ran[i]] = plan[i].label
         /\ outputs[ran[i]] = results[i]
    /\ phase = "executing" => ran[Len(ran)] = node /\ label[node] = NextLabel
    /\ \A i, j \in 1 .. Len(ran) : ran[i] = ran[j] => i = j

Graph == D!TypeOK /\ DP!IndicesPartitioned

\* A new node takes an index nobody uses.
LEMMA NewNodeFresh ==
  ASSUME Graph, D!AddNode PROVE D!NewSlot \in D!Slot \ live
<1>1. DP!TypeOK /\ DP!IndicesPartitioned /\ DP!AddNode
  BY SameGraph DEF Graph
<1>2. DP!NewSlot \in DP!Slot \ live
  BY <1>1, DP!NewSlotFresh, GraphAssumption
<1> QED
  BY <1>2, SameGraph

\* A plan that arrives is a sequence of steps, and not empty.
LEMMA PlanTyped == ASSUME NEW p \in Plans PROVE p \in Seq(Step) /\ Len(p) > 0
BY DEF Plans, SeqOf

\* The indices of the sequence and the element that are added to.
LEMMA AppendProps ==
  ASSUME NEW S, NEW s \in Seq(S), NEW x \in S
  PROVE  /\ Append(s, x) \in Seq(S)
         /\ Len(Append(s, x)) = Len(s) + 1
         /\ Append(s, x)[Len(s) + 1] = x
         /\ \A i \in 1 .. Len(s) : Append(s, x)[i] = s[i]
OBVIOUS

-----------------------------------------------------------------------------
(* Types *)

\* There is a step to execute.
LEMMA StepLeft ==
  ASSUME TurnTyped, phase \in {"step", "executing"}
  PROVE  NextStep \in Step /\ NextLabel \in Labels
<1>1. Len(results) + 1 \in 1 .. Len(plan)
  BY DEF TurnTyped
<1>2. NextStep \in Step
  BY <1>1 DEF TurnTyped, NextStep
<1> QED
  BY <1>2 DEF NextLabel, Step

\* run_turn's locals keep their types.  (supervisor.rs run_turn.)
THEOREM TurnTypesKept == Spec => []TurnTyped
<1>1. Init => TurnTyped
  BY DEF Init, TurnTyped
<1>2. TurnTyped /\ Graph /\ [Next]_vars => TurnTyped'
  <2> SUFFICES ASSUME TurnTyped, Graph, [Next]_vars PROVE TurnTyped'
    OBVIOUS
  <2> USE DEF TurnTyped
  <2>1. ASSUME NEW o, Return(o), UNCHANGED <<ran, label>> PROVE TurnTyped'
    BY <2>1 DEF Return, D!Slot, D!Value, Step
  <2>2. CASE StartTurn
    BY <2>2 DEF StartTurn, NextRound, contents, D!Slot, D!Value, Step
  <2>3. CASE PlanArrives
    <3>1. plan' \in Seq(Step) /\ Len(plan') > 0
      BY <2>3, PlanTyped DEF PlanArrives
    <3> QED
      BY <2>3, <3>1 DEF PlanArrives, contents, D!Slot, D!Value, Step
  <2>4. ASSUME NEW l \in Labels, NEW i, AddNodeWith(l, i),
               UNCHANGED <<phase, plan, results, ran>>
        PROVE  TurnTyped'
    BY <2>4 DEF AddNodeWith, D!Slot, D!Value, Step
  <2>5. CASE AddStepNode
    <3>1. NextLabel \in Labels
      BY <2>5, StepLeft DEF AddStepNode
    <3> QED
      BY <2>5, <2>4, <3>1 DEF AddStepNode, turnVars, history
  <2>6. CASE ClaimStepNode
    <3>1. node' \in D!Slot
      BY <2>6 DEF ClaimStepNode, D!Claim, Graph, D!TypeOK
    <3> QED
      BY <2>6, <3>1, AppendProps DEF ClaimStepNode, contents, D!Slot, D!Value, Step
  <2>7. CASE HandlerReturns
    BY <2>7, AppendProps DEF HandlerReturns, contents, history, D!Slot, D!Value, Step
  <2>8. CASE CriticReflects
    BY <2>8, <2>1 DEF CriticReflects, NextRound, contents, D!Slot, D!Value, Step
  <2>9. CASE HostStep
    BY <2>9, <2>1, <2>2, <2>4
    DEF HostStep, DropTurn, HostAdds, HostReleases, HostRemoves, HostCall, contents,
        turnVars, history, D!Slot, D!Value, Step
  <2>10. CASE UNCHANGED vars
    BY <2>10 DEF vars, contents, turnVars, history, D!Slot, D!Value, Step
  <2> QED
    BY <2>1, <2>3, <2>5, <2>6, <2>7, <2>8, <2>9, <2>10
    DEF Next, TurnStep, PlanFails, HandlerFails, CriticDecides, contents, history
<1> QED
  BY <1>1, <1>2, GraphFacts, PTL DEF Spec, Graph

-----------------------------------------------------------------------------
(* The cap *)

\* A turn never asks for more than MAX_REFLECTIONS plans, whatever the cap, and
\* says "exhausted" only when it asked for that many.  (supervisor.rs run_turn.)
THEOREM CapHolds == Spec => []ReflectionsCapped
<1> USE ReflectionsAssumption
<1>1. Init => RoundsCounted
  BY DEF Init, RoundsCounted
<1>2. RoundsCounted /\ [Next]_vars => RoundsCounted'
  <2> SUFFICES ASSUME RoundsCounted, [Next]_vars PROVE RoundsCounted'
    OBVIOUS
  <2> USE DEF RoundsCounted
  <2>1. ASSUME NEW o, o # "exhausted", Return(o), UNCHANGED planned PROVE RoundsCounted'
    BY <2>1 DEF Return
  <2>2. CASE StartTurn
    BY <2>2 DEF StartTurn, NextRound
  <2>3. CASE PlanArrives
    BY <2>3 DEF PlanArrives
  <2>4. CASE ClaimStepNode \/ HandlerReturns
    BY <2>4 DEF ClaimStepNode, HandlerReturns, history
  <2>5. CASE CriticDecides
    BY <2>5, <2>1 DEF CriticDecides, Verdicts, history
  <2>6. CASE CriticReflects
    BY <2>6 DEF CriticReflects, Return, NextRound
  <2>7. ASSUME UNCHANGED <<phase, turnVars, planned>> PROVE RoundsCounted'
    BY <2>7 DEF turnVars
  <2>8. CASE HostStep
    BY <2>8, <2>1, <2>2, <2>7
    DEF HostStep, DropTurn, HostAdds, HostReleases, HostRemoves, HostCall
  <2> QED
    BY <2>1, <2>3, <2>4, <2>5, <2>6, <2>7, <2>8
    DEF Next, TurnStep, PlanFails, AddStepNode, HandlerFails, history, vars
<1>3. RoundsCounted => ReflectionsCapped
  BY DEF RoundsCounted, ReflectionsCapped
<1> QED
  BY <1>1, <1>2, <1>3, PTL DEF Spec

-----------------------------------------------------------------------------
(* Running nodes *)

\* The accounting of running nodes, strengthened by the node of the step that
\* runs: it is one of them, and none of the orphans.
LEMMA RunningInvariant == Spec => [](RunningAccounted /\ NodeRuns)
<1> DEFINE Inv == RunningAccounted /\ NodeRuns
<1>1. Init => Inv
  BY DEF Init, RunningAccounted, NodeRuns, D!Init
<1>2. Graph /\ Inv /\ [Next]_vars => Inv'
  <2> SUFFICES ASSUME Graph, Inv, [Next]_vars PROVE Inv'
    OBVIOUS
  <2> USE DEF RunningAccounted, NodeRuns
  <2>a. live \subseteq D!Slot /\ status \in [D!Slot -> D!Status]
    BY DEF Graph, D!TypeOK
  <2>1. ASSUME D!AddNode, phase # "executing", UNCHANGED <<phase, orphans>> PROVE Inv'
    <3>1. D!NewSlot \in D!Slot \ live
      BY <2>1, NewNodeFresh
    <3> QED
      BY <2>1, <2>a, <3>1 DEF D!AddNode
  <2>2. CASE ClaimStepNode
    BY <2>2, <2>a DEF ClaimStepNode, D!Claim, D!structure
  <2>3. CASE HandlerReturns
    BY <2>3, <2>a DEF HandlerReturns, D!Complete, D!structure, history
  <2>4. CASE HandlerFails
    BY <2>4, <2>a DEF HandlerFails, D!Fail, D!structure, Return, history
  <2>5. CASE DropTurn
    BY <2>5 DEF DropTurn, Return, graph
  <2>6. ASSUME NEW n \in D!Slot, HostReleases(n) PROVE Inv'
    BY <2>6, <2>a DEF HostReleases, HostCall, D!Release, D!structure
  <2>7. ASSUME NEW n \in D!Slot, HostRemoves(n) PROVE Inv'
    BY <2>7 DEF HostRemoves, HostCall, D!RemoveNode, D!lifecycle
  <2>8. ASSUME UNCHANGED <<graph, orphans>>, phase # "executing", phase' # "executing"
        PROVE  Inv'
    BY <2>8 DEF graph
  <2>9. CASE UNCHANGED vars
    BY <2>9 DEF vars, graph, turnVars, history
  <2>10. CASE TurnStep
    BY <2>10, <2>1, <2>2, <2>3, <2>4, <2>8
    DEF TurnStep, PlanArrives, PlanFails, AddStepNode, AddNodeWith, CriticDecides,
        CriticReflects, Return, NextRound, history
  <2>11. CASE HostStep
    BY <2>11, <2>1, <2>5, <2>6, <2>7, <2>8
    DEF HostStep, StartTurn, HostAdds, AddNodeWith, HostCall, NextRound
  <2> QED
    BY <2>9, <2>10, <2>11 DEF Next
<1> QED
  BY <1>1, <1>2, GraphFacts, PTL DEF Spec, Graph

\* No turn, however it ends, leaves a node Running that nobody knows of: the
\* running nodes are the one whose handler is awaited and those of dropped
\* turns that the host has not released.  (supervisor.rs execute_plan.)
THEOREM RunningNodesAccounted == Spec => []RunningAccounted
BY RunningInvariant, PTL

-----------------------------------------------------------------------------
(* Results *)

\* Indices are numbers, so there is a first one among those that match.
LEMMA FirstMatches ==
  ASSUME Graph, NEW l, Matching(l) # {} PROVE FirstMatching(l) \in Matching(l)
<1>1. Matching(l) \subseteq Nat
  <2>1. Matching(l) \subseteq D!Slot
    BY DEF Graph, D!TypeOK, Matching
  <2>2. D!Slot \subseteq Nat
    BY GraphAssumption DEF D!Slot
  <2> QED
    BY <2>1, <2>2
<1>2. \E n \in Matching(l) : \A m \in Matching(l) : n <= m
  BY <1>1, LeastNumber
<1> QED
  BY <1>2 DEF FirstMatching

\* What the critic is given is what the graph says ran, for every plan: the
\* steps' nodes are distinct, completed, labelled and carry the outputs.  It
\* rests on the log of the steps executed so far.  (supervisor.rs execute_plan,
\* find_or_add_node.)
THEOREM ResultsAreTheGraphs == Spec => []ResultsMatchGraph
<1>1. Init => RunLogged
  BY DEF Init, RunLogged
<1>2. Graph /\ TurnTyped /\ NodeRuns /\ RunLogged /\ [Next]_vars => RunLogged'
  <2> SUFFICES ASSUME Graph, TurnTyped, NodeRuns, RunLogged, [Next]_vars PROVE RunLogged'
    OBVIOUS
  <2>a. /\ live \subseteq D!Slot /\ status \in [D!Slot -> D!Status]
        /\ outputs \in [D!Slot -> D!Value \cup {Null}]
        /\ label \in [D!Slot -> Labels \cup {Null}]
        /\ results \in Seq(D!Value) /\ ran \in Seq(D!Slot)
    BY DEF Graph, D!TypeOK, TurnTyped, D!Value
  <2>1. CASE PlanArrives
    BY <2>1 DEF PlanArrives, RunLogged
  <2>2. CASE AddStepNode
    <3>1. D!NewSlot \in D!Slot \ live
      BY <2>2, NewNodeFresh DEF AddStepNode, AddNodeWith
    <3>2. \A n \in live : /\ n \in live' /\ status'[n] = status[n]
                          /\ label'[n] = label[n] /\ outputs'[n] = outputs[n]
      BY <2>2, <2>a, <3>1 DEF AddStepNode, AddNodeWith, D!AddNode
    <3> QED
      BY <2>2, <3>2 DEF AddStepNode, turnVars, history, RunLogged
  <2>3. CASE ClaimStepNode
    <3>1. node' \in Matching(NextLabel)
      BY <2>3, FirstMatches DEF ClaimStepNode
    <3>2. /\ node' \in live /\ node' \in D!Slot
          /\ status[node'] = "Pending" /\ label[node'] = NextLabel
      BY <3>1, <2>a DEF Matching
    <3>3. /\ live' = live /\ status' = [status EXCEPT ![node'] = "Running"]
          /\ outputs' = outputs /\ label' = label /\ plan' = plan /\ results' = results
          /\ ran' = Append(ran, node') /\ phase' = "executing" /\ phase = "step"
      BY <2>3 DEF ClaimStepNode, D!Claim, D!structure, contents
    <3>4. Len(ran) = Len(results) /\ Len(results) \in Nat
      BY <3>3, <2>a DEF RunLogged
    <3>5. /\ Len(ran') = Len(ran) + 1 /\ ran'[Len(ran) + 1] = node'
          /\ \A i \in 1 .. Len(ran) : ran'[i] = ran[i]
      BY <3>2, <3>3, <2>a, AppendProps
    <3>6. \A i \in 1 .. Len(ran) : ran[i] # node'
      BY <3>2, <3>3, <3>4 DEF RunLogged
    <3>7. \A i, j \in 1 .. Len(ran') : ran'[i] = ran'[j] => i = j
      BY <3>3, <3>4, <3>5, <3>6 DEF RunLogged
    <3>8. \A i \in 1 .. Len(results') :
            /\ ran'[i] \in live' /\ status'[ran'[i]] = "Completed"
            /\ label'[ran'[i]] = plan'[i].label /\ outputs'[ran'[i]] = results'[i]
      BY <3>3, <3>4, <3>5, <3>6, <2>a DEF RunLogged
    <3>9. ran'[Len(ran')] = node' /\ label'[node'] = NextLabel'
      BY <3>2, <3>3, <3>4, <3>5 DEF NextLabel, NextStep
    <3> QED
      BY <3>3, <3>4, <3>5, <3>7, <3>8, <3>9 DEF RunLogged
  <2>4. CASE HandlerReturns
    <3>1. PICK v \in D!Value : D!Complete(node, v) /\ results' = Append(results, v)
      BY <2>4 DEF HandlerReturns
    <3>2. /\ live' = live /\ status' = [status EXCEPT ![node] = "Completed"]
          /\ outputs' = [outputs EXCEPT ![node] = v]
          /\ label' = label /\ plan' = plan /\ ran' = ran
          /\ phase = "executing" /\ phase' \in {"step", "critiquing"}
          /\ phase' = "critiquing" => Len(results') = Len(plan)
      BY <2>4, <3>1 DEF HandlerReturns, D!Complete, D!structure, contents, history
    <3>3. /\ node \in live /\ node \in D!Slot /\ status[node] = "Running"
      BY <3>2, <2>a DEF NodeRuns
    <3>4. /\ Len(ran) = Len(results) + 1 /\ ran[Len(ran)] = node
          /\ label[node] = plan[Len(results) + 1].label /\ Len(results) \in Nat
      BY <3>2, <2>a DEF RunLogged, NextLabel, NextStep
    <3>5. /\ Len(results') = Len(results) + 1 /\ results'[Len(results) + 1] = v
          /\ \A i \in 1 .. Len(results) : results'[i] = results[i]
      BY <3>1, <2>a, AppendProps
    <3>6. \A i \in 1 .. Len(results) : ran[i] # node
      BY <3>2, <3>3 DEF RunLogged
    <3>7. \A i \in 1 .. Len(results) :
            /\ ran'[i] \in live' /\ status'[ran'[i]] = "Completed"
            /\ label'[ran'[i]] = plan'[i].label /\ outputs'[ran'[i]] = results'[i]
      BY <3>2, <3>5, <3>6, <2>a DEF RunLogged
    <3>8. /\ ran'[Len(results) + 1] \in live'
          /\ status'[ran'[Len(results) + 1]] = "Completed"
          /\ label'[ran'[Len(results) + 1]] = plan'[Len(results) + 1].label
          /\ outputs'[ran'[Len(results) + 1]] = results'[Len(results) + 1]
      BY <3>2, <3>3, <3>4, <3>5, <2>a
    <3>9. \A i, j \in 1 .. Len(ran') : ran'[i] = ran'[j] => i = j
      BY <3>2 DEF RunLogged
    <3> QED
      BY <3>2, <3>4, <3>5, <3>7, <3>8, <3>9 DEF RunLogged
  <2>5. ASSUME phase' \in {"idle", "planning"} PROVE RunLogged'
    BY <2>5 DEF RunLogged
  <2>6. CASE UNCHANGED vars
    BY <2>6 DEF vars, graph, contents, turnVars, history, RunLogged, NextLabel, NextStep
  <2>7. CASE TurnStep
    BY <2>7, <2>1, <2>2, <2>3, <2>4, <2>5
    DEF TurnStep, PlanFails, HandlerFails, CriticDecides, CriticReflects, Return, NextRound
  <2>8. CASE HostStep
    BY <2>8, <2>5
    DEF HostStep, StartTurn, NextRound, DropTurn, Return, HostAdds, HostReleases,
        HostRemoves, HostCall
  <2> QED
    BY <2>6, <2>7, <2>8 DEF Next
<1>3. TurnTyped /\ RunLogged => ResultsMatchGraph
  BY DEF TurnTyped, RunLogged, ResultsMatchGraph
<1> QED
  BY <1>1, <1>2, <1>3, GraphFacts, TurnTypesKept, RunningInvariant, PTL DEF Spec, Graph

=============================================================================
