------------------------------ MODULE Supervisor ------------------------------
(***************************************************************************)
(* Turns of the agent quartet: Supervisor::run_turn plans, executes the    *)
(* steps one after the other on the plan graph (module DagRuntime), lets   *)
(* the critic judge, and reflects at most MAX_REFLECTIONS times.           *)
(*                                                                         *)
(* run_turn borrows the graph mutably, so nothing else touches it during a *)
(* turn.  Between turns the host may add, remove and release nodes.  A     *)
(* turn can be suspended only at its awaits (planner, handler, critic):    *)
(* there the host may drop the future, and the turn ends on the spot.      *)
(***************************************************************************)
EXTENDS Naturals, FiniteSets, SequencesExt

CONSTANTS
  Labels,         \* step labels the planner may name
  Inputs,         \* inputs a step or a node may be given
  Registered,     \* labels the Executor has a handler for
  Pid,            \* ctx.identity.pid
  NoPid, Outputs, Null, MaxSlots, MaxAdds,   \* see DagRuntime
  MaxReflections, \* MAX_REFLECTIONS
  MaxSteps,       \* bound: steps of a plan (Planner::max_steps)
  MaxHostCalls,   \* bound: calls on the graph by the host
  MaxTurns        \* bound: turns the host starts

ASSUME RegisteredAssumption == Registered \subseteq Labels
ASSUME ReflectionsAssumption == MaxReflections \in Nat \ {0}
ASSUME GraphAssumption ==
  NoPid # Pid /\ Null \notin Outputs /\ MaxSlots \in Nat /\ MaxAdds \in Nat

VARIABLES
  live, id, free, top, edges, status, claimed, outputs, failed, slotOf,
  label,      \* DagNode.label, by index
  inputs,     \* DagNode.inputs, by index
  phase,      \* where run_turn stands
  iteration,  \* run_turn's counter
  plan,       \* plan.steps
  node,       \* idx of the step being executed
  results,    \* outputs of the steps executed so far
  outcome,    \* what the last turn returned
  turns,      \* turns started
  hostCalls,  \* the host's calls on the graph so far
  planned,    \* history: planner calls answered in this turn
  ran,        \* history: indices of the executed steps of this plan
  orphans     \* history: nodes a dropped turn left Running

D == INSTANCE DagRuntime WITH Pids <- {Pid}

graph ==
  <<live, id, free, top, edges, status, claimed, outputs, failed, slotOf>>
turnVars == <<iteration, plan, node, results, outcome>>
counters == <<turns, hostCalls>>
history == <<planned, ran, orphans>>
contents == <<label, inputs>>
vars == <<graph, contents, phase, turnVars, counters, history>>

Step == [label : Labels, inputs : Inputs]
Plans == SeqOf(Step, MaxSteps) \ {<<>>}

-----------------------------------------------------------------------------
(* find_or_add_node *)

Matching(l) == {n \in live : label[n] = l /\ status[n] = "Pending"}

FirstMatching(l) == CHOOSE n \in Matching(l) : \A m \in Matching(l) : n <= m

-----------------------------------------------------------------------------
Init ==
  /\ D!Init
  /\ label = [n \in D!Slot |-> Null]
  /\ inputs = [n \in D!Slot |-> Null]
  /\ phase = "idle"
  /\ iteration = 0
  /\ plan = <<>>
  /\ node = 0
  /\ results = <<>>
  /\ outcome = "none"
  /\ turns = 0
  /\ hostCalls = 0
  /\ planned = 0
  /\ ran = <<>>
  /\ orphans = {}

\* run_turn returns (or its future is dropped): its locals are gone.
Return(o) ==
  /\ phase' = "idle"
  /\ outcome' = o
  /\ iteration' = 0
  /\ plan' = <<>>
  /\ node' = 0
  /\ results' = <<>>

\* The next round: the planner is asked with the goal and the graph only.
NextRound(i) ==
  /\ phase' = "planning"
  /\ iteration' = i

StartTurn ==
  /\ phase = "idle"
  /\ turns < MaxTurns
  /\ turns' = turns + 1
  /\ NextRound(1)
  /\ planned' = 0
  /\ ran' = <<>>
  /\ outcome' = "none"
  /\ UNCHANGED <<graph, contents, plan, node, results, hostCalls,
                 orphans>>

\* Planner::plan returned a plan.  last_feedback is now appended to the goal the
\* critic will read; nothing else depends on it and it is left out.
PlanArrives ==
  /\ phase = "planning"
  /\ \E p \in Plans : plan' = p
  /\ results' = <<>>
  /\ ran' = <<>>
  /\ planned' = planned + 1
  /\ phase' = "step"
  /\ UNCHANGED <<graph, contents, iteration, node, outcome, counters, orphans>>

\* A provider error, an answer that is no plan, an empty or an oversized plan.
PlanFails ==
  /\ phase = "planning"
  /\ Return("error")
  /\ UNCHANGED <<graph, contents, counters, history>>

-----------------------------------------------------------------------------
(* execute_plan *)

NextStep == plan[Len(results) + 1]

\* Executor::execute finds a handler for the label.
Handles(l) == l \in Registered
NextLabel == NextStep.label

AddNodeWith(l, i) ==
  /\ D!AddNode
  /\ label' = [label EXCEPT ![D!NewSlot] = l]
  /\ inputs' = [inputs EXCEPT ![D!NewSlot] = i]

\* find_or_add_node found no pending node with the step's label.
AddStepNode ==
  /\ phase = "step"
  /\ Matching(NextLabel) = {}
  /\ AddNodeWith(NextLabel, NextStep.inputs)
  /\ UNCHANGED <<phase, turnVars, counters, history>>

ClaimStepNode ==
  /\ phase = "step"
  /\ Matching(NextLabel) # {}
  /\ node' = FirstMatching(NextLabel)
  /\ D!Claim(node', Pid)
  /\ ran' = Append(ran, node')
  /\ phase' = "executing"
  /\ UNCHANGED <<contents, iteration, plan, results, outcome, counters,
                 planned, orphans>>

\* Mutant: the output goes to the plan's results but not to the node.
HandlerReturnsUnrecorded ==
  /\ phase = "executing"
  /\ Handles(NextLabel)
  /\ \E v \in D!Value : results' = Append(results, v)
  /\ phase' = IF Len(results') = Len(plan) THEN "critiquing" ELSE "step"
  /\ UNCHANGED <<graph, contents, iteration, plan, node, outcome, counters,
                 history>>

HandlerReturns ==
  /\ phase = "executing"
  /\ Handles(NextLabel)
  /\ \E v \in D!Value :
       /\ D!Complete(node, v)
       /\ results' = Append(results, v)
  /\ phase' = IF Len(results') = Len(plan) THEN "critiquing" ELSE "step"
  /\ UNCHANGED <<contents, iteration, plan, node, outcome, counters, history>>

\* Mutant: the turn returns and forgets to fail the node.
HandlerFailsUnrecorded ==
  /\ phase = "executing"
  /\ Return("failed")
  /\ UNCHANGED <<graph, contents, counters, history>>

\* Mutant: a step that failed is released and tried again.
HandlerFailsRetried ==
  /\ phase = "executing"
  /\ D!Release(node)
  /\ ran' = Front(ran)
  /\ phase' = "step"
  /\ UNCHANGED <<contents, turnVars, counters, planned, orphans>>

\* The handler returned an error, or there is none for the label.
HandlerFails ==
  /\ phase = "executing"
  /\ D!Fail(node)
  /\ Return("failed")
  /\ UNCHANGED <<contents, counters, history>>

-----------------------------------------------------------------------------
(* The critic's verdict *)

\* Accept, Reject, or no verdict at all: a provider error, an answer that is no
\* critique, or one without reasoning.
Verdicts == {"success", "failed", "error"}

CriticDecides ==
  /\ phase = "critiquing"
  /\ \E o \in Verdicts : Return(o)
  /\ UNCHANGED <<graph, contents, counters, history>>

\* Mutant: the cap is compared before the counter is stepped.
CriticReflectsOffByOne ==
  /\ phase = "critiquing"
  /\ IF iteration > MaxReflections
     THEN Return("exhausted")
     ELSE /\ NextRound(iteration + 1)
          /\ UNCHANGED <<plan, node, results, outcome>>
  /\ UNCHANGED <<graph, contents, counters, planned, ran, orphans>>

CriticReflects ==
  /\ phase = "critiquing"
  /\ IF iteration + 1 > MaxReflections
     THEN Return("exhausted")
     ELSE /\ NextRound(iteration + 1)
          /\ UNCHANGED <<plan, node, results, outcome>>
  /\ UNCHANGED <<graph, contents, counters, planned, ran, orphans>>

-----------------------------------------------------------------------------
(* The host *)

\* The future is dropped at an await.  The graph stays as it is.
DropTurn ==
  /\ phase \in {"planning", "executing", "critiquing"}
  /\ orphans' = IF phase = "executing" THEN orphans \cup {node} ELSE orphans
  /\ Return("dropped")
  /\ UNCHANGED <<graph, contents, counters, planned, ran>>

HostCall ==
  /\ phase = "idle"
  /\ hostCalls < MaxHostCalls
  /\ hostCalls' = hostCalls + 1
  /\ UNCHANGED <<phase, turnVars, turns, planned, ran>>

HostAdds(l) ==
  /\ HostCall
  /\ \E i \in Inputs : AddNodeWith(l, i)
  /\ UNCHANGED orphans

HostReleases(n) ==
  /\ HostCall
  /\ n \in orphans
  /\ D!Release(n)
  /\ orphans' = orphans \ {n}
  /\ UNCHANGED contents

HostRemoves(n) ==
  /\ HostCall
  /\ D!RemoveNode(n)
  /\ orphans' = orphans \ {n}
  /\ UNCHANGED contents

TurnStep ==
  \/ PlanArrives \/ PlanFails
  \/ AddStepNode \/ ClaimStepNode
  \/ HandlerReturns \/ HandlerFails
  \/ CriticDecides \/ CriticReflects

HostStep ==
  \/ StartTurn
  \/ DropTurn
  \/ \E l \in Labels : HostAdds(l)
  \/ \E n \in D!Slot : HostReleases(n)
  \/ \E n \in D!Slot : HostRemoves(n)

Next == TurnStep \/ HostStep

Spec == Init /\ [][Next]_vars

\* The provider answers every call and every handler returns.
FairSpec == Spec /\ WF_vars(TurnStep)

-----------------------------------------------------------------------------
(* Properties *)

\* The results handed to the critic are exactly what the graph says ran: one
\* completed node per step, with the step's label and output, all distinct.
\* (supervisor.rs execute_plan and find_or_add_node, graph.rs complete.)
ResultsMatchGraph ==
  phase = "critiquing" =>
    /\ Len(results) = Len(plan)
    /\ Len(ran) = Len(plan)
    /\ \A i \in DOMAIN plan :
         /\ ran[i] \in live
         /\ status[ran[i]] = "Completed"
         /\ label[ran[i]] = plan[i].label
         /\ outputs[ran[i]] = results[i]
    /\ \A i, j \in DOMAIN ran : ran[i] = ran[j] => i = j

\* A node is Running only while its handler is awaited, or because the turn
\* that ran it was dropped.  In particular a failed turn leaves none behind.
\* (supervisor.rs execute_plan: every exit of the handler's await.)
RunningAccounted ==
  {n \in live : status[n] = "Running"}
    = orphans \cup (IF phase = "executing" THEN {node} ELSE {})

\* A turn asks for at most MAX_REFLECTIONS plans, and gives up only after
\* that many were executed.  (supervisor.rs run_turn.)
ReflectionsCapped ==
  /\ planned <= MaxReflections
  /\ outcome = "exhausted" => planned = MaxReflections

\* With a provider that answers and handlers that return, every turn ends.
\* (supervisor.rs run_turn.)
TurnEnds == phase # "idle" ~> phase = "idle"

=============================================================================
