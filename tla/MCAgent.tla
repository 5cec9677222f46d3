------------------------------ MODULE MCAgent -------------------------------
(***************************************************************************)
(* What an agent keeps and rebuilds from its thread: the conversation      *)
(* (Turns) and everything beside it (AgentState).  The two read and write  *)
(* different events, so a behaviour is about one of them, the subject, and *)
(* the other rests.                                                        *)
(*                                                                         *)
(* Turns: three turns of at most two steps, one context fragment,          *)
(* compactions that keep two nodes.  AgentState: one planner with two      *)
(* steps and two callers, two sources of skills, five events.              *)
(***************************************************************************)
EXTENDS AgentState, TLC

CONSTANTS Fragments, Contents, Absent, MaxSteps, KeepWindow, MaxTurns, MaxNodes, MaxFails

VARIABLES subject,                                                \* what a behaviour is about
          thread, nodes, floor, records, turns, turn            \* of Turns

T == INSTANCE Turns

turnsVars == <<thread, nodes, floor, records, turns, turn>>
allVars == <<subject, vars, turnsVars>>

AgentInit == subject \in {"conversation", "state"} /\ Init /\ T!Init

AgentNext ==
  /\ UNCHANGED subject
  /\ \/ subject = "conversation" /\ T!Next /\ UNCHANGED vars
     \/ subject = "state" /\ Next /\ UNCHANGED turnsVars

AgentSpec == AgentInit /\ [][AgentNext]_allVars

-----------------------------------------------------------------------------
(* Single actions, and batches whose later action needs the earlier one or *)
(* undoes what it relies on.                                               *)
MCStep(id, deps, parent) == [id |-> id, parent |-> parent, deps |-> deps, status |-> "pending"]
MCAdd(id, deps, parent) == [name |-> "step_added", step |-> MCStep(id, deps, parent)]
MCBatches ==
  {<<[name |-> "plan_created"]>>,
   <<[name |-> "plan_created"], MCAdd(2, {}, NoStep)>>,
   <<MCAdd(1, {}, NoStep)>>, <<MCAdd(1, {2}, NoStep)>>, <<MCAdd(1, {}, 2)>>,
   <<MCAdd(1, {2}, NoStep), [name |-> "step_removed", id |-> 2]>>,
   <<[name |-> "step_removed", id |-> 2]>>,
   <<[name |-> "step_status_changed", id |-> 2, status |-> "completed"], [name |-> "step_removed", id |-> 1]>>,
   <<[name |-> "step_depends_on_changed", id |-> 2, deps |-> {1}]>>,
   <<[name |-> "step_parent_changed", id |-> 2, parent |-> 1]>>,
   <<[name |-> "current_step_changed", id |-> 2]>>}

MCSources == <<[order |-> 1, dirs |-> <<[name |-> "go", refs |-> {1}], [name |-> "base", refs |-> {}]>>],
               [order |-> 0, dirs |-> <<[name |-> "go", refs |-> {1, 2, 3}]>>]>>
MCRefCalls == {<<>>, <<2, 1>>, <<1, 9>>}
MCSymmetry == Permutations(Callers)

(* Bound: a behaviour ends when a second part of the state has drifted from  *)
(* the log; the parts share no step but Reset and Resume.                    *)
OneUnexplainedPart == Cardinality(drift \ {"overtaken"}) <= 1

(* Bound: where an append has left lines behind, two turns and four nodes;   *)
(* of the other parts' events, one less where one has or a part has drifted. *)
ShortAfterAFailure ==
  /\ thread.fails > 0 => turns <= 2 /\ Len(nodes) <= 4
  /\ unwritten # <<>> \/ drift # {} => Len(log) + Len(unwritten) < MaxLog

ASSUME T!TurnsAssumption

-----------------------------------------------------------------------------
(* Resuming a thread gives the messages, the continuation and the records    *)
(* of the process that stopped (ResumeHistoryFromThread, Replay).            *)
ResumeRebuilds == T!ResumeRebuilds

(* Tool calls and results are paired in every replayed request, over a well  *)
(* formed state (normalizeMessages).                                         *)
ReplayedRequestsArePaired == T!ReplayedRequestsArePaired

(* A continued response knows no message outside the projected history       *)
(* (ContinuationsAtHead).                                                    *)
ContinuationIsOfThisHistory == T!ContinuationIsOfThisHistory

(* A committed turn tells of every record it changed (injectSystemContextDiff). *)
TurnKeepsItsContext == T!TurnKeepsItsContext
=============================================================================
