------------------------------- MODULE Planner -------------------------------
(***************************************************************************)
(* The planner capability (capabilities/planner): pure functions on one    *)
(* plan.  A plan is                                                        *)
(*                                                                         *)
(*    [created, current, steps]   steps: a sequence of                     *)
(*    [id, parent, deps, status]                                           *)
(*                                                                         *)
(* Step ids are numbers because the code orders steps by id.  Titles and   *)
(* the plan's own id decide nothing and are left out.  An id the caller    *)
(* omits is generated; the model lets the caller choose either way.        *)
(***************************************************************************)
EXTENDS Integers, Sequences, FiniteSets

CONSTANTS StepIDs, NoStep

ASSUME PlannerAssumption == StepIDs \subseteq Nat /\ NoStep \notin StepIDs

Statuses == {"pending", "in_progress", "completed"}

Step == [id: StepIDs, parent: StepIDs \cup {NoStep}, deps: SUBSET StepIDs, status: Statuses]

NewPlanner == [created |-> FALSE, current |-> NoStep, steps |-> <<>>]

(* findStep *)
IDs(steps) == {steps[i].id : i \in DOMAIN steps}
IndexOf(steps, id) == CHOOSE i \in DOMAIN steps : steps[i].id = id
StepOf(steps, id) == steps[IndexOf(steps, id)]
WithStatus(steps, id, status) == [steps EXCEPT ![IndexOf(steps, id)].status = status]
WithDeps(steps, id, deps) == [steps EXCEPT ![IndexOf(steps, id)].deps = deps]
WithParent(steps, id, parent) == [steps EXCEPT ![IndexOf(steps, id)].parent = parent]

(* Kahn's algorithm, the smallest ready id first.  A parent must exist but *)
(* puts no order on the steps.                                             *)
Placeable(steps, placed) == {id \in IDs(steps) \ placed : StepOf(steps, id).deps \subseteq placed}
Smallest(ids) == CHOOSE id \in ids : \A other \in ids : id <= other
Place(steps, ordered) ==
  LET ready == Placeable(steps, IDs(ordered))
  IN  IF ready = {} THEN ordered ELSE Append(ordered, StepOf(steps, Smallest(ready)))

References(steps) == UNION {steps[i].deps \cup ({steps[i].parent} \ {NoStep}) : i \in DOMAIN steps}

topoSortSteps(steps) ==
  LET ordered[n \in 0..Len(steps)] == IF n = 0 THEN <<>> ELSE Place(steps, ordered[n - 1])
      sorted == ordered[Len(steps)]
  IN  IF References(steps) \subseteq IDs(steps) /\ Len(sorted) = Len(steps)
      THEN [ok |-> TRUE, steps |-> sorted]
      ELSE [ok |-> FALSE, steps |-> <<>>]

---------------------------------------------------------------------------
(* The state events and what they do to a plan: [ok, plan]. *)

Rejected(plan) == [ok |-> FALSE, plan |-> plan]
Accepted(plan) == [ok |-> TRUE, plan |-> plan]
Sorted(plan, steps) ==
  LET s == topoSortSteps(steps)
  IN  IF s.ok THEN Accepted([plan EXCEPT !.steps = s.steps]) ELSE Rejected(plan)

Without(steps, id) ==
  [j \in 1..(Len(steps) - 1) |-> IF j < IndexOf(steps, id) THEN steps[j] ELSE steps[j + 1]]
FilterDeps(steps, id) == [i \in DOMAIN steps |-> [steps[i] EXCEPT !.deps = @ \ {id}]]

(* Mutant: a removed step stays the current one. *)
RemoveKeepCurrent(plan, id) ==
  [plan EXCEPT !.steps = topoSortSteps(FilterDeps(Without(plan.steps, id), id)).steps]
(* Mutant: a removed step stays a dependency of others; the sort then      *)
(* fails, the code ignores that, and no step is left.                      *)
RemoveKeepDeps(plan, id) ==
  [plan EXCEPT !.steps = topoSortSteps(Without(plan.steps, id)).steps,
               !.current = IF @ = id THEN NoStep ELSE @]
(* An error of the sort is ignored, and then no step is left. *)
RemoveStep(plan, id) ==
  [plan EXCEPT !.steps = topoSortSteps(FilterDeps(Without(plan.steps, id), id)).steps,
               !.current = IF @ = id THEN NoStep ELSE @]

applyEventTo(plan, e) ==
  CASE e.name = "plan_created" -> Accepted([created |-> TRUE, current |-> NoStep, steps |-> <<>>])
    [] e.name # "plan_created" /\ ~plan.created -> Rejected(plan)
    [] plan.created /\ e.name = "step_added" ->
         IF e.step.status \in Statuses /\ e.step.id \notin IDs(plan.steps)
         THEN Sorted(plan, Append(plan.steps, e.step))
         ELSE Rejected(plan)
    [] plan.created /\ e.name = "current_step_changed" ->
         IF e.id \in IDs(plan.steps) \cup {NoStep} THEN Accepted([plan EXCEPT !.current = e.id])
         ELSE Rejected(plan)
    [] plan.created /\ e.name \in {"step_removed", "step_status_changed",
                                   "step_depends_on_changed", "step_parent_changed"} ->
         IF e.id \notin IDs(plan.steps) THEN Rejected(plan)
         ELSE CASE e.name = "step_removed" -> Accepted(RemoveStep(plan, e.id))
                [] e.name = "step_status_changed" ->
                     IF e.status \in Statuses
                     THEN Accepted([plan EXCEPT !.steps = WithStatus(@, e.id, e.status)])
                     ELSE Rejected(plan)
                [] e.name = "step_depends_on_changed" ->
                     Sorted(plan, WithDeps(plan.steps, e.id, e.deps))
                [] OTHER -> Sorted(plan, WithParent(plan.steps, e.id, e.parent))

---------------------------------------------------------------------------
(* The actions of the plan tool.  An action is written as the event it     *)
(* asks for; buildActionEvent decides whether it is granted.  The title    *)
(* action has no counterpart: it changes nothing the model keeps.          *)

AddStepGranted(plan, step) ==
  /\ step.status \in Statuses
  /\ step.id \notin IDs(plan.steps)
  /\ step.parent \in IDs(plan.steps) \cup {NoStep}
  /\ step.deps \subseteq IDs(plan.steps)
  /\ topoSortSteps(Append(plan.steps, step)).ok
RemoveStepGranted(plan, id) ==
  id \in IDs(plan.steps) /\ \A i \in DOMAIN plan.steps : plan.steps[i].parent # id
DependsOnGranted(plan, id, deps) ==
  /\ id \in IDs(plan.steps)
  /\ deps \subseteq IDs(plan.steps) \ {id}
  /\ topoSortSteps(WithDeps(plan.steps, id, deps)).ok
ParentGranted(plan, id, parent) ==
  /\ id \in IDs(plan.steps)
  /\ parent \in (IDs(plan.steps) \cup {NoStep}) \ {id}
  /\ topoSortSteps(WithParent(plan.steps, id, parent)).ok

buildActionEvent(plan, e) ==
  IF e.name = "plan_created" THEN ~plan.created
  ELSE /\ plan.created
       /\ CASE e.name = "step_added" -> AddStepGranted(plan, e.step)
            [] e.name = "step_removed" -> RemoveStepGranted(plan, e.id)
            [] e.name = "step_status_changed" -> e.id \in IDs(plan.steps) /\ e.status \in Statuses
            [] e.name = "step_depends_on_changed" -> DependsOnGranted(plan, e.id, e.deps)
            [] e.name = "step_parent_changed" -> ParentGranted(plan, e.id, e.parent)
            [] OTHER -> e.id \in IDs(plan.steps) \cup {NoStep}

(* The loop of ApplyActions: every action is checked against the draft the *)
(* earlier ones left.                                                      *)
DraftStep(d, a) ==
  IF d.ok /\ buildActionEvent(d.plan, a) THEN applyEventTo(d.plan, a) ELSE Rejected(d.plan)
Draft(plan, actions) ==
  LET draft[n \in 0..Len(actions)] ==
        IF n = 0 THEN Accepted(plan) ELSE DraftStep(draft[n - 1], actions[n])
  IN  draft[Len(actions)]

(* plannerProvider.GetContext: the keys of the fragments a plan shows the  *)
(* model, one for the plan and one per step.                               *)
PlanFragments(plan) ==
  IF plan.created THEN <<NoStep>> \o [i \in DOMAIN plan.steps |-> plan.steps[i].id] ELSE <<>>

Plan == [created: BOOLEAN, current: StepIDs \cup {NoStep}, steps: Seq(Step)]

(* The actions as the tool's schema lets callers write them: a status may  *)
(* be any string.                                                          *)
Actions ==
  [name: {"plan_created"}]
  \cup [name: {"step_added"},
        step: [id: StepIDs, parent: StepIDs \cup {NoStep}, deps: SUBSET StepIDs, status: STRING]]
  \cup [name: {"step_removed"}, id: StepIDs]
  \cup [name: {"step_status_changed"}, id: StepIDs, status: STRING]
  \cup [name: {"step_depends_on_changed"}, id: StepIDs, deps: SUBSET StepIDs]
  \cup [name: {"step_parent_changed"}, id: StepIDs, parent: StepIDs \cup {NoStep}]
  \cup [name: {"current_step_changed"}, id: StepIDs \cup {NoStep}]

(* The steps of a plan are in the order topoSortSteps gives them, after    *)
(* any sequence of additions, removals and changes of dependencies, and    *)
(* every dependency exists and comes first.                                *)
WellFormed(plan) ==
  /\ topoSortSteps(plan.steps) = [ok |-> TRUE, steps |-> plan.steps]
  /\ \A i \in DOMAIN plan.steps : plan.steps[i].deps \subseteq {plan.steps[j].id : j \in 1..(i - 1)}
CurrentExists(plan) == plan.current \in IDs(plan.steps) \cup {NoStep}
=============================================================================
