----------------------------- MODULE AgentState -----------------------------
(***************************************************************************)
(* What an agent keeps beside its conversation and rebuilds from its       *)
(* thread: attached capabilities with their plans (capability.Manager,     *)
(* the planner), activated skills, and the usage tracker (agent.Instance). *)
(*                                                                         *)
(* The plan action is callable from a turn and from parallel workflow      *)
(* steps, and the planner has no lock: a call drafts on the plan it sees,  *)
(* appends its events, and applies them one by one, each time looking      *)
(* whether its context was cancelled, reading the plan and then setting    *)
(* it.                                                                     *)
(*                                                                         *)
(* An append to the thread succeeds or fails.  One that fails may leave    *)
(* its events behind: the handle's memory has taken them, the file has the *)
(* first few or none of them, and the next append that succeeds, of        *)
(* whatever events, writes all of them before its own                      *)
(* (jsonlstore.liveThread.Append).                                         *)
(*                                                                         *)
(* drift is a history variable.  It names the parts of the state that the  *)
(* log no longer explains: a part is added by exactly the steps whose      *)
(* comments say so, and a resume empties it.  "overtaken" stays with the   *)
(* log: it holds a batch that was drafted on another plan than its own,    *)
(* or that no plan in memory was ever given.                               *)
(***************************************************************************)
EXTENDS Planner, Skills

CONSTANTS Instances,   \* capability instance ids of the agent specification
          Detached,    \* the plan of an instance that is not attached
          Callers,     \* concurrent callers of the plan action
          Batches,     \* sequences of plan actions a caller may send
          Paths,       \* reference paths a user may type (numbers, for they are sorted)
          RefCalls,    \* sequences of paths the skill tool may be given
          MaxLog,      \* bound on the events of a thread
          MaxUsage     \* bound on the usage records of a process

ASSUME AgentStateAssumption ==
  /\ MaxLog \in Nat /\ MaxUsage \in Nat
  /\ Startable
  /\ Detached \notin Plan
  /\ Batches \subseteq Seq(Actions) \ {<<>>}   \* an empty batch is refused
  /\ Paths \subseteq Nat /\ RefCalls \subseteq Seq(Nat)

VARIABLES log,      \* events of the agent's thread
          unwritten, \* events of failed appends that the thread's handle keeps
          plans,    \* instance -> plan, or Detached
          call,     \* caller -> [at, inst, base, events]
          skills,   \* activation state
          system,   \* materialized system prompt
          tracker,  \* number of usage records
          drift,    \* parts the log does not explain (history variable)
          live      \* FALSE once a resume failed

vars == <<log, unwritten, plans, call, skills, system, tracker, drift, live>>

Idle == [at |-> "idle", inst |-> Detached, base |-> NewPlanner, events |-> <<>>]
NoPlans == [i \in Instances |-> Detached]
Quiet == \A c \in Callers : call[c] = Idle

---------------------------------------------------------------------------
(* Events and the replay of a log. *)

AttachEvent(i) == [kind |-> "attached", inst |-> i]
DispatchEvent(i, event) == [kind |-> "dispatched", inst |-> i, event |-> event]

ReferenceEvents(name, order, n) ==
  [k \in 1..n |-> [kind |-> "reference", name |-> name, path |-> order[k]]]

(* The orders a set of paths can be sorted in: the one ActivateReferences  *)
(* returns the newly active paths in.                                      *)
Ascending(paths) ==
  {s \in [1..Cardinality(paths) -> paths] :
     /\ \A i, j \in DOMAIN s : i < j => s[i] < s[j]
     /\ \A p \in paths : \E i \in DOMAIN s : s[i] = p}

(* What the prompt says of the skills; the rest of it does not change. *)
refreshMaterializedSystem(s) == Materialize(s)

(* Manager.Replay, one event: an event of an instance that is not attached *)
(* or that the plan rejects makes the replay fail.                         *)
ReplayStep(r, e) ==
  CASE ~r.ok \/ e.kind \notin {"attached", "dispatched"} -> r
    [] r.ok /\ e.kind = "attached" -> [r EXCEPT !.plans[e.inst] = NewPlanner]
    [] r.ok /\ e.kind = "dispatched" ->
         IF r.plans[e.inst] = Detached THEN [r EXCEPT !.ok = FALSE]
         ELSE LET a == applyEventTo(r.plans[e.inst], e.event)
              IN  [r EXCEPT !.ok = a.ok, !.plans[e.inst] = a.plan]
Replay(events) ==
  LET replayed[n \in 0..Len(events)] ==
        IF n = 0 THEN [ok |-> TRUE, plans |-> NoPlans] ELSE ReplayStep(replayed[n - 1], events[n])
  IN  replayed[Len(events)]

(* replaySkillEvents: what can no longer be activated is skipped. *)
ReplaySkillStep(s, e) ==
  CASE e.kind = "skill" -> ActivateSkill(s, e.name).state
    [] e.kind = "reference" -> ActivateReferences(s, e.name, <<e.path>>).state
    [] OTHER -> s
replaySkillEvents(events) ==
  LET replayed[n \in 0..Len(events)] ==
        IF n = 0 THEN NewActivationState ELSE ReplaySkillStep(replayed[n - 1], events[n])
  IN  replayed[Len(events)]

(* replayUsageEvents: no record carries a request id, so none is dropped. *)
replayUsageEvents(events) == Cardinality({i \in DOMAIN events : events[i].kind = "usage"})

---------------------------------------------------------------------------
Init ==
  /\ log = <<>> /\ unwritten = <<>>
  /\ plans = NoPlans
  /\ call = [c \in Callers |-> Idle]
  /\ skills = NewActivationState
  /\ system = refreshMaterializedSystem(NewActivationState)
  /\ tracker = 0
  /\ drift = {}
  /\ live = TRUE

(* n more lines fit, also when the kept events are written again. *)
Room(n) == live /\ Len(log) + Len(unwritten) + n <= MaxLog

---------------------------------------------------------------------------
(* liveThread.Append *)

(* The parts that events which no process applied put out of step. *)
Unapplied(events) ==
  IF \E k \in DOMAIN events : events[k].kind \in {"attached", "dispatched"}
  THEN {"plans", "overtaken"} ELSE {}

(* The append succeeds: what earlier ones left behind is written first.    *)
(* changed: the parts that the new events put out of step.                 *)
AppendWrites(events, changed) ==
  /\ Room(Len(events))
  /\ log' = log \o unwritten \o events
  /\ unwritten' = <<>>
  /\ drift' = drift \cup Unapplied(unwritten) \cup changed

(* The append of events fails, after those of done have succeeded: before  *)
(* the handle's memory takes the events (a context that is done), or after *)
(* it, with the first n lines of what was to be written on the file.       *)
AppendFails(done, events, changed) ==
  LET before == IF done = <<>> THEN <<>> ELSE unwritten \o done
      left == IF done = <<>> THEN unwritten ELSE <<>>
      kept == left \o events
  IN  \/ /\ Room(Len(done))
         /\ log' = log \o before
         /\ unwritten' = left
         /\ drift' = drift \cup Unapplied(before) \cup changed
      \/ \E n \in 0..Len(kept) :
           /\ Room(Len(done) + Len(events) + n)
           /\ log' = log \o (before \o SubSeq(kept, 1, n))
           /\ unwritten' = kept
           /\ drift' = drift \cup Unapplied(before \o SubSeq(kept, 1, n)) \cup changed

(* The thread's other writers (turns, renders, workflows), whose own       *)
(* events do not matter here, write what was left behind all the same.     *)
OtherAppend ==
  /\ live /\ unwritten # <<>>
  /\ AppendWrites(<<>>, {}) \/ AppendFails(<<>>, <<>>, {})
  /\ UNCHANGED <<plans, call, skills, system, tracker, live>>

---------------------------------------------------------------------------
(* Mutant: the instance exists although nothing was written. *)
AttachUnrecorded(i) ==
  /\ Room(1)
  /\ plans' = [plans EXCEPT ![i] = NewPlanner]
  /\ UNCHANGED <<log, unwritten, call, skills, system, tracker, drift, live>>
(* Manager.Attach: the event is written first, the instance exists only if *)
(* that worked.                                                            *)
Attach(i) ==
  /\ live
  /\ \/ AppendWrites(<<AttachEvent(i)>>, {}) /\ plans' = [plans EXCEPT ![i] = NewPlanner]
     \/ AppendFails(<<>>, <<AttachEvent(i)>>, {}) /\ UNCHANGED plans
  /\ UNCHANGED <<call, skills, system, tracker, live>>

(* EnsureCapabilities at the start of a turn. *)
EnsureCapabilities(i) == plans[i] = Detached /\ Attach(i)

(* ApplyActions up to the append: the batch is checked as a whole against  *)
(* a copy of the plan.                                                     *)
ApplyActionsDraft(c, i, batch) ==
  /\ Room(Len(batch))
  /\ call[c] = Idle
  /\ plans[i] # Detached
  /\ Draft(plans[i], batch).ok
  /\ call' = [call EXCEPT ![c] = [at |-> "drafted", inst |-> i, base |-> plans[i], events |-> batch]]
  /\ UNCHANGED <<log, unwritten, plans, skills, system, tracker, drift, live>>

(* A call whose batch is on the thread and not in the plan yet. *)
Applying == {"appended", "applied"}

Overtaken(c) ==
  LET i == call[c].inst
  IN  \/ plans[i] # call[c].base
      \/ \E d \in Callers \ {c} : call[d].at \in Applying /\ call[d].inst = i
      \/ "plans" \in drift

(* The append.  A batch drafted on a plan that another caller has changed  *)
(* meanwhile, or is about to change, or that is not the plan of the log,   *)
(* is appended all the same.                                               *)
ApplyActionsAppend(c) ==
  /\ call[c].at = "drafted"
  /\ LET events == [k \in DOMAIN call[c].events |-> DispatchEvent(call[c].inst, call[c].events[k])]
     IN  \/ /\ AppendWrites(events, IF Overtaken(c) THEN {"plans", "overtaken"} ELSE {})
            /\ call' = [call EXCEPT ![c].at = "appended"]
         \/ /\ AppendFails(<<>>, events, {})
            /\ call' = [call EXCEPT ![c] = Idle]
  /\ UNCHANGED <<plans, skills, system, tracker, live>>

(* Planner.ApplyEvent for the next event of the batch, up to the copy with *)
(* the event applied.  The call ends with an error, and leaves the rest of *)
(* the batch unapplied, when its context is cancelled or the plan has      *)
(* become one that rejects the event.                                      *)
ApplyActionsApply(c) ==
  /\ call[c].at = "appended"
  /\ LET a == applyEventTo(plans[call[c].inst], Head(call[c].events))
     IN  \/ /\ a.ok
            /\ call' = [call EXCEPT ![c] = [at |-> "applied", inst |-> call[c].inst, base |-> a.plan,
                                            events |-> Tail(call[c].events)]]
            /\ UNCHANGED drift
         \/ /\ call' = [call EXCEPT ![c] = Idle]
            /\ drift' = drift \cup {"plans"}
  /\ UNCHANGED <<log, unwritten, plans, skills, system, tracker, live>>

(* The copy becomes the plan, whatever the plan is by then. *)
ApplyActionsSet(c) ==
  /\ call[c].at = "applied"
  /\ plans' = [plans EXCEPT ![call[c].inst] = call[c].base]
  /\ call' = [call EXCEPT ![c] = IF call[c].events = <<>> THEN Idle
                                 ELSE [call[c] EXCEPT !.at = "appended"]]
  /\ UNCHANGED <<log, unwritten, skills, system, tracker, drift, live>>

---------------------------------------------------------------------------
(* Instance.ActivateSkill.  The state changes before the event is written: *)
(* if the append fails the skill is active, the prompt is not refreshed,   *)
(* and no later activation writes the event.                               *)
InstanceActivateSkill(name) ==
  /\ live
  /\ LET a == ActivateSkill(skills, name)
     IN  /\ a.ok
         /\ skills' = a.state
         /\ \/ /\ ~IsActive(skills, name)
               /\ AppendWrites(<<[kind |-> "skill", name |-> name]>>, {})
               /\ system' = refreshMaterializedSystem(a.state)
            \/ /\ ~IsActive(skills, name)
               /\ AppendFails(<<>>, <<[kind |-> "skill", name |-> name]>>, {"skills"})
               /\ UNCHANGED system
            \/ /\ IsActive(skills, name)
               /\ system' = refreshMaterializedSystem(a.state)
               /\ UNCHANGED <<log, unwritten, drift>>
  /\ UNCHANGED <<plans, call, tracker, live>>

(* Instance.ActivateSkillReferences: one event per newly active path, in   *)
(* order, up to the first failing append.  A refused path leaves earlier   *)
(* ones active and unrecorded.  shown is the prompt of a failing call.     *)
InstanceActivateSkillReferences(name, paths, shown) ==
  /\ live
  /\ LET a == ActivateReferences(skills, name, paths)
         new == Cardinality(a.activated)
     IN  /\ skills' = a.state
         /\ \E order \in Ascending(a.activated) :
              \/ /\ ~a.ok
                 /\ drift' = IF skills' # skills THEN drift \cup {"skills"} ELSE drift
                 /\ system' = shown
                 /\ UNCHANGED <<log, unwritten>>
              \/ /\ a.ok /\ new = 0
                 /\ system' = refreshMaterializedSystem(a.state)
                 /\ UNCHANGED <<log, unwritten, drift>>
              \/ /\ a.ok /\ new > 0
                 /\ AppendWrites(ReferenceEvents(name, order, new), {})
                 /\ system' = refreshMaterializedSystem(a.state)
              \/ /\ a.ok
                 /\ \E n \in 0..(new - 1) :
                      AppendFails(ReferenceEvents(name, order, n), <<ReferenceEvents(name, order, new)[n + 1]>>,
                                  {"skills"})
                 /\ system' = shown
  /\ UNCHANGED <<plans, call, tracker, live>>

(* The session commands /skill NAME and /skill ref NAME PATH. *)
skillCommand(name) == InstanceActivateSkill(name)
skillReferenceActivateCommand(name, path) == InstanceActivateSkillReferences(name, <<path>>, system)

(* One action of the skill tool: references are refused while the skill is *)
(* inactive; otherwise the skill is activated again, which refreshes the   *)
(* prompt, before its references are.                                      *)
skillTool(name, paths) ==
  \/ paths = <<>> /\ InstanceActivateSkill(name)
  \/ /\ paths # <<>>
     /\ IsActive(skills, name)
     /\ InstanceActivateSkillReferences(name, paths, refreshMaterializedSystem(skills))

(* recordEvent and persistUsageEvent: a record that cannot be written is   *)
(* counted all the same.                                                   *)
RecordUsage ==
  /\ live
  /\ tracker < MaxUsage
  /\ tracker' = tracker + 1
  /\ AppendWrites(<<[kind |-> "usage"]>>, {}) \/ AppendFails(<<>>, <<[kind |-> "usage"]>>, {"usage"})
  /\ UNCHANGED <<plans, call, skills, system, live>>

---------------------------------------------------------------------------
(* Instance.Reset: a new thread.  The skills stay active and the new       *)
(* thread does not know of them.  If no thread can be created the agent    *)
(* keeps the old one, with an empty tracker.                               *)
Reset ==
  /\ live /\ Quiet
  /\ tracker' = 0
  /\ \/ /\ log' = <<>> /\ unwritten' = <<>>
        /\ plans' = NoPlans
        /\ drift' = IF skills = NewActivationState THEN {} ELSE {"skills"}
     \/ /\ drift' = IF tracker > 0 THEN drift \cup {"usage"} ELSE drift
        /\ UNCHANGED <<log, unwritten, plans>>
  /\ UNCHANGED <<call, skills, system, live>>

(* The session command /new. *)
newCommand == Reset

(* A new manager over the events of the branch. *)
ResumeThreadRuntime == Replay(log)

(* The process stops and the session is opened again (initSession), from   *)
(* the file.  A log the replay rejects cannot be opened.                   *)
Resume ==
  /\ live
  /\ call' = [c \in Callers |-> Idle]
  /\ unwritten' = <<>>
  /\ \/ /\ ResumeThreadRuntime.ok
        /\ plans' = ResumeThreadRuntime.plans
        /\ skills' = replaySkillEvents(log)
        /\ system' = refreshMaterializedSystem(skills')
        /\ tracker' = replayUsageEvents(log)
        /\ drift' = drift \cap {"overtaken"}
        /\ UNCHANGED <<live, log>>
     \/ /\ ~ResumeThreadRuntime.ok
        /\ live' = FALSE
        /\ UNCHANGED <<log, plans, skills, system, tracker, drift>>

Next ==
  \/ \E i \in Instances : EnsureCapabilities(i)
  \/ \E c \in Callers : \/ \E i \in Instances, b \in Batches : ApplyActionsDraft(c, i, b)
                        \/ ApplyActionsAppend(c)
                        \/ ApplyActionsApply(c)
                        \/ ApplyActionsSet(c)
  \/ \E n \in SkillNames : \/ skillCommand(n)
                           \/ \E p \in Paths : skillReferenceActivateCommand(n, p)
                           \/ \E p \in RefCalls : skillTool(n, p)
  \/ RecordUsage
  \/ OtherAppend
  \/ newCommand
  \/ Resume
  \/ ~live /\ UNCHANGED vars

Spec == Init /\ [][Next]_vars

---------------------------------------------------------------------------
AgentStateTypeOK ==
  /\ \A k \in DOMAIN log : log[k].kind \in {"attached", "dispatched", "skill", "reference", "usage"}
  /\ \A i \in Instances : plans[i] = Detached \/ plans[i] \in Plan
  /\ skills \in SkillState
  /\ drift \subseteq {"plans", "overtaken", "skills", "usage"}

(* The manager's context provider: the fragments of all instances, in the  *)
(* order of their ids, each key prefixed with the id.  Two equal keys make *)
(* the provider fail, and with it every turn.                              *)
AttachedFragments(i) == IF plans[i] = Detached THEN <<>> ELSE PlanFragments(plans[i])
ContextRenders ==
  \A i \in Instances : LET keys == AttachedFragments(i)
                       IN  \A j, k \in DOMAIN keys : keys[j] = keys[k] => j = k

(* Whatever sequence of plan actions ran, by however many callers, every   *)
(* plan in memory, also one rebuilt by a resume, has its steps in the      *)
(* order of topoSortSteps, with dependencies and parents among them, and   *)
(* its context renders; and the current step is one of them unless the log *)
(* holds a batch drafted on another plan, or the batch of a failed append  *)
(* (buildActionEvent, applyEventTo).  A removal that such a batch          *)
(* undercuts empties the plan and keeps the current step (replay.go:81).   *)
PlansAreWellFormed ==
  /\ \A i \in Instances : plans[i] # Detached =>
       /\ WellFormed(plans[i])
       /\ "overtaken" \notin drift => CurrentExists(plans[i])
  /\ ContextRenders

(* A step leaves a plan only through a removal the log holds, also when    *)
(* the plan is rebuilt, as long as no caller overtook another one and no   *)
(* batch of a failed append has reached the file: the sort after a removal *)
(* drops all steps when it fails (replay.go:81).  A batch that failed and  *)
(* is still only in the handle's memory changes nothing.                   *)
StepsLeaveByRemoval ==
  [][\A i \in Instances :
       (plans[i] # Detached /\ plans'[i] # Detached /\ "plans" \notin drift \cup drift')
         => \A id \in IDs(plans[i].steps) \ IDs(plans'[i].steps) :
              \E k \in DOMAIN log' : /\ log'[k].kind = "dispatched"
                                     /\ log'[k].event.name = "step_removed"
                                     /\ log'[k].event.id = id]_vars

(* With no plan call under way, a process that opens the session now       *)
(* accepts its log and finds the plans, the active skills and references   *)
(* and the usage count this process has, except for the parts in drift.    *)
(* Appends that failed put nothing out of step until what they left behind *)
(* reaches the file.                                                       *)
ResumeRebuildsAgent ==
  Quiet /\ live =>
    /\ "plans" \notin drift => Replay(log) = [ok |-> TRUE, plans |-> plans]
    /\ "skills" \notin drift => replaySkillEvents(log) = skills
    /\ "usage" \notin drift => replayUsageEvents(log) = tracker

(* References are active only for active skills, also after the replay of  *)
(* a log whose skill event was never written, and the prompt shows what    *)
(* is active unless an activation failed or was cut short.                 *)
PromptShowsActiveSkills ==
  /\ \A n \in SkillNames : skills.refs[n] # {} => IsActive(skills, n)
  /\ "skills" \notin drift => system = Materialize(skills)

(* Plans and prompt together, over a state that is well formed: what the   *)
(* agent shows its model is what it keeps (applyEventTo,                   *)
(* refreshMaterializedSystem).                                             *)
AgentStateIsSound == AgentStateTypeOK /\ PlansAreWellFormed /\ PromptShowsActiveSkills
=============================================================================
