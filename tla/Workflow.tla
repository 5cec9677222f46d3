------------------------------- MODULE Workflow -------------------------------
(***************************************************************************)
(* workflow.Executor running one definition, its events recorded into a    *)
(* thread by workflow.ThreadRecorder, and the run state that               *)
(* workflow.Projector reads back from the thread.                          *)
(*                                                                         *)
(* The executor and, when MaxConcurrency > 1, the goroutines of a batch    *)
(* are the processes. A process emits an event by appending it to the      *)
(* executor's list and handing it to the recorder, whose Append tests the  *)
(* run's context first and writes to the thread later: in between, other   *)
(* processes run. A context that is done stays done.                       *)
(*                                                                         *)
(* What an action returns, whether it overruns its deadline and whether a  *)
(* value matches a schema are free choices.                                *)
(***************************************************************************)
EXTENDS Integers, Sequences, FiniteSets, Subsequences

CONSTANTS StepIDs,       \* Step.ID values
          Main,          \* the goroutine of Executor.Execute
          Definitions,   \* the workflow definitions run: sequences of Decls
          Limits,        \* values of MaxConcurrency
          Values,        \* non-nil Data of action results
          Nil,           \* nil Data
          NoStep,        \* the empty Condition.StepID
          NoEvent,       \* nothing on its way to the thread
          NoResult,      \* the step is not in the results map
          MaxAttempts    \* bound: RetryPolicy.MaxAttempts

Data == Values \cup {Nil}

Conditions == [step: StepIDs \cup {NoStep}, test: {"ran", "exists"} \cup Values, negate: BOOLEAN]

Decls == [id: StepIDs, deps: Seq(StepIDs), when: Conditions, attempts: 0..MaxAttempts,
          backoff: BOOLEAN, timeout: BOOLEAN, continue: BOOLEAN, resolves: BOOLEAN]

RunKinds == {"queued", "started", "completed", "failed", "canceled"}
StepKinds == {"step_started", "step_completed", "step_failed", "step_skipped"}
TerminalKinds == {"completed", "failed", "canceled"}

(* An event names its step (Main for a run event) and the attempt it is about. *)
Events == [kind: RunKinds \cup StepKinds, step: StepIDs \cup {Main}, attempt: 0..MaxAttempts]
RunEvent(kind) == [kind |-> kind, step |-> Main, attempt |-> 0]
StepEvent(kind, s, attempt) == [kind |-> kind, step |-> s, attempt |-> attempt]

(* What executeStep returned for a step. *)
Results == [data: Data, err: BOOLEAN]

ASSUME WorkflowAssumption ==
    /\ MaxAttempts \in Nat \ {0}
    /\ Definitions \subseteq Seq(Decls)
    /\ Limits \subseteq Int
    /\ Main \notin StepIDs
    /\ NoStep \notin StepIDs
    /\ Nil \notin Values
    /\ {"ran", "exists"} \cap Values = {}
    /\ NoEvent \notin Events
    /\ NoResult \notin Results

VARIABLES def,           \* the definition being run
          ordered,       \* the order validateAndOrder found
          limit,         \* Executor.MaxConcurrency
          canceled,      \* the run's context is done
          phase,         \* where Execute is
          outcome,       \* the terminal event Execute decided on
          batch,         \* the steps running now
          tasks,         \* step -> its call of executeStep
          results,       \* the results map of executeSequential or executeParallel
          events,        \* events emitted, as returned in Result.Events
          outbox,        \* process -> event that passed the recorder's context test
          log            \* workflow events of the run in the thread

vars == <<def, ordered, limit, canceled, phase, outcome, batch, tasks, results, events, outbox, log>>

Places == {"idle", "begin", "skip", "reject", "start", "acting", "report", "failed", "wait", "done"}

(* raw: the action itself failed or returned data its schema refuses; late:  *)
(* it overran the step's deadline; err: what executeStep made of it.         *)
Tasks == [at: Places, attempt: 0..MaxAttempts, data: Data, raw: BOOLEAN, late: BOOLEAN, err: BOOLEAN]

Idle == [at |-> "idle", attempt |-> 0, data |-> Nil, raw |-> FALSE, late |-> FALSE, err |-> FALSE]

(* The one type invariant. *)
TypeOK ==
    /\ def \in Definitions
    /\ ordered \in Seq(StepIDs)
    /\ limit \in Limits
    /\ canceled \in BOOLEAN
    /\ phase \in {"init", "starting", "running", "ending", "ended", "done"}
    /\ outcome \in TerminalKinds \cup {"none"}
    /\ batch \in Seq(StepIDs)
    /\ tasks \in [StepIDs -> Tasks]
    /\ results \in [StepIDs -> Results \cup {NoResult}]
    /\ events \in Seq(Events)
    /\ outbox \in [StepIDs \cup {Main} -> Events \cup {NoEvent}]
    /\ log \in Seq(Events)

Init ==
    /\ def \in Definitions
    /\ ordered = << >>
    /\ limit \in Limits
    /\ canceled = FALSE
    /\ phase = "init"
    /\ outcome = "none"
    /\ batch = << >>
    /\ tasks = [s \in StepIDs |-> Idle]
    /\ results = [s \in StepIDs |-> NoResult]
    /\ events = << >>
    /\ outbox = [p \in StepIDs \cup {Main} |-> NoEvent]
    /\ log = << >>

-----------------------------------------------------------------------------
(* Definitions *)

IDs(d) == {d[i].id : i \in DOMAIN d}
Decl(d, s) == d[CHOOSE i \in DOMAIN d : d[i].id = s]
Steps(seq) == {seq[i] : i \in DOMAIN seq}
DepsOf(d, s) == Steps(Decl(d, s).deps)

(* The definitions validateAndOrder accepts: ids differ, dependencies are    *)
(* steps, and there is no cycle, so that the steps can be numbered with      *)
(* every step above its dependencies.                                        *)
Valid(d) ==
    /\ \A i, j \in DOMAIN d : d[i].id = d[j].id => i = j
    /\ \A s \in IDs(d) : DepsOf(d, s) \subseteq IDs(d)
    /\ \E rank \in [IDs(d) -> 1..Len(d)] : \A s \in IDs(d) : \A t \in DepsOf(d, s) : rank[t] < rank[s]

FirstOccurrences(seq) ==
    Picked(seq, {i \in DOMAIN seq : \A j \in 1..(i - 1) : seq[j] # seq[i]})

(* Mutant: the declared order is taken as it is. *)
OrderedDeclared(d) == [i \in DOMAIN d |-> d[i].id]

(* The order validateAndOrder returns for a valid definition: depth first    *)
(* over the declared steps, a step after its dependencies.                   *)
Ordered(d) ==
    LET after[s \in IDs(d)] ==
            LET deps == Decl(d, s).deps
            IN  Append(Concat([i \in DOMAIN deps |-> after[deps[i]]]), s)
    IN  FirstOccurrences(Concat([i \in DOMAIN d |-> after[d[i].id]]))

(* conditionMatches *)
ConditionMatches(when) ==
    LET ran == results[when.step] # NoResult
        matched == CASE when.test = "ran"    -> ran
                     [] when.test = "exists" -> ran /\ results[when.step].data # Nil
                     [] OTHER                -> ran /\ results[when.step].data = when.test
    IN  when.step # NoStep => (matched # when.negate)

Undone(s) == results[s] = NoResult

(* readySteps; done and results have the same keys between batches. *)
ReadySteps ==
    Picked(ordered, {i \in DOMAIN ordered :
                        Undone(ordered[i]) /\ \A t \in DepsOf(def, ordered[i]) : ~Undone(t)})

-----------------------------------------------------------------------------
(* Emitting and recording *)

(* Mutant: the recorder's Append ignores the run's context. *)
EmitDetached(p, e) ==
    /\ outbox[p] = NoEvent
    /\ events' = Append(events, e)
    /\ outbox' = [outbox EXCEPT ![p] = e]
    /\ UNCHANGED log

(* emit and the recorder up to the context test in Append. *)
Emit(p, e) ==
    /\ outbox[p] = NoEvent
    /\ events' = Append(events, e)
    /\ outbox' = IF canceled THEN outbox ELSE [outbox EXCEPT ![p] = e]
    /\ UNCHANGED log

(* ThreadRecorder.Record: Append writes the event; the process goes on. *)
Record(p) ==
    /\ outbox[p] # NoEvent
    /\ log' = Append(log, outbox[p])
    /\ outbox' = [outbox EXCEPT ![p] = NoEvent]
    /\ UNCHANGED <<def, ordered, limit, canceled, phase, outcome, batch, tasks, results, events>>

Silent == UNCHANGED <<events, outbox, log>>

-----------------------------------------------------------------------------
(* Executor.executeStep, run by the goroutine of step s *)

StepUnchanged == UNCHANGED <<def, ordered, limit, canceled, phase, outcome, batch, results>>

Moves(s, from) == tasks[s].at = from /\ outbox[s] = NoEvent /\ StepUnchanged
GoTo(s, at) == tasks' = [tasks EXCEPT ![s].at = at, ![s].raw = FALSE, ![s].late = FALSE]

(* The tests before the first attempt: context, condition, resolution of the *)
(* action and, last, the input against the action's schema.                  *)
BeginStep(s) ==
    LET step == Decl(def, s) IN
    /\ Moves(s, "begin")
    /\ Silent
    /\ \/ /\ canceled \/ (ConditionMatches(step.when) /\ ~step.resolves)
          /\ tasks' = [tasks EXCEPT ![s].at = "done", ![s].err = TRUE]
       \/ /\ ~canceled /\ ~ConditionMatches(step.when)
          /\ GoTo(s, "skip")
       \/ /\ ~canceled /\ ConditionMatches(step.when) /\ step.resolves
          /\ \/ GoTo(s, "reject")
             \/ tasks' = [tasks EXCEPT ![s].at = "start", ![s].attempt = 1]

SkipStep(s) ==
    /\ Moves(s, "skip")
    /\ Emit(s, StepEvent("step_skipped", s, 0))
    /\ GoTo(s, "done")

RejectInput(s) ==
    /\ Moves(s, "reject")
    /\ Emit(s, StepEvent("step_failed", s, 1))
    /\ tasks' = [tasks EXCEPT ![s].at = "done", ![s].err = TRUE]

StartAttempt(s) ==
    /\ Moves(s, "start")
    /\ Emit(s, StepEvent("step_started", s, tasks[s].attempt))
    /\ GoTo(s, "acting")

(* The action returns. cancel() is called before the deadline context is     *)
(* tested, so the test finds it done and turns the success of a step with a  *)
(* timeout into an error, whether the action was late or not.                *)
ActionReturns(s) ==
    LET timeout == Decl(def, s).timeout IN
    /\ Moves(s, "acting")
    /\ Silent
    /\ \E data \in Data, raw, late \in BOOLEAN :
           /\ late => timeout
           /\ tasks' = [tasks EXCEPT ![s].at = "report", ![s].data = data, ![s].raw = raw,
                                     ![s].late = late, ![s].err = raw \/ timeout]

ReportAttempt(s) ==
    /\ Moves(s, "report")
    /\ IF tasks[s].err
       THEN Emit(s, StepEvent("step_failed", s, tasks[s].attempt)) /\ GoTo(s, "failed")
       ELSE Emit(s, StepEvent("step_completed", s, tasks[s].attempt)) /\ GoTo(s, "done")

(* Mutant: one attempt too many. *)
AfterFailureAgain(s) ==
    /\ Moves(s, "failed")
    /\ Silent
    /\ GoTo(s, IF canceled \/ tasks[s].attempt > Decl(def, s).attempts THEN "done" ELSE "wait")

(* The context test after a failed attempt; MaxAttempts 0 means one attempt. *)
AfterFailure(s) ==
    /\ Moves(s, "failed")
    /\ Silent
    /\ GoTo(s, IF canceled \/ tasks[s].attempt >= Decl(def, s).attempts THEN "done" ELSE "wait")

(* Mutant: the backoff timer is armed again and again. *)
RetrySpin(s) ==
    /\ Moves(s, "wait")
    /\ Silent
    /\ UNCHANGED tasks

(* The backoff, none if it is zero, ends: the next attempt. *)
Retry(s) ==
    /\ Moves(s, "wait")
    /\ Silent
    /\ tasks' = [tasks EXCEPT ![s].at = "start", ![s].attempt = tasks[s].attempt + 1, ![s].err = FALSE]

(* The context ends during the backoff. *)
AbandonRetry(s) ==
    /\ Moves(s, "wait")
    /\ canceled
    /\ Decl(def, s).backoff
    /\ Silent
    /\ GoTo(s, "done")

StepNext(s) ==
    \/ BeginStep(s)
    \/ SkipStep(s)
    \/ RejectInput(s)
    \/ StartAttempt(s)
    \/ ActionReturns(s)
    \/ ReportAttempt(s)
    \/ AfterFailure(s)
    \/ Retry(s)
    \/ AbandonRetry(s)

-----------------------------------------------------------------------------
(* Executor.Execute *)

MainMoves(from) == phase = from /\ outbox[Main] = NoEvent /\ UNCHANGED <<def, limit, canceled>>

End(kind) == phase' = "ending" /\ outcome' = kind

(* An error ends the run as canceled when the context is done. *)
EndWithError == End(IF canceled THEN "canceled" ELSE "failed")

(* The tests before the run starts. *)
Execute ==
    /\ MainMoves("init")
    /\ Silent
    /\ IF canceled \/ ~Valid(def) THEN EndWithError /\ UNCHANGED ordered
       ELSE phase' = "starting" /\ ordered' = Ordered(def) /\ UNCHANGED outcome
    /\ UNCHANGED <<batch, tasks, results>>

EmitStarted ==
    /\ MainMoves("starting")
    /\ Emit(Main, RunEvent("started"))
    /\ phase' = "running"
    /\ UNCHANGED <<ordered, outcome, batch, tasks, results>>

Finished == \A s \in IDs(def) : ~Undone(s)
Sequential == limit <= 1

(* Mutant: the batch is not cut to the limit. *)
NextBatchAll == IF Sequential THEN << Head(ReadySteps) >> ELSE ReadySteps

(* One step in order, or the first MaxConcurrency ready steps. *)
NextBatch ==
    IF Sequential THEN << Head(Picked(ordered, {i \in DOMAIN ordered : Undone(ordered[i])})) >>
    ELSE IF limit < Len(ReadySteps) THEN SubSeq(ReadySteps, 1, limit) ELSE ReadySteps

(* The head of the loop of executeSequential or executeParallel: end, or     *)
(* start the goroutines of the next batch. Only the parallel loop looks at   *)
(* the context, and finds no runnable step only if the order is broken.      *)
NextSteps ==
    /\ MainMoves("running")
    /\ batch = << >>
    /\ Silent
    /\ CASE Finished -> End("completed") /\ UNCHANGED <<batch, tasks>>
         [] ~Finished /\ ~Sequential /\ (canceled \/ ReadySteps = << >>) ->
                EndWithError /\ UNCHANGED <<batch, tasks>>
         [] OTHER -> /\ batch' = NextBatch
                     /\ tasks' = [s \in StepIDs |-> IF s \in Steps(NextBatch)
                                                    THEN [tasks[s] EXCEPT !.at = "begin"] ELSE tasks[s]]
                     /\ UNCHANGED <<phase, outcome>>
    /\ UNCHANGED <<ordered, results>>

Fatal(s) == tasks[s].err /\ ~Decl(def, s).continue

(* The outcomes looked at: all, or those up to the first fatal one. *)
Seen ==
    {batch[i] : i \in {j \in DOMAIN batch : \A k \in 1..(j - 1) : ~Fatal(batch[k])}}

(* Mutant: the batch is collected as soon as one step has failed. *)
CollectEarly ==
    /\ MainMoves("running")
    /\ batch # << >>
    /\ \/ \A s \in Steps(batch) : tasks[s].at = "done" /\ outbox[s] = NoEvent
       \/ \E s \in Steps(batch) : tasks[s].at = "done" /\ outbox[s] = NoEvent /\ Fatal(s)
    /\ Silent
    /\ results' = [s \in StepIDs |-> IF s \in Seen
                                     THEN [data |-> tasks[s].data, err |-> tasks[s].err] ELSE results[s]]
    /\ batch' = << >>
    /\ IF \E s \in Seen : Fatal(s) THEN EndWithError ELSE UNCHANGED <<phase, outcome>>
    /\ UNCHANGED <<ordered, tasks>>

(* Mutant: the error policy is ignored. *)
CollectForgiving ==
    /\ MainMoves("running")
    /\ batch # << >>
    /\ \A s \in Steps(batch) : tasks[s].at = "done" /\ outbox[s] = NoEvent
    /\ Silent
    /\ results' = [s \in StepIDs |-> IF s \in Steps(batch)
                                     THEN [data |-> tasks[s].data, err |-> tasks[s].err] ELSE results[s]]
    /\ batch' = << >>
    /\ UNCHANGED <<ordered, phase, outcome, tasks>>

(* wg.Wait returns, the outcomes are entered in order until a fatal one. *)
Collect ==
    /\ MainMoves("running")
    /\ batch # << >>
    /\ \A s \in Steps(batch) : tasks[s].at = "done" /\ outbox[s] = NoEvent
    /\ Silent
    /\ results' = [s \in StepIDs |-> IF s \in Seen
                                     THEN [data |-> tasks[s].data, err |-> tasks[s].err] ELSE results[s]]
    /\ batch' = << >>
    /\ IF \E s \in Seen : Fatal(s) THEN EndWithError ELSE UNCHANGED <<phase, outcome>>
    /\ UNCHANGED <<ordered, tasks>>

EmitTerminal ==
    /\ MainMoves("ending")
    /\ Emit(Main, RunEvent(outcome))
    /\ phase' = "ended"
    /\ UNCHANGED <<ordered, outcome, batch, tasks, results>>

(* Execute returns. *)
Return ==
    /\ MainMoves("ended")
    /\ phase' = "done"
    /\ Silent
    /\ UNCHANGED <<ordered, outcome, batch, tasks, results>>

ExecutorNext ==
    \/ Execute
    \/ EmitStarted
    \/ NextSteps
    \/ Collect
    \/ EmitTerminal
    \/ Return
    \/ \E s \in StepIDs : StepNext(s)
    \/ \E p \in StepIDs \cup {Main} : Record(p)

-----------------------------------------------------------------------------
(* Projector *)

LastAt(is) == CHOOSE i \in is : \A j \in is : j <= i
LatestKind(seq, is, none) == IF is = {} THEN none ELSE seq[LastAt(is)].kind

(* RunState.Status: applyEvent sets it at every run event. *)
RunStatus(l) == LatestKind(l, {i \in DOMAIN l : l[i].step = Main}, "none")

(* StepState.Status *)
StepStatus(l, s) == LatestKind(l, {i \in DOMAIN l : l[i].step = s}, "none")

(* Mutant: the first event of an attempt decides. *)
AttemptStatusFirst(l, s, n) ==
    LET is == {i \in DOMAIN l : l[i].step = s /\ l[i].attempt = n}
    IN  IF is = {} THEN "none" ELSE l[CHOOSE i \in is : \A j \in is : i <= j].kind

(* StepState.Attempts: upsertAttempt keeps the latest state of each attempt; *)
(* a skipped step has none.                                                  *)
AttemptStatus(l, s, n) == LatestKind(l, {i \in DOMAIN l : l[i].step = s /\ l[i].attempt = n}, "none")

-----------------------------------------------------------------------------
(* Properties *)

(* An execution emits one terminal event, and it is the last one: no step of *)
(* a batch that failed speaks after the run has ended. It says completed     *)
(* only if every step has a result, and an error among them is of a step     *)
(* that may fail (Executor.Execute, executeParallel).                        *)
RunEndsOnceAsEarned ==
    LET terminal == {i \in DOMAIN events : events[i].kind \in TerminalKinds}
    IN  /\ terminal \subseteq {Len(events)}
        /\ phase = "done" => terminal # {}
        /\ outcome = "completed" =>
               \A s \in IDs(def) : results[s] # NoResult /\ (results[s].err => Decl(def, s).continue)

(* The events of step s, and the attempts it may make. *)
EventsOf(l, s) == Picked(l, {i \in DOMAIN l : l[i].step = s})
Allowed(d, s) == IF s \in IDs(d) /\ Decl(d, s).attempts > 1 THEN Decl(d, s).attempts ELSE 1

(* Steps run when they may and as often as they may, in both modes, whatever *)
(* failed before (executeStep, readySteps, validateAndOrder). A step of a    *)
(* batch finds the results of all its dependencies. A step's own events are  *)
(* those of its attempts in order: started, failed, started again, ...,      *)
(* never more attempts than the policy allows, none after a success, and a   *)
(* skip or a refused input stands alone. No more than MaxConcurrency actions *)
(* run at a time.                                                            *)
StepsRunAsDeclared ==
    /\ \A s \in Steps(batch) : \A t \in DepsOf(def, s) : ~Undone(t)
    /\ \A s \in StepIDs :
        LET l == EventsOf(events, s)
            alone == /\ Len(l) = 1
                     /\ l[1] \in {StepEvent("step_skipped", s, 0), StepEvent("step_failed", s, 1)}
            ran == \A n \in 1..Allowed(def, s) :
                       /\ 2 * n - 1 <= Len(l) => l[2 * n - 1] = StepEvent("step_started", s, n)
                       /\ 2 * n <= Len(l) => \/ l[2 * n] = StepEvent("step_failed", s, n)
                                             \/ l[2 * n] = StepEvent("step_completed", s, n) /\ Len(l) = 2 * n
        IN  /\ s \notin IDs(def) => l = << >>
            /\ Len(l) <= 2 * Allowed(def, s)
            /\ alone \/ ran
    /\ Cardinality({s \in StepIDs : tasks[s].at = "acting"}) <= IF limit > 1 THEN limit ELSE 1

(* What the recorder left in the thread, in whatever order the goroutines    *)
(* got there, projects to what the executor did, unless the context ended    *)
(* and events were dropped, or somebody else wrote that the run is canceled: *)
(* run status, step status and every attempt (ThreadRecorder, applyEvent).   *)
ProjectionMatchesRun ==
    phase = "done" /\ ~canceled /\ (\A i \in DOMAIN log : log[i].kind # "canceled") =>
        /\ RunStatus(log) = RunStatus(events)
        /\ \A s \in StepIDs :
               /\ StepStatus(log, s) = StepStatus(events, s)
               /\ tasks[s].attempt > 0 =>
                      StepStatus(log, s) = IF tasks[s].err THEN "step_failed" ELSE "step_completed"
               /\ \A n \in 1..tasks[s].attempt :
                      AttemptStatus(log, s, n) = IF n < tasks[s].attempt THEN "step_failed"
                                                 ELSE StepStatus(log, s)

(* Docs: Timeout wraps the action context for that attempt. An attempt whose *)
(* action succeeded before its deadline is not a failure.                    *)
TimelySuccessCounts ==
    \A s \in StepIDs :
        tasks[s].at = "report" /\ ~tasks[s].raw /\ ~tasks[s].late => ~tasks[s].err

=============================================================================
