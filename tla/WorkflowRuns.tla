----------------------------- MODULE WorkflowRuns -----------------------------
(***************************************************************************)
(* An asynchronous workflow run of a harness session: StartWorkflow queues *)
(* it, registers its cancel function and starts the executor's goroutine;  *)
(* CancelWorkflow, called by others at any time, takes the cancel function *)
(* out of the map under the session's lock, then cancels the context, then *)
(* reads the projected state from the thread and appends a canceled event  *)
(* of its own unless the run has ended.                                    *)
(* The steps of the two calls interleave with each other, with other       *)
(* callers of CancelWorkflow and with the executor.                        *)
(***************************************************************************)
EXTENDS Workflow

CONSTANT Callers         \* callers of CancelWorkflow

VARIABLES starter,       \* where StartWorkflowWithRunID is
          registered,    \* workflowCancels has the run's cancel function
          callers        \* caller -> where its CancelWorkflow is

runVars == <<vars, starter, registered, callers>>

RunsTypeOK ==
    /\ TypeOK
    /\ starter \in {"new", "queued", "registered", "returned"}
    /\ registered \in BOOLEAN
    /\ callers \in [Callers -> [at: {"new", "taken", "read", "append", "nil", "error"},
                                hit: BOOLEAN]]       \* it found the cancel function, or a context that was done

RunsInit ==
    /\ Init
    /\ starter = "new"
    /\ registered = FALSE
    /\ callers = [k \in Callers |-> [at |-> "new", hit |-> FALSE]]

SessionUnchanged == UNCHANGED <<starter, registered, callers>>
ExecutorUnchanged == UNCHANGED <<def, ordered, limit, phase, outcome, batch, tasks, results, events, outbox>>

(* StartWorkflowWithRunID appends the queued event, and goes on if the       *)
(* append fails.                                                             *)
StartQueue ==
    /\ starter = "new"
    /\ starter' = "queued"
    /\ log' \in {log, Append(log, RunEvent("queued"))}
    /\ ExecutorUnchanged
    /\ UNCHANGED <<canceled, registered, callers>>

StartRegister ==
    /\ starter = "queued"
    /\ starter' = "registered"
    /\ registered' = TRUE
    /\ UNCHANGED <<vars, callers>>

(* The go statement; the call returns. *)
StartGo ==
    /\ starter = "registered"
    /\ starter' = "returned"
    /\ UNCHANGED <<vars, registered, callers>>

(* The run's goroutine: ExecuteWorkflow, ... *)
RunStep ==
    /\ starter = "returned"
    /\ ExecutorNext
    /\ SessionUnchanged

(* Mutant: the cancel function is dropped by CancelWorkflow only. *)
UnregisterNever ==
    /\ phase = "done"
    /\ registered
    /\ UNCHANGED runVars

(* ... then the deferred delete. *)
Unregister ==
    /\ phase = "done"
    /\ registered
    /\ registered' = FALSE
    /\ UNCHANGED <<vars, starter, callers>>

(* CancelWorkflow takes the cancel function, if it is there ... *)
TakeCancel(k) ==
    /\ callers[k].at = "new"
    /\ callers' = [callers EXCEPT ![k] = [at |-> IF registered THEN "taken" ELSE "read",
                                          hit |-> canceled \/ registered]]
    /\ registered' = FALSE
    /\ UNCHANGED <<vars, starter>>

(* ... and calls it after the unlock. *)
CallCancel(k) ==
    /\ callers[k].at = "taken"
    /\ callers' = [callers EXCEPT ![k].at = "read"]
    /\ canceled' = TRUE
    /\ ExecutorUnchanged
    /\ UNCHANGED <<log, starter, registered>>

(* ThreadRunStore.Events finds the run by its events in the thread. *)
Found == log # << >>

(* Mutant: an unfinished run is taken for one that has ended. *)
ReadStateTrusting(k) ==
    /\ callers[k].at = "read"
    /\ callers' = [callers EXCEPT ![k].at = IF Found THEN "nil" ELSE "error"]
    /\ UNCHANGED <<vars, starter, registered>>

(* CancelWorkflow reads the run's state: unknown, ended, or to be canceled. *)
ReadState(k) ==
    /\ callers[k].at = "read"
    /\ callers' = [callers EXCEPT ![k].at = CASE ~Found -> "error"
                                              [] RunStatus(log) \in TerminalKinds -> "nil"
                                              [] OTHER -> "append"]
    /\ UNCHANGED <<vars, starter, registered>>

(* CancelWorkflow appends the canceled event, with its own context. *)
AppendCanceled(k) ==
    /\ callers[k].at = "append"
    /\ callers' = [callers EXCEPT ![k].at = "nil"]
    /\ log' = Append(log, RunEvent("canceled"))
    /\ ExecutorUnchanged
    /\ UNCHANGED <<canceled, starter, registered>>

RunsStopped ==
    /\ phase = "done"
    /\ \A k \in Callers : callers[k].at \in {"nil", "error"}
    /\ UNCHANGED runVars

RunsNext ==
    \/ StartQueue
    \/ StartRegister
    \/ StartGo
    \/ RunStep
    \/ Unregister
    \/ \E k \in Callers : TakeCancel(k)
    \/ \E k \in Callers : CallCancel(k)
    \/ \E k \in Callers : ReadState(k)
    \/ \E k \in Callers : AppendCanceled(k)
    \/ RunsStopped

(* Every call goes on; nobody has to call CancelWorkflow. Goroutines that can *)
(* run do run, and actions return: the docs ask them to end when their        *)
(* context is done, and without that no run need end.                         *)
RunsFairness ==
    /\ WF_runVars(StartQueue \/ StartRegister \/ StartGo \/ RunStep \/ Unregister)
    /\ \A k \in Callers : WF_runVars(CallCancel(k) \/ ReadState(k) \/ AppendCanceled(k))

RunsSpec == RunsInit /\ [][RunsNext]_runVars /\ RunsFairness

-----------------------------------------------------------------------------
(* Properties *)

(* The run and its callers are where they can be (RunsTypeOK). A             *)
(* CancelWorkflow that returned nil leaves a terminal event in the thread,   *)
(* whichever of the callers and the executor wrote it. And a canceled event  *)
(* in the thread ends the record: each goroutine of the run adds at most the *)
(* one event it was writing at that moment. Two kinds of callers break this  *)
(* and are excepted, since they write canceled without a canceled context:   *)
(* one that came before the cancel function was registered, and one that     *)
(* came after another had taken it and before that one called it             *)
(* (CancelWorkflow, ThreadRecorder).                                         *)
CancellationIsRecorded ==
    /\ RunsTypeOK
    /\ \A k \in Callers : callers[k].at = "nil" => \E i \in DOMAIN log : log[i].kind \in TerminalKinds
    /\ (\A k \in Callers : callers[k].at # "new" => callers[k].hit) =>
          \A i \in DOMAIN log : log[i].kind = "canceled" =>
              \A p \in StepIDs \cup {Main} :
                  Cardinality({j \in (i + 1)..Len(log) : log[j].step = p /\ log[j].kind # "canceled"}) <= 1

(* A run started is also ended, canceled or not, and its cancel function is  *)
(* dropped, whatever the callers of CancelWorkflow do                        *)
(* (StartWorkflowWithRunID, executeStep's retries).                          *)
RunIsReleased == <>[](phase = "done" /\ ~registered)

(* workflows-triggers-daemon.md: cancellation appends a cancellation event   *)
(* when the projected run is not already terminal.                           *)
CancelsOnlyUnfinished ==
    [][\A k \in Callers : callers[k].at = "append" /\ callers'[k].at = "nil"
                              => RunStatus(log) \notin TerminalKinds]_runVars

=============================================================================
