------------------------------- MODULE Triggers -------------------------------
(***************************************************************************)
(* trigger.Scheduler: jobs, the goroutine of each job's source, and the    *)
(* goroutine of each run it starts. The scheduler's lock covers the map of *)
(* jobs, a job's own lock its status and running flag; everything between  *)
(* two locks interleaves.                                                  *)
(*                                                                         *)
(* What a run does in the executor is left to the module that composes     *)
(* this one: here it is running until RunReturns.                          *)
(***************************************************************************)
EXTENDS Integers, FiniteSets

CONSTANTS Rules,   \* rule ids
          JobIDs,  \* job objects; bounds the calls of AddRule
          RunIDs,  \* goroutines of handleEvent
          NoJob

ASSUME TriggersAssumption == NoJob \notin JobIDs

VARIABLES jobs,    \* Scheduler.jobs: rule -> job
          job,     \* job -> its state
          runs     \* run -> the job it belongs to and where it is

triggerVars == <<jobs, job, runs>>

JobStatuses == {"starting", "active", "running", "skipped", "failed", "stopped"}

(* source: where runSource is; canceled: the job's context is done;          *)
(* stopping: a StopJob has taken the job out of the map and has not returned. *)
JobRecords == [status: JobStatuses, running: BOOLEAN, canceled: BOOLEAN, stopping: BOOLEAN,
               source: {"unborn", "starting", "started", "failed", "ended"}]
RunRecords == [job: JobIDs \cup {NoJob}, at: {"none", "running", "returned"}]
NoRun == [job |-> NoJob, at |-> "none"]

TriggersTypeOK ==
    /\ jobs \in [Rules -> JobIDs \cup {NoJob}]
    /\ job \in [JobIDs -> JobRecords]
    /\ runs \in [RunIDs -> RunRecords]

TriggersInit ==
    /\ jobs = [r \in Rules |-> NoJob]
    /\ job = [j \in JobIDs |-> [status |-> "starting", running |-> FALSE, canceled |-> FALSE,
                                stopping |-> FALSE, source |-> "unborn"]]
    /\ runs = [x \in RunIDs |-> NoRun]

-----------------------------------------------------------------------------
(* A rule that already has a job is refused. *)
AddRule(r, j) ==
    /\ jobs[r] = NoJob
    /\ job[j].source = "unborn"
    /\ jobs' = [jobs EXCEPT ![r] = j]
    /\ job' = [job EXCEPT ![j].source = "starting"]
    /\ UNCHANGED runs

(* StopJob under the scheduler's lock ... *)
StopJob(r) ==
    /\ jobs[r] # NoJob
    /\ jobs' = [jobs EXCEPT ![r] = NoJob]
    /\ job' = [job EXCEPT ![jobs[r]].stopping = TRUE]
    /\ UNCHANGED runs

(* Mutant: the job leaves the map and its context stays alive. *)
StopCancelNot(j) ==
    /\ job[j].stopping
    /\ job' = [job EXCEPT ![j].stopping = FALSE, ![j].status = "stopped"]
    /\ UNCHANGED <<jobs, runs>>

(* ... after it, cancel ... *)
StopCancel(j) ==
    /\ job[j].stopping
    /\ ~job[j].canceled
    /\ job' = [job EXCEPT ![j].canceled = TRUE]
    /\ UNCHANGED <<jobs, runs>>

(* ... and setStatus, under the job's own lock. *)
StopStatus(j) ==
    /\ job[j].stopping
    /\ job[j].canceled
    /\ job' = [job EXCEPT ![j].stopping = FALSE, ![j].status = "stopped"]
    /\ UNCHANGED <<jobs, runs>>

(* runSource: the status it sets may overwrite that of StopJob. *)
RunSource(j) ==
    /\ job[j].source = "starting"
    /\ job' = [job EXCEPT ![j].source = "started", ![j].status = "active"]
    /\ UNCHANGED <<jobs, runs>>

(* Source.Start returns an error of its own. *)
SourceFails(j) ==
    /\ job[j].source = "started"
    /\ ~job[j].canceled
    /\ job' = [job EXCEPT ![j].source = "failed", ![j].status = "failed"]
    /\ UNCHANGED <<jobs, runs>>

(* Source.Start returns because the context is done. *)
SourceEnds(j) ==
    /\ job[j].source = "started"
    /\ job[j].canceled
    /\ job' = [job EXCEPT ![j].source = "ended"]
    /\ UNCHANGED <<jobs, runs>>

(* handleEvent, an event the matcher cannot judge *)
MatchFails(j) ==
    /\ job[j].source = "started"
    /\ job' = [job EXCEPT ![j].status = "failed"]
    /\ UNCHANGED <<jobs, runs>>

(* handleEvent, a matching event while the job runs. tryStartRun refuses it. *)
SkipEvent(j) ==
    /\ job[j].source = "started"
    /\ job[j].running
    /\ job' = [job EXCEPT ![j].status = "skipped"]
    /\ UNCHANGED <<jobs, runs>>

(* Mutant: the running flag is not consulted. *)
StartRunAnyway(j, x) ==
    /\ job[j].source = "started"
    /\ runs[x] = NoRun
    /\ job' = [job EXCEPT ![j].running = TRUE, ![j].status = "running"]
    /\ runs' = [runs EXCEPT ![x] = [job |-> j, at |-> "running"]]
    /\ UNCHANGED jobs

(* handleEvent, a matching event of an idle job. The select of a source may  *)
(* pick its ticker although the context is done.                             *)
StartRun(j, x) ==
    /\ job[j].source = "started"
    /\ ~job[j].running
    /\ runs[x] = NoRun
    /\ job' = [job EXCEPT ![j].running = TRUE, ![j].status = "running"]
    /\ runs' = [runs EXCEPT ![x] = [job |-> j, at |-> "running"]]
    /\ UNCHANGED jobs

(* ExecuteTrigger returns to the run's goroutine: setError or setResult. *)
RunReturns(x, ok) ==
    /\ runs[x].at = "running"
    /\ runs' = [runs EXCEPT ![x].at = "returned"]
    /\ job' = IF ok THEN job ELSE [job EXCEPT ![runs[x].job].status = "failed"]
    /\ UNCHANGED jobs

(* Mutant: the status goes back to active whatever it is. *)
FinishRunActive(x) ==
    /\ runs[x].at = "returned"
    /\ runs' = [runs EXCEPT ![x] = NoRun]
    /\ job' = [job EXCEPT ![runs[x].job].running = FALSE, ![runs[x].job].status = "active"]
    /\ UNCHANGED jobs

(* Mutant: publish blocks on a full subscriber before finishRun. *)
FinishRunBlocked(x) ==
    /\ runs[x].at = "returned"
    /\ UNCHANGED triggerVars

(* The deferred finishRun. *)
FinishRun(x) ==
    /\ runs[x].at = "returned"
    /\ runs' = [runs EXCEPT ![x] = NoRun]
    /\ job' = [job EXCEPT ![runs[x].job].running = FALSE,
                          ![runs[x].job].status = IF @ = "failed" THEN @ ELSE "active"]
    /\ UNCHANGED jobs

-----------------------------------------------------------------------------
(* Properties *)

(* docs: only one run is allowed by default. The running flag of a job tells *)
(* the truth: it is set exactly while one run of the job exists.             *)
OneRunPerJob ==
    \A j \in JobIDs :
        LET mine == {x \in RunIDs : runs[x].job = j} IN
        Cardinality(mine) = IF job[j].running THEN 1 ELSE 0

(* A registered job whose source has failed, so that it will never fire      *)
(* again, shows as failed, whatever its last run does afterwards.            *)
DeadJobShowsFailed ==
    \A r \in Rules :
        jobs[r] # NoJob /\ job[jobs[r]].source = "failed" => job[jobs[r]].status = "failed"

=============================================================================
