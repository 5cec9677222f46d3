-------------------------------- MODULE Daemon --------------------------------
(***************************************************************************)
(* daemon.Host: the scheduler's runs execute in sessions of the harness    *)
(* service (harness.TriggerExecutor), clients open, use and close sessions *)
(* and add and stop triggers, and Shutdown stops the jobs and closes the   *)
(* service.                                                                *)
(***************************************************************************)
EXTENDS Sessions, Triggers

CONSTANTS Clients,    \* goroutines that call the host
          Mode,       \* rule -> its session mode
          NameOf      \* rule -> the session name of sessionFor, or NoName

Modes == {"shared", "trigger_owned", "resume_or_create", "ephemeral"}

ASSUME DaemonAssumption ==
    /\ Openers = RunIDs \cup Clients
    /\ RunIDs \cap Clients = {}
    /\ Mode \in [Rules -> Modes]
    /\ NameOf \in [Rules -> Names \cup {NoName}]

VARIABLES hostClosed,  \* Host.closed
          shutdown,    \* where Shutdown is, the rules StopAll has left, the job it stops
          adding,      \* client -> the rule its AddTrigger has been let through with
          ruleOf,      \* job -> its rule
          exec         \* run -> where its ExecuteTrigger is, and its session

daemonVars == <<sessionVars, triggerVars, hostClosed, shutdown, adding, ruleOf, exec>>
hostVars == <<hostClosed, shutdown, adding, ruleOf>>

NoRule == "none"
NoExec == [at |-> "none", session |-> NoSession]

(* The one type invariant of the composition. *)
DaemonTypeOK ==
    /\ SessionsTypeOK
    /\ TriggersTypeOK
    /\ hostClosed \in BOOLEAN
    /\ shutdown \in [at: {"none", "list", "stop", "close", "done"}, left: SUBSET Rules,
                    job: JobIDs \cup {NoJob}]
    /\ adding \in [Clients -> Rules \cup {NoRule}]
    /\ ruleOf \in [JobIDs -> Rules \cup {NoRule}]
    /\ exec \in [RunIDs -> [at: {"none", "lookup", "open", "target"},
                            session: SessionIDs \cup {NoSession}]]

DaemonInit ==
    /\ SessionsInit
    /\ TriggersInit
    /\ hostClosed = FALSE
    /\ shutdown = [at |-> "none", left |-> {}, job |-> NoJob]
    /\ adding = [c \in Clients |-> NoRule]
    /\ ruleOf = [j \in JobIDs |-> NoRule]
    /\ exec = [x \in RunIDs |-> NoExec]

-----------------------------------------------------------------------------
(* harness.TriggerExecutor *)

RuleOfRun(x) == ruleOf[runs[x].job]

Fire(j, x) ==
    /\ StartRun(j, x)
    /\ exec' = [exec EXCEPT ![x] = [at |-> "lookup", session |-> NoSession]]
    /\ UNCHANGED <<sessionVars, hostVars>>

(* sessionFor: a named session of the service is used, unless the mode is    *)
(* ephemeral.                                                                *)
Lookup(x) ==
    LET name == NameOf[RuleOfRun(x)]
        usable == /\ Mode[RuleOfRun(x)] # "ephemeral"
                  /\ name # NoName
                  /\ ~serviceClosed
                  /\ registry[name] # NoSession
    IN  /\ exec[x].at = "lookup"
        /\ exec' = [exec EXCEPT ![x] = IF usable
                                       THEN [at |-> "target", session |-> registry[name]]
                                       ELSE [at |-> "open", session |-> NoSession]]
        /\ UNCHANGED <<sessionVars, triggerVars, hostVars>>

(* OpenSession refuses a closed service and a context that is done. *)
RunOpenStart(x) ==
    /\ exec[x].at = "open"
    /\ ~job[runs[x].job].canceled
    /\ OpenStart(x, NameOf[RuleOfRun(x)])
    /\ UNCHANGED <<triggerVars, hostVars, exec>>

Resumes(x) == Mode[RuleOfRun(x)] = "resume_or_create" /\ NameOf[RuleOfRun(x)] # NoName

RunAttach(x) ==
    /\ exec[x].at = "open"
    /\ Attach(x, Resumes(x))
    /\ exec' = [exec EXCEPT ![x] = [at |-> "target", session |-> CHOOSE s \in SessionIDs : Fresh(s)]]
    /\ UNCHANGED <<triggerVars, hostVars>>

(* OpenSession returns an error, before it starts or from within. *)
RunOpenFail(x) ==
    /\ exec[x].at = "open"
    /\ \/ OpenFail(x)
       \/ /\ opening[x] = NoCall
          /\ serviceClosed \/ job[runs[x].job].canceled
          /\ UNCHANGED sessionVars
    /\ RunReturns(x, FALSE)
    /\ exec' = [exec EXCEPT ![x] = NoExec]
    /\ UNCHANGED hostVars

(* The workflow or agent turn ends. Nobody closes the session. *)
TargetReturns(x, ok) ==
    /\ exec[x].at = "target"
    /\ RunReturns(x, ok)
    /\ exec' = [exec EXCEPT ![x] = NoExec]
    /\ UNCHANGED <<sessionVars, hostVars>>

RunEnds(x) ==
    /\ FinishRun(x)
    /\ UNCHANGED <<sessionVars, hostVars, exec>>

-----------------------------------------------------------------------------
(* Clients *)

HostOpenStart(c, n) ==
    /\ adding[c] = NoRule
    /\ ~hostClosed
    /\ OpenStart(c, n)
    /\ UNCHANGED <<triggerVars, hostVars, exec>>

HostOpenStep(c) ==
    /\ OpenFail(c) \/ Attach(c, FALSE)
    /\ UNCHANGED <<triggerVars, hostVars, exec>>

(* AddTrigger tests the host and then calls AddRule. *)
AddTrigger(c, r) ==
    /\ adding[c] = NoRule /\ opening[c] = NoCall
    /\ ~hostClosed
    /\ adding' = [adding EXCEPT ![c] = r]
    /\ UNCHANGED <<sessionVars, triggerVars, hostClosed, shutdown, ruleOf, exec>>

AddTriggerRule(c, j) ==
    /\ adding[c] # NoRule
    /\ AddRule(adding[c], j)
    /\ adding' = [adding EXCEPT ![c] = NoRule]
    /\ ruleOf' = [ruleOf EXCEPT ![j] = adding[c]]
    /\ UNCHANGED <<sessionVars, hostClosed, shutdown, exec>>

(* The rule has a job, or the bound on jobs is reached. *)
AddTriggerRefused(c) ==
    /\ adding[c] # NoRule
    /\ jobs[adding[c]] # NoJob \/ \A j \in JobIDs : job[j].source # "unborn"
    /\ adding' = [adding EXCEPT ![c] = NoRule]
    /\ UNCHANGED <<sessionVars, triggerVars, hostClosed, shutdown, ruleOf, exec>>

HostStopJob(r) ==
    /\ StopJob(r)
    /\ UNCHANGED <<sessionVars, hostVars, exec>>

SchedulerStep(j) ==
    /\ StopCancel(j) \/ StopStatus(j) \/ RunSource(j) \/ SourceEnds(j)
    /\ UNCHANGED <<sessionVars, hostVars, exec>>

SourceStep(j) ==
    /\ SourceFails(j) \/ MatchFails(j) \/ SkipEvent(j)
    /\ UNCHANGED <<sessionVars, hostVars, exec>>

-----------------------------------------------------------------------------
(* Shutdown *)

Shutdown ==
    /\ ~hostClosed
    /\ hostClosed' = TRUE
    /\ shutdown' = [shutdown EXCEPT !.at = "list"]
    /\ UNCHANGED <<sessionVars, triggerVars, adding, ruleOf, exec>>

(* StopAll lists the jobs ... *)
StopAllList ==
    /\ shutdown.at = "list"
    /\ shutdown' = [shutdown EXCEPT !.at = "stop", !.left = {r \in Rules : jobs[r] # NoJob}]
    /\ UNCHANGED <<sessionVars, triggerVars, hostClosed, adding, ruleOf, exec>>

StopReturned == shutdown.job # NoJob => ~job[shutdown.job].stopping

(* ... and stops one after the other, unless someone else has. *)
StopAllNext(r) ==
    /\ shutdown.at = "stop"
    /\ StopReturned
    /\ r \in shutdown.left
    /\ shutdown' = [shutdown EXCEPT !.left = @ \ {r}, !.job = jobs[r]]
    /\ IF jobs[r] = NoJob THEN UNCHANGED triggerVars ELSE StopJob(r)
    /\ UNCHANGED <<sessionVars, hostClosed, adding, ruleOf, exec>>

ShutdownService ==
    /\ shutdown.at = "stop"
    /\ shutdown.left = {}
    /\ StopReturned
    /\ ServiceClose
    /\ shutdown' = [shutdown EXCEPT !.at = "close"]
    /\ UNCHANGED <<triggerVars, hostClosed, adding, ruleOf, exec>>

ShutdownSession ==
    /\ shutdown.at = "close"
    /\ ServiceCloseReturns \/ \E s \in SessionIDs : ServiceCloseNext(s)
    /\ UNCHANGED <<triggerVars, hostVars, exec>>

ShutdownDone ==
    /\ shutdown.at = "close"
    /\ doomed = {} /\ current = NoSession
    /\ shutdown' = [shutdown EXCEPT !.at = "done"]
    /\ UNCHANGED <<sessionVars, triggerVars, hostClosed, adding, ruleOf, exec>>

-----------------------------------------------------------------------------
(* A session is closed by a client at any time; a run in it goes on. *)
CloseStep(s) ==
    /\ CloseStart(s) \/ CloseLeave(s) \/ CloseChannels(s)
    /\ UNCHANGED <<triggerVars, hostVars, exec>>

RunStep(x) ==
    \/ Lookup(x) \/ RunOpenStart(x) \/ RunAttach(x) \/ RunOpenFail(x) \/ RunEnds(x)
    \/ \E ok \in BOOLEAN : TargetReturns(x, ok)

ClientStep(c) ==
    \/ HostOpenStep(c) \/ AddTriggerRefused(c)
    \/ \E n \in Names : HostOpenStart(c, n)
    \/ \E r \in Rules : AddTrigger(c, r)
    \/ \E j \in JobIDs : AddTriggerRule(c, j)

ShutdownStep ==
    \/ StopAllList \/ ShutdownService \/ ShutdownSession \/ ShutdownDone
    \/ \E r \in Rules : StopAllNext(r)

DaemonNext ==
    \/ Shutdown \/ ShutdownStep
    \/ \E c \in Clients : ClientStep(c)
    \/ \E r \in Rules : HostStopJob(r)
    \/ \E x \in RunIDs : RunStep(x) \/ \E j \in JobIDs : Fire(j, x)
    \/ \E j \in JobIDs : SchedulerStep(j) \/ SourceStep(j)
    \/ \E s \in SessionIDs : CloseStep(s)

(* Goroutines are scheduled, and the workflow or turn a run started returns. *)
(* The select of a source takes a context that is done some time.            *)
DaemonFairness ==
    /\ \A x \in RunIDs : WF_daemonVars(RunStep(x))
    /\ \A j \in JobIDs : WF_daemonVars(SchedulerStep(j))

DaemonSpec == DaemonInit /\ [][DaemonNext]_daemonVars /\ DaemonFairness

-----------------------------------------------------------------------------
(* Properties *)

(* The state is well formed, the running flag of a job is set exactly while  *)
(* one run of it exists, and a job whose source has failed shows as failed,  *)
(* whatever stop, shutdown and its last run do in which order                *)
(* (Scheduler.handleEvent, finishRun).                                       *)
JobsShowTheTruth == DaemonTypeOK /\ OneRunPerJob /\ DeadJobShowsFailed

(* A job does not stay in running: whether its run succeeds, fails, or is    *)
(* stopped or shut down on the way, the next event finds the job idle.       *)
JobsFireAgain == \A j \in JobIDs : job[j].running ~> ~job[j].running

(* The source of a job that StopJob or Shutdown took out of the map stops,   *)
(* also if StopJob overtakes the start of the source.                        *)
StopTakesEffect ==
    \A j \in JobIDs : job[j].stopping ~> job[j].source \in {"failed", "ended"}

(* docs: resume_or_create resumes a configured session if present, otherwise *)
(* creates it. So nothing but a closed service or a context that is done     *)
(* keeps a run in this mode from building its agent.                         *)
ResumeOrCreateCreates ==
    \A x \in RunIDs :
        opening[x].open /\ Resumes(x) /\ ~serviceClosed /\ (\E s \in SessionIDs : Fresh(s)) =>
            ENABLED RunAttach(x)

=============================================================================
