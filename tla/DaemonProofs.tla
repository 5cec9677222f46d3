---------------------------- MODULE DaemonProofs ----------------------------
(***************************************************************************)
(* Proofs about the daemon: for any numbers of rules, jobs, runs, clients  *)
(* and sessions, the registry of the harness service is current and a      *)
(* closed service stays empty, and every job shows the truth about its     *)
(* runs and its source.  The sessions and the scheduler have an inductive  *)
(* invariant each; a step of the daemon is a step of one of them, of both, *)
(* or of the host alone.                                                   *)
(***************************************************************************)
EXTENDS Daemon, FiniteSetTheorems, TLAPS

(* What the registry shows is alive and registered under its own name. *)
RegisteredIsAlive ==
  \A n \in Names \cup SessionIDs : registry[n] # NoSession =>
    /\ sess[registry[n]].name = n
    /\ sess[registry[n]].stage \in {"open", "closing"}

SessionsInv == SessionsTypeOK /\ RegisteredIsAlive /\ ClosedServiceIsEmpty

(* A run belongs to a job that is running, and that job to it alone. *)
RunsAreTheirJobs ==
  /\ \A x \in RunIDs : runs[x].at # "none" => runs[x].job # NoJob
  /\ \A x \in RunIDs : runs[x].job # NoJob =>
       job[runs[x].job].running /\ job[runs[x].job].source # "unborn"
  /\ \A x, y \in RunIDs : runs[x].job = runs[y].job /\ runs[x].job # NoJob => x = y
  /\ \A j \in JobIDs : job[j].running => \E x \in RunIDs : runs[x].job = j

(* A job is in the map once, until somebody takes it out to stop it. *)
JobsAreOwned ==
  /\ \A r, q \in Rules : jobs[r] = jobs[q] /\ jobs[r] # NoJob => r = q
  /\ \A r \in Rules : jobs[r] # NoJob => ~job[jobs[r]].stopping /\ job[jobs[r]].source # "unborn"
  /\ \A j \in JobIDs : job[j].stopping => job[j].source # "unborn"

TriggersInv == TriggersTypeOK /\ RunsAreTheirJobs /\ JobsAreOwned /\ DeadJobShowsFailed

HostTypeOK ==
  /\ hostClosed \in BOOLEAN
  /\ shutdown \in [at: {"none", "list", "stop", "close", "done"}, left: SUBSET Rules,
                  job: JobIDs \cup {NoJob}]
  /\ adding \in [Clients -> Rules \cup {NoRule}]
  /\ ruleOf \in [JobIDs -> Rules \cup {NoRule}]
  /\ exec \in [RunIDs -> [at: {"none", "lookup", "open", "target"},
                          session: SessionIDs \cup {NoSession}]]

(* The executor works on a run that has not returned, for a job with a rule. *)
HostInv ==
  /\ HostTypeOK
  /\ \A x \in RunIDs : exec[x].at # "none" => runs[x].at = "running"
  /\ \A j \in JobIDs : job[j].source # "unborn" => ruleOf[j] \in Rules

DaemonInv == SessionsInv /\ TriggersInv /\ HostInv

-----------------------------------------------------------------------------
(* The sessions *)

LEMMA SessionsInitInv == SessionsInit => SessionsInv
<1> SUFFICES ASSUME SessionsInit PROVE SessionsInv
  OBVIOUS
<1>1. [stage |-> "unborn", name |-> NoName, subs |-> {}, sending |-> {}] \in SessionRecords
  BY DEF SessionRecords, Stages
<1>2. NoCall \in Calls
  BY DEF NoCall, Calls
<1>3. SessionsTypeOK
  BY <1>1, <1>2, Zenon DEF SessionsInit, SessionsTypeOK
<1>4. RegisteredIsAlive /\ ClosedServiceIsEmpty
  BY DEF SessionsInit, RegisteredIsAlive, ClosedServiceIsEmpty
<1> QED
  BY <1>3, <1>4 DEF SessionsInv

(* A step that leaves registry, sessions and the closed flag alone. *)
LEMMA OpenStartInv ==
  ASSUME SessionsInv, NEW p \in Openers, NEW n \in Names \cup {NoName}, OpenStart(p, n)
  PROVE  SessionsInv'
BY DEF OpenStart, SessionsInv, SessionsTypeOK, RegisteredIsAlive, ClosedServiceIsEmpty, Calls

LEMMA OpenFailInv ==
  ASSUME SessionsInv, NEW p \in Openers, OpenFail(p)
  PROVE  SessionsInv'
BY DEF OpenFail, SessionsInv, SessionsTypeOK, RegisteredIsAlive, ClosedServiceIsEmpty, Calls, NoCall

(* The new session was unborn, so nothing in the registry pointed to it. *)
LEMMA AttachInv ==
  ASSUME SessionsInv, NEW p \in Openers, NEW resume, Attach(p, resume)
  PROVE  SessionsInv'
<1> DEFINE s == CHOOSE t \in SessionIDs : Fresh(t)
           name == IF opening[p].name = NoName THEN s ELSE opening[p].name
<1>1. s \in SessionIDs /\ sess[s].stage = "unborn"
  BY DEF Attach, Fresh
<1>2. name \in Names \cup SessionIDs
  BY <1>1 DEF SessionsInv, SessionsTypeOK, Calls
<1>3. /\ registry' = [registry EXCEPT ![name] = s]
      /\ sess' = [sess EXCEPT ![s].stage = "open", ![s].name = name]
      /\ opening' = [opening EXCEPT ![p] = NoCall]
      /\ ~serviceClosed
      /\ UNCHANGED <<serviceClosed, doomed, current, stored, chans, panicked>>
  BY DEF Attach
<1> HIDE DEF s, name
<1>4. SessionsTypeOK'
  <2>1. sess' \in [SessionIDs -> SessionRecords]
    <3> DEFINE r == [sess[s] EXCEPT !.stage = "open", !.name = name]
    <3>1. sess[s] \in SessionRecords
      BY <1>1 DEF SessionsInv, SessionsTypeOK
    <3>2. r \in SessionRecords
      BY <1>2, <3>1, Zenon DEF SessionRecords, Stages
    <3>3. sess' = [sess EXCEPT ![s] = r]
      BY <1>1, <1>3, Zenon DEF SessionsInv, SessionsTypeOK
    <3> QED
      BY <3>2, <3>3, Zenon DEF SessionsInv, SessionsTypeOK
  <2>2. opening' \in [Openers -> Calls]
    BY <1>3 DEF SessionsInv, SessionsTypeOK, Calls, NoCall
  <2> QED
    BY <1>1, <1>2, <1>3, <2>1, <2>2 DEF SessionsInv, SessionsTypeOK
<1>5. RegisteredIsAlive'
  BY <1>1, <1>2, <1>3, SessionsAssumption DEF SessionsInv, SessionsTypeOK, RegisteredIsAlive, SessionRecords
<1>6. ClosedServiceIsEmpty'
  BY <1>3 DEF ClosedServiceIsEmpty
<1> QED
  BY <1>4, <1>5, <1>6 DEF SessionsInv

(* The three locks of Session.Close. *)
LEMMA CloseInv ==
  ASSUME SessionsInv, NEW s \in SessionIDs, CloseStart(s) \/ CloseLeave(s) \/ CloseChannels(s)
  PROVE  SessionsInv'
<1>1. CASE CloseStart(s)
  BY <1>1 DEF CloseStart, SessionsInv, SessionsTypeOK, RegisteredIsAlive, ClosedServiceIsEmpty,
              SessionRecords, Stages
<1>2. CASE CloseLeave(s)
  <2>1. SessionsTypeOK'
    BY <1>2 DEF CloseLeave, SessionsInv, SessionsTypeOK, SessionRecords, Stages
  <2>2. RegisteredIsAlive'
    BY <1>2, SessionsAssumption DEF CloseLeave, SessionsInv, SessionsTypeOK, RegisteredIsAlive, SessionRecords
  <2>3. ClosedServiceIsEmpty'
    BY <1>2 DEF CloseLeave, SessionsInv, ClosedServiceIsEmpty
  <2> QED
    BY <2>1, <2>2, <2>3 DEF SessionsInv
<1>3. CASE CloseChannels(s)
  <2>1. SessionsTypeOK'
    <3>1. sess' \in [SessionIDs -> SessionRecords]
      <4> DEFINE r == [sess[s] EXCEPT !.stage = "closed", !.name = NoName, !.subs = {}]
      <4>1. sess[s] \in SessionRecords
        BY DEF SessionsInv, SessionsTypeOK
      <4>2. r \in SessionRecords
        BY <4>1, Zenon DEF SessionRecords, Stages
      <4>3. sess' = [sess EXCEPT ![s] = r]
        BY <1>3 DEF CloseChannels
      <4> HIDE DEF r
      <4> QED
        BY <4>2, <4>3 DEF SessionsInv, SessionsTypeOK
    <3>2. chans' \in [Subscribers -> {"none", "open", "closed"}]
      BY <1>3 DEF CloseChannels, SessionsInv, SessionsTypeOK
    <3> QED
      BY <1>3, <3>1, <3>2 DEF CloseChannels, SessionsInv, SessionsTypeOK
  <2>2. RegisteredIsAlive' /\ ClosedServiceIsEmpty'
    BY <1>3, SessionsAssumption
       DEF CloseChannels, SessionsInv, SessionsTypeOK, RegisteredIsAlive, ClosedServiceIsEmpty, SessionRecords
  <2> QED
    BY <2>1, <2>2 DEF SessionsInv
<1> QED
  BY <1>1, <1>2, <1>3

(* Service.Close and the closing of what it found. *)
LEMMA ServiceCloseInv ==
  ASSUME SessionsInv,
         ServiceClose \/ ServiceCloseReturns \/ \E s \in SessionIDs : ServiceCloseNext(s)
  PROVE  SessionsInv'
<1>1. CASE ServiceClose
  BY <1>1, SessionsAssumption
     DEF ServiceClose, SessionsInv, SessionsTypeOK, RegisteredIsAlive, ClosedServiceIsEmpty
<1>2. CASE ServiceCloseReturns
  BY <1>2 DEF ServiceCloseReturns, SessionsInv, SessionsTypeOK, RegisteredIsAlive, ClosedServiceIsEmpty
<1>3. ASSUME NEW s \in SessionIDs, ServiceCloseNext(s) PROVE SessionsInv'
  BY <1>3 DEF ServiceCloseNext, SessionsInv, SessionsTypeOK, RegisteredIsAlive, ClosedServiceIsEmpty,
              SessionRecords, Stages
<1> QED
  BY <1>1, <1>2, <1>3

LEMMA SessionsRest == SessionsInv /\ UNCHANGED sessionVars => SessionsInv'
BY DEF sessionVars, SessionsInv, SessionsTypeOK, RegisteredIsAlive, ClosedServiceIsEmpty

-----------------------------------------------------------------------------
(* The scheduler *)

LEMMA TriggersInitInv == TriggersInit => TriggersInv
BY TriggersAssumption
   DEF TriggersInit, TriggersInv, TriggersTypeOK, RunsAreTheirJobs, JobsAreOwned, DeadJobShowsFailed,
       JobRecords, JobStatuses, RunRecords, NoRun

LEMMA AddRuleInv ==
  ASSUME TriggersInv, NEW r \in Rules, NEW j \in JobIDs, AddRule(r, j)
  PROVE  TriggersInv'
<1>1. TriggersTypeOK'
  BY DEF AddRule, TriggersInv, TriggersTypeOK, JobRecords
<1>2. RunsAreTheirJobs'
  BY DEF AddRule, TriggersInv, TriggersTypeOK, RunsAreTheirJobs, JobRecords, RunRecords
<1>3. JobsAreOwned'
  BY TriggersAssumption DEF AddRule, TriggersInv, TriggersTypeOK, JobsAreOwned, JobRecords
<1>4. DeadJobShowsFailed'
  BY TriggersAssumption DEF AddRule, TriggersInv, TriggersTypeOK, JobsAreOwned, DeadJobShowsFailed, JobRecords
<1> QED
  BY <1>1, <1>2, <1>3, <1>4 DEF TriggersInv

LEMMA StopJobInv ==
  ASSUME TriggersInv, NEW r \in Rules, StopJob(r)
  PROVE  TriggersInv'
<1>1. TriggersTypeOK'
  BY Zenon DEF StopJob, TriggersInv, TriggersTypeOK, JobRecords
<1>2. RunsAreTheirJobs'
  BY DEF StopJob, TriggersInv, TriggersTypeOK, RunsAreTheirJobs, JobRecords, RunRecords
<1>3. JobsAreOwned'
  BY TriggersAssumption DEF StopJob, TriggersInv, TriggersTypeOK, JobsAreOwned, JobRecords
<1>4. DeadJobShowsFailed'
  BY TriggersAssumption DEF StopJob, TriggersInv, TriggersTypeOK, JobsAreOwned, DeadJobShowsFailed, JobRecords
<1> QED
  BY <1>1, <1>2, <1>3, <1>4 DEF TriggersInv

(* What the goroutines of StopJob and of a source do to one job. *)
OwnStep(j) == \/ StopCancel(j) \/ StopStatus(j) \/ RunSource(j) \/ SourceEnds(j)
              \/ SourceFails(j) \/ MatchFails(j) \/ SkipEvent(j)

LEMMA OwnStepInv ==
  ASSUME TriggersInv, NEW j \in JobIDs, OwnStep(j)
  PROVE  TriggersInv'
<1> USE DEF OwnStep, StopCancel, StopStatus, RunSource, SourceEnds, SourceFails, MatchFails, SkipEvent
<1>1. TriggersTypeOK'
  <2>1. job[j] \in JobRecords
    BY DEF TriggersInv, TriggersTypeOK
  <2>2. CASE StopCancel(j)
    <3> DEFINE r == [job[j] EXCEPT !.canceled = TRUE]
    <3>1. r \in JobRecords
      BY <2>1, Zenon DEF JobRecords, JobStatuses
    <3>2. job' = [job EXCEPT ![j] = r] /\ UNCHANGED <<jobs, runs>>
      BY <2>2, Zenon DEF TriggersInv, TriggersTypeOK
    <3> HIDE DEF r
    <3> QED
      BY <3>1, <3>2 DEF TriggersInv, TriggersTypeOK
  <2>3. CASE RunSource(j)
    <3> DEFINE r == [job[j] EXCEPT !.source = "started", !.status = "active"]
    <3>1. r \in JobRecords
      BY <2>1, Zenon DEF JobRecords, JobStatuses
    <3>2. job' = [job EXCEPT ![j] = r] /\ UNCHANGED <<jobs, runs>>
      BY <2>3, Zenon DEF TriggersInv, TriggersTypeOK
    <3> HIDE DEF r
    <3> QED
      BY <3>1, <3>2 DEF TriggersInv, TriggersTypeOK
  <2>4. CASE SourceFails(j)
    <3> DEFINE r == [job[j] EXCEPT !.source = "failed", !.status = "failed"]
    <3>1. r \in JobRecords
      BY <2>1, Zenon DEF JobRecords, JobStatuses
    <3>2. job' = [job EXCEPT ![j] = r] /\ UNCHANGED <<jobs, runs>>
      BY <2>4, Zenon DEF TriggersInv, TriggersTypeOK
    <3> HIDE DEF r
    <3> QED
      BY <3>1, <3>2 DEF TriggersInv, TriggersTypeOK
  <2>5. CASE SourceEnds(j) \/ MatchFails(j) \/ SkipEvent(j)
    BY <2>1, <2>5 DEF TriggersInv, TriggersTypeOK, JobRecords, JobStatuses
  <2>6. CASE StopStatus(j)
    <3> DEFINE r == [job[j] EXCEPT !.stopping = FALSE, !.status = "stopped"]
    <3>1. r \in JobRecords
      BY <2>1, Zenon DEF JobRecords, JobStatuses
    <3>2. job' = [job EXCEPT ![j] = r] /\ UNCHANGED <<jobs, runs>>
      BY <2>6, Zenon DEF TriggersInv, TriggersTypeOK
    <3> HIDE DEF r
    <3> QED
      BY <3>1, <3>2 DEF TriggersInv, TriggersTypeOK
  <2> QED
    BY <2>2, <2>3, <2>4, <2>5, <2>6, Zenon
<1>2. RunsAreTheirJobs'
  BY SMTT(60), Zenon DEF TriggersInv, TriggersTypeOK, RunsAreTheirJobs, JobRecords, RunRecords
<1>3. JobsAreOwned'
  BY SMTT(60), Zenon DEF TriggersInv, TriggersTypeOK, JobsAreOwned, JobRecords
<1>4. DeadJobShowsFailed'
  BY SMTT(60), Zenon DEF TriggersInv, TriggersTypeOK, JobsAreOwned, DeadJobShowsFailed, JobRecords
<1> QED
  BY <1>1, <1>2, <1>3, <1>4 DEF TriggersInv

LEMMA StartRunInv ==
  ASSUME TriggersInv, NEW j \in JobIDs, NEW x \in RunIDs, StartRun(j, x)
  PROVE  TriggersInv'
<1>1. TriggersTypeOK'
  BY ZenonT(60), SMTT(60) DEF StartRun, TriggersInv, TriggersTypeOK, JobRecords, JobStatuses, RunRecords
<1>2. RunsAreTheirJobs'
  BY TriggersAssumption DEF StartRun, TriggersInv, TriggersTypeOK, RunsAreTheirJobs, JobRecords, RunRecords, NoRun
<1>3. JobsAreOwned' /\ DeadJobShowsFailed'
  BY DEF StartRun, TriggersInv, TriggersTypeOK, JobsAreOwned, DeadJobShowsFailed, JobRecords
<1> QED
  BY <1>1, <1>2, <1>3 DEF TriggersInv

LEMMA RunReturnsInv ==
  ASSUME TriggersInv, NEW x \in RunIDs, NEW ok \in BOOLEAN, RunReturns(x, ok)
  PROVE  TriggersInv'
<1>1. runs[x].job \in JobIDs
  BY DEF RunReturns, TriggersInv, TriggersTypeOK, RunsAreTheirJobs, RunRecords
<1>2. TriggersTypeOK'
  BY <1>1 DEF RunReturns, TriggersInv, TriggersTypeOK, JobRecords, JobStatuses, RunRecords
<1>3. RunsAreTheirJobs'
  BY <1>1 DEF RunReturns, TriggersInv, TriggersTypeOK, RunsAreTheirJobs, JobRecords, RunRecords
<1>4. JobsAreOwned' /\ DeadJobShowsFailed'
  BY <1>1 DEF RunReturns, TriggersInv, TriggersTypeOK, JobsAreOwned, DeadJobShowsFailed, JobRecords
<1> QED
  BY <1>2, <1>3, <1>4 DEF TriggersInv

(* The run was the only one of its job. *)
LEMMA FinishRunInv ==
  ASSUME TriggersInv, NEW x \in RunIDs, FinishRun(x)
  PROVE  TriggersInv'
<1>1. runs[x].job \in JobIDs
  BY DEF FinishRun, TriggersInv, TriggersTypeOK, RunsAreTheirJobs, RunRecords
<1>2. TriggersTypeOK'
  <2> DEFINE j == runs[x].job
             r == [job[j] EXCEPT !.running = FALSE, !.status = IF @ = "failed" THEN @ ELSE "active"]
  <2>1. r \in JobRecords
    BY <1>1, ZenonT(60), SMTT(60) DEF TriggersInv, TriggersTypeOK, JobRecords, JobStatuses
  <2>2. job' = [job EXCEPT ![j] = r]
    BY <1>1, Zenon DEF FinishRun, TriggersInv, TriggersTypeOK
  <2>3. NoRun \in RunRecords
    BY DEF NoRun, RunRecords
  <2>4. runs' = [runs EXCEPT ![x] = NoRun] /\ UNCHANGED jobs
    BY SMTT(60), Zenon DEF FinishRun
  <2> HIDE DEF r, NoRun
  <2> QED
    BY <2>1, <2>2, <2>3, <2>4, Zenon DEF TriggersInv, TriggersTypeOK
<1>3. RunsAreTheirJobs'
  BY <1>1, TriggersAssumption, SMTT(60), Zenon
     DEF FinishRun, TriggersInv, TriggersTypeOK, RunsAreTheirJobs, JobRecords, RunRecords, NoRun
<1>4. JobsAreOwned' /\ DeadJobShowsFailed'
  BY <1>1 DEF FinishRun, TriggersInv, TriggersTypeOK, JobsAreOwned, DeadJobShowsFailed, JobRecords
<1> QED
  BY <1>2, <1>3, <1>4 DEF TriggersInv

LEMMA TriggersRest == TriggersInv /\ UNCHANGED triggerVars => TriggersInv'
BY DEF triggerVars, TriggersInv, TriggersTypeOK, RunsAreTheirJobs, JobsAreOwned, DeadJobShowsFailed

(* The invariant of the scheduler counts the runs. *)
LEMMA RunsAreCounted == TriggersInv => OneRunPerJob
<1> SUFFICES ASSUME TriggersInv, NEW j \in JobIDs
             PROVE  Cardinality({x \in RunIDs : runs[x].job = j}) = IF job[j].running THEN 1 ELSE 0
  BY DEF OneRunPerJob
<1>1. CASE job[j].running
  <2>1. PICK x \in RunIDs : runs[x].job = j
    BY <1>1 DEF TriggersInv, RunsAreTheirJobs
  <2>2. {y \in RunIDs : runs[y].job = j} = {x}
    BY <2>1, TriggersAssumption DEF TriggersInv, RunsAreTheirJobs
  <2> QED
    BY <1>1, <2>2, FS_Singleton, SMTT(60), Zenon
<1>2. CASE ~job[j].running
  <2>1. {y \in RunIDs : runs[y].job = j} = {}
    BY <1>2, TriggersAssumption DEF TriggersInv, RunsAreTheirJobs
  <2> QED
    BY <1>2, <2>1, FS_EmptySet, Zenon
<1> QED
  BY <1>1, <1>2

-----------------------------------------------------------------------------
(* The host and the executor of triggers *)

LEMMA DaemonInitInv == DaemonInit => DaemonInv
<1> SUFFICES ASSUME DaemonInit PROVE DaemonInv
  OBVIOUS
<1>1. SessionsInv /\ TriggersInv
  BY SessionsInitInv, TriggersInitInv DEF DaemonInit
<1>2. NoExec \in [at: {"none", "lookup", "open", "target"}, session: SessionIDs \cup {NoSession}]
  BY DEF NoExec
<1>3. HostTypeOK
  BY <1>2, Zenon DEF DaemonInit, HostTypeOK
<1>4. HostInv
  BY <1>3 DEF DaemonInit, TriggersInit, HostInv, NoExec
<1> QED
  BY <1>1, <1>4 DEF DaemonInv

(* A run in the executor has a rule, and the rule a session name or none. *)
LEMMA RunHasRule ==
  ASSUME DaemonInv, NEW x \in RunIDs, exec[x].at # "none"
  PROVE  /\ runs[x].at = "running" /\ runs[x].job \in JobIDs
         /\ RuleOfRun(x) \in Rules
         /\ NameOf[RuleOfRun(x)] \in Names \cup {NoName}
<1>1. runs[x].at = "running"
  BY DEF DaemonInv, HostInv
<1>2. runs[x].job \in JobIDs /\ job[runs[x].job].source # "unborn"
  BY <1>1 DEF DaemonInv, TriggersInv, TriggersTypeOK, RunsAreTheirJobs, RunRecords
<1>3. RuleOfRun(x) \in Rules
  BY <1>2 DEF DaemonInv, HostInv, RuleOfRun
<1> QED
  BY <1>1, <1>2, <1>3, DaemonAssumption

(* Steps that leave the host, the executor and the scheduler alone. *)
LEMMA HostRest ==
  ASSUME HostInv, UNCHANGED <<triggerVars, hostVars, exec>>
  PROVE  HostInv'
BY DEF HostInv, HostTypeOK, triggerVars, hostVars

(* Steps of the scheduler that start no job and return no run. *)
LEMMA HostKeeps ==
  ASSUME HostInv, UNCHANGED <<hostVars, exec>>,
         \A x \in RunIDs : runs[x].at = "running" => runs'[x].at = "running",
         \A j \in JobIDs : job[j].source = "unborn" => job'[j].source = "unborn"
  PROVE  HostInv'
BY DEF HostInv, HostTypeOK, hostVars

LEMMA FireInv ==
  ASSUME DaemonInv, NEW j \in JobIDs, NEW x \in RunIDs, Fire(j, x)
  PROVE  DaemonInv'
<1>1. SessionsInv'
  BY SessionsRest DEF Fire, DaemonInv
<1>2. TriggersInv'
  BY StartRunInv DEF Fire, DaemonInv
<1>3. HostTypeOK'
  BY DEF Fire, DaemonInv, HostInv, HostTypeOK, hostVars
<1>4. HostInv'
  BY <1>3 DEF Fire, StartRun, DaemonInv, HostInv, HostTypeOK, hostVars, TriggersInv, TriggersTypeOK,
              JobRecords, RunRecords
<1> QED
  BY <1>1, <1>2, <1>4 DEF DaemonInv

LEMMA LookupInv ==
  ASSUME DaemonInv, NEW x \in RunIDs, Lookup(x)
  PROVE  DaemonInv'
<1>1. SessionsInv' /\ TriggersInv'
  BY SessionsRest, TriggersRest DEF Lookup, DaemonInv
<1>2. PICK at \in {"target", "open"}, s \in SessionIDs \cup {NoSession} :
        exec' = [exec EXCEPT ![x] = [at |-> at, session |-> s]]
  BY RunHasRule, Zenon DEF Lookup, DaemonInv, SessionsInv, SessionsTypeOK
<1>3. exec[x].at # "none" /\ UNCHANGED <<triggerVars, hostVars>>
  BY DEF Lookup
<1>4. HostInv'
  BY <1>2, <1>3 DEF DaemonInv, HostInv, HostTypeOK, triggerVars, hostVars
<1> QED
  BY <1>1, <1>4 DEF DaemonInv

LEMMA RunOpenStartInv ==
  ASSUME DaemonInv, NEW x \in RunIDs, RunOpenStart(x)
  PROVE  DaemonInv'
<1>1. x \in Openers /\ NameOf[RuleOfRun(x)] \in Names \cup {NoName}
  BY RunHasRule, DaemonAssumption DEF RunOpenStart
<1>2. SessionsInv'
  BY <1>1, OpenStartInv DEF RunOpenStart, DaemonInv
<1>3. TriggersInv' /\ HostInv'
  BY TriggersRest, HostRest DEF RunOpenStart, DaemonInv
<1> QED
  BY <1>2, <1>3 DEF DaemonInv

LEMMA RunAttachInv ==
  ASSUME DaemonInv, NEW x \in RunIDs, RunAttach(x)
  PROVE  DaemonInv'
<1>1. x \in Openers
  BY DaemonAssumption
<1>2. SessionsInv'
  BY <1>1, AttachInv DEF RunAttach, DaemonInv
<1>3. TriggersInv'
  BY TriggersRest DEF RunAttach, DaemonInv
<1>4. PICK s \in SessionIDs : exec' = [exec EXCEPT ![x] = [at |-> "target", session |-> s]]
  BY Zenon DEF RunAttach, Attach
<1>5. exec[x].at # "none" /\ UNCHANGED <<triggerVars, hostVars>>
  BY DEF RunAttach
<1>6. HostInv'
  BY <1>4, <1>5 DEF DaemonInv, HostInv, HostTypeOK, triggerVars, hostVars
<1> QED
  BY <1>2, <1>3, <1>6 DEF DaemonInv

(* The run leaves the executor. *)
LEMMA RunLeaves ==
  ASSUME DaemonInv, NEW x \in RunIDs, NEW ok \in BOOLEAN, exec[x].at # "none",
         RunReturns(x, ok), exec' = [exec EXCEPT ![x] = NoExec], UNCHANGED hostVars
  PROVE  TriggersInv' /\ HostInv'
<1>1. TriggersInv'
  BY RunReturnsInv DEF DaemonInv
<1>2. HostTypeOK'
  BY DEF DaemonInv, HostInv, HostTypeOK, hostVars, NoExec
<1>3. runs[x].job \in JobIDs
  BY RunHasRule
<1>4. HostInv'
  BY <1>2, <1>3 DEF DaemonInv, HostInv, HostTypeOK, hostVars, NoExec, RunReturns, TriggersInv, TriggersTypeOK,
              JobRecords, RunRecords
<1> QED
  BY <1>1, <1>4

LEMMA RunOpenFailInv ==
  ASSUME DaemonInv, NEW x \in RunIDs, RunOpenFail(x)
  PROVE  DaemonInv'
<1>1. x \in Openers
  BY DaemonAssumption
<1>2. SessionsInv'
  BY <1>1, OpenFailInv, SessionsRest DEF RunOpenFail, DaemonInv
<1>3. TriggersInv' /\ HostInv'
  BY RunLeaves, Zenon DEF RunOpenFail
<1> QED
  BY <1>2, <1>3 DEF DaemonInv

LEMMA TargetReturnsInv ==
  ASSUME DaemonInv, NEW x \in RunIDs, NEW ok \in BOOLEAN, TargetReturns(x, ok)
  PROVE  DaemonInv'
<1>1. SessionsInv'
  BY SessionsRest DEF TargetReturns, DaemonInv
<1>2. TriggersInv' /\ HostInv'
  BY RunLeaves, Zenon DEF TargetReturns
<1> QED
  BY <1>1, <1>2 DEF DaemonInv

LEMMA RunEndsInv ==
  ASSUME DaemonInv, NEW x \in RunIDs, RunEnds(x)
  PROVE  DaemonInv'
<1>1. SessionsInv' /\ TriggersInv'
  BY SessionsRest, FinishRunInv DEF RunEnds, DaemonInv
<1>2. \A y \in RunIDs : runs[y].at = "running" => runs'[y].at = "running"
  BY DEF RunEnds, FinishRun, DaemonInv, TriggersInv, TriggersTypeOK
<1>3. \A j \in JobIDs : job[j].source = "unborn" => job'[j].source = "unborn"
  BY DEF RunEnds, FinishRun, DaemonInv, TriggersInv, TriggersTypeOK, JobRecords
<1>4. HostInv'
  BY <1>2, <1>3, HostKeeps DEF RunEnds, DaemonInv
<1> QED
  BY <1>1, <1>4 DEF DaemonInv

LEMMA ClientStepInv ==
  ASSUME DaemonInv, NEW c \in Clients, ClientStep(c)
  PROVE  DaemonInv'
<1>0. c \in Openers
  BY DaemonAssumption
<1>1. CASE HostOpenStep(c)
  BY <1>0, <1>1, OpenFailInv, AttachInv, TriggersRest, HostRest, Zenon DEF HostOpenStep, DaemonInv
<1>2. ASSUME NEW n \in Names, HostOpenStart(c, n) PROVE DaemonInv'
  BY <1>0, <1>2, OpenStartInv, TriggersRest, HostRest DEF HostOpenStart, DaemonInv
<1>3. CASE AddTriggerRefused(c)
  <2>1. HostInv'
    BY <1>3 DEF AddTriggerRefused, DaemonInv, HostInv, HostTypeOK, triggerVars
  <2> QED
    BY <1>3, <2>1, SessionsRest, TriggersRest DEF AddTriggerRefused, DaemonInv
<1>4. ASSUME NEW r \in Rules, AddTrigger(c, r) PROVE DaemonInv'
  <2>1. HostInv'
    BY <1>4 DEF AddTrigger, DaemonInv, HostInv, HostTypeOK, triggerVars
  <2> QED
    BY <1>4, <2>1, SessionsRest, TriggersRest DEF AddTrigger, DaemonInv
<1>5. ASSUME NEW j \in JobIDs, AddTriggerRule(c, j) PROVE DaemonInv'
  <2>1. adding[c] \in Rules
    BY <1>5 DEF AddTriggerRule, DaemonInv, HostInv, HostTypeOK
  <2>2. SessionsInv' /\ TriggersInv'
    BY <1>5, <2>1, SessionsRest, AddRuleInv DEF AddTriggerRule, DaemonInv
  <2>3. HostTypeOK'
    BY <1>5, <2>1 DEF AddTriggerRule, DaemonInv, HostInv, HostTypeOK
  <2>4. HostInv'
    BY <1>5, <2>1, <2>3 DEF AddTriggerRule, AddRule, DaemonInv, HostInv, HostTypeOK, TriggersInv,
                            TriggersTypeOK, JobRecords
  <2> QED
    BY <2>2, <2>4 DEF DaemonInv
<1> QED
  BY <1>1, <1>2, <1>3, <1>4, <1>5 DEF ClientStep

(* StopJob and what the goroutines of a job do to it leave the runs alone    *)
(* and make no job.                                                          *)
LEMMA StopJobKeeps ==
  ASSUME DaemonInv, NEW r \in Rules, StopJob(r)
  PROVE  UNCHANGED runs /\ \A j \in JobIDs : job'[j].source = job[j].source
BY DEF StopJob, DaemonInv, TriggersInv, TriggersTypeOK, JobRecords

LEMMA SchedulerInv ==
  ASSUME DaemonInv, NEW j \in JobIDs, SchedulerStep(j) \/ SourceStep(j)
  PROVE  DaemonInv'
<1>1. OwnStep(j) /\ UNCHANGED <<sessionVars, hostVars, exec>>
  BY DEF SchedulerStep, SourceStep, OwnStep
<1>2. SessionsInv' /\ TriggersInv'
  BY <1>1, SessionsRest, OwnStepInv DEF DaemonInv
<1>3. UNCHANGED runs /\ \A i \in JobIDs : job[i].source = "unborn" => job'[i].source = "unborn"
  <2>1. UNCHANGED runs
    BY <1>1 DEF OwnStep, StopCancel, StopStatus, RunSource, SourceEnds, SourceFails, MatchFails, SkipEvent
  <2>2. job[j].source # "unborn"
    BY <1>1 DEF OwnStep, StopCancel, StopStatus, RunSource, SourceEnds, SourceFails, MatchFails, SkipEvent,
                DaemonInv, TriggersInv, JobsAreOwned
  <2>3. \A i \in JobIDs \ {j} : job'[i] = job[i]
    BY <1>1 DEF OwnStep, StopCancel, StopStatus, RunSource, SourceEnds, SourceFails, MatchFails, SkipEvent,
                DaemonInv, TriggersInv, TriggersTypeOK
  <2> QED
    BY <2>1, <2>2, <2>3
<1>4. HostInv'
  BY <1>1, <1>3, HostKeeps DEF DaemonInv
<1> QED
  BY <1>2, <1>4 DEF DaemonInv

LEMMA HostStopJobInv ==
  ASSUME DaemonInv, NEW r \in Rules, HostStopJob(r)
  PROVE  DaemonInv'
<1>1. SessionsInv' /\ TriggersInv'
  BY SessionsRest, StopJobInv DEF HostStopJob, DaemonInv
<1>2. HostInv'
  BY StopJobKeeps, HostKeeps DEF HostStopJob, DaemonInv
<1> QED
  BY <1>1, <1>2 DEF DaemonInv

(* The steps of Shutdown that change nothing but where it is. *)
LEMMA ShutdownMoves ==
  ASSUME HostInv, UNCHANGED <<triggerVars, adding, ruleOf, exec>>, hostClosed' \in BOOLEAN,
         shutdown' \in [at: {"none", "list", "stop", "close", "done"}, left: SUBSET Rules,
                       job: JobIDs \cup {NoJob}]
  PROVE  HostInv'
BY DEF HostInv, HostTypeOK, triggerVars

LEMMA ShutdownInv ==
  ASSUME DaemonInv, Shutdown \/ ShutdownStep
  PROVE  DaemonInv'
<1>0. /\ hostClosed \in BOOLEAN
      /\ shutdown \in [at: {"none", "list", "stop", "close", "done"}, left: SUBSET Rules,
                      job: JobIDs \cup {NoJob}]
  BY DEF DaemonInv, HostInv, HostTypeOK
<1>1. CASE Shutdown
  BY <1>0, <1>1, SessionsRest, TriggersRest, ShutdownMoves DEF Shutdown, DaemonInv
<1>2. CASE StopAllList
  BY <1>0, <1>2, SessionsRest, TriggersRest, ShutdownMoves, Zenon DEF StopAllList, DaemonInv
<1>3. ASSUME NEW r \in Rules, StopAllNext(r) PROVE DaemonInv'
  <2>1. /\ shutdown' \in [at: {"none", "list", "stop", "close", "done"}, left: SUBSET Rules,
                          job: JobIDs \cup {NoJob}]
        /\ UNCHANGED <<sessionVars, hostClosed, adding, ruleOf, exec>>
    BY <1>0, <1>3, Zenon DEF StopAllNext, DaemonInv, TriggersInv, TriggersTypeOK
  <2>2. CASE UNCHANGED triggerVars
    BY <1>0, <2>1, <2>2, SessionsRest, TriggersRest, ShutdownMoves DEF DaemonInv
  <2>3. CASE StopJob(r)
    <3>1. SessionsInv' /\ TriggersInv'
      BY <2>1, <2>3, SessionsRest, StopJobInv, SMTT(60), Zenon DEF DaemonInv
    <3>2. HostInv'
      BY <2>1, <2>3, StopJobKeeps, SMTT(60), Zenon DEF DaemonInv, HostInv, HostTypeOK
    <3> QED
      BY <3>1, <3>2 DEF DaemonInv
  <2> QED
    BY <1>3, <2>2, <2>3 DEF StopAllNext
<1>4. CASE ShutdownService
  BY <1>0, <1>4, ServiceCloseInv, TriggersRest, ShutdownMoves DEF ShutdownService, DaemonInv
<1>5. CASE ShutdownSession
  BY <1>5, ServiceCloseInv, TriggersRest, HostRest DEF ShutdownSession, DaemonInv
<1>6. CASE ShutdownDone
  BY <1>0, <1>6, SessionsRest, TriggersRest, ShutdownMoves DEF ShutdownDone, DaemonInv
<1> QED
  BY <1>1, <1>2, <1>3, <1>4, <1>5, <1>6 DEF ShutdownStep

LEMMA DaemonStepInv == DaemonInv /\ [DaemonNext]_daemonVars => DaemonInv'
<1> SUFFICES ASSUME DaemonInv, [DaemonNext]_daemonVars PROVE DaemonInv'
  OBVIOUS
<1>1. CASE Shutdown \/ ShutdownStep
  BY <1>1, ShutdownInv
<1>2. ASSUME NEW c \in Clients, ClientStep(c) PROVE DaemonInv'
  BY <1>2, ClientStepInv
<1>3. ASSUME NEW r \in Rules, HostStopJob(r) PROVE DaemonInv'
  BY <1>3, HostStopJobInv
<1>4. ASSUME NEW x \in RunIDs, RunStep(x) PROVE DaemonInv'
  BY <1>4, LookupInv, RunOpenStartInv, RunAttachInv, RunOpenFailInv, RunEndsInv, TargetReturnsInv DEF RunStep
<1>5. ASSUME NEW x \in RunIDs, NEW j \in JobIDs, Fire(j, x) PROVE DaemonInv'
  BY <1>5, FireInv
<1>6. ASSUME NEW j \in JobIDs, SchedulerStep(j) \/ SourceStep(j) PROVE DaemonInv'
  BY <1>6, SchedulerInv
<1>7. ASSUME NEW s \in SessionIDs, CloseStep(s) PROVE DaemonInv'
  BY <1>7, CloseInv, TriggersRest, HostRest DEF CloseStep, DaemonInv
<1>8. CASE UNCHANGED daemonVars
  BY <1>8, SessionsRest, TriggersRest, HostRest DEF daemonVars, hostVars, DaemonInv
<1> QED
  BY <1>1, <1>2, <1>3, <1>4, <1>5, <1>6, <1>7, <1>8 DEF DaemonNext

-----------------------------------------------------------------------------
(* The registry from step to step *)

(* What RegistryIsCurrent says of a step. *)
RegistryStep ==
  \A n \in DOMAIN registry : registry[n] # NoSession =>
    /\ sess[registry[n]].name = n
    /\ sess[registry[n]].stage \in {"open", "closing"}
    /\ registry'[n] = NoSession => \/ sess[registry[n]].stage = "closing"
                                   \/ serviceClosed'

(* Four kinds of steps, as the registry sees them. *)
LEMMA RegistrySteps ==
  ASSUME DaemonInv, DaemonNext
  PROVE  \/ UNCHANGED registry
         \/ \E p \in Openers : \E resume \in BOOLEAN : Attach(p, resume)
         \/ \E s \in SessionIDs : CloseLeave(s)
         \/ ServiceClose
<1>1. CASE Shutdown \/ ShutdownStep
  BY <1>1, Zenon DEF Shutdown, ShutdownStep, StopAllList, StopAllNext, ShutdownService, ShutdownSession, ShutdownDone,
              ServiceCloseReturns, ServiceCloseNext, sessionVars
<1>2. ASSUME NEW c \in Clients, ClientStep(c)
      PROVE  UNCHANGED registry \/ Attach(c, FALSE)
  BY <1>2, Zenon DEF ClientStep, HostOpenStep, HostOpenStart, OpenStart, OpenFail, AddTrigger, AddTriggerRule,
              AddTriggerRefused, sessionVars
<1>3. ASSUME NEW x \in RunIDs, RunStep(x)
      PROVE  UNCHANGED registry \/ Attach(x, Resumes(x))
  BY <1>3, Zenon DEF RunStep, Lookup, RunOpenStart, RunAttach, RunOpenFail, RunEnds, TargetReturns, OpenStart, OpenFail,
              sessionVars
<1>4. ASSUME NEW s \in SessionIDs, CloseStep(s)
      PROVE  UNCHANGED registry \/ CloseLeave(s)
  BY <1>4 DEF CloseStep, CloseStart, CloseChannels
<1>5. ASSUME \/ \E r \in Rules : HostStopJob(r)
             \/ \E j \in JobIDs : \E x \in RunIDs : Fire(j, x)
             \/ \E j \in JobIDs : SchedulerStep(j) \/ SourceStep(j)
      PROVE  UNCHANGED registry
  BY <1>5 DEF HostStopJob, Fire, SchedulerStep, SourceStep, sessionVars
<1>6. \A x \in RunIDs : Resumes(x) \in BOOLEAN
  BY DEF Resumes
<1> QED
  BY <1>1, <1>2, <1>3, <1>4, <1>5, <1>6, DaemonAssumption, Zenon DEF DaemonNext

LEMMA RegistryStepHolds == DaemonInv /\ [DaemonNext]_daemonVars => [RegistryStep]_sessionVars
<1> SUFFICES ASSUME DaemonInv, DaemonNext PROVE RegistryStep
  BY DEF daemonVars
<1>1. SessionsTypeOK /\ RegisteredIsAlive
  BY DEF DaemonInv, SessionsInv
<1>2. CASE UNCHANGED registry
  BY <1>1, <1>2 DEF RegistryStep, SessionsTypeOK, RegisteredIsAlive
<1>3. ASSUME NEW p \in Openers, NEW resume \in BOOLEAN, Attach(p, resume) PROVE RegistryStep
  <2> DEFINE s == CHOOSE t \in SessionIDs : Fresh(t)
             name == IF opening[p].name = NoName THEN s ELSE opening[p].name
  <2>1. s \in SessionIDs /\ registry' = [registry EXCEPT ![name] = s]
    BY <1>3 DEF Attach
  <2> HIDE DEF s, name
  <2> QED
    BY <1>1, <2>1, SessionsAssumption DEF RegistryStep, SessionsTypeOK, RegisteredIsAlive
<1>4. ASSUME NEW s \in SessionIDs, CloseLeave(s) PROVE RegistryStep
  BY <1>1, <1>4 DEF CloseLeave, RegistryStep, SessionsTypeOK, RegisteredIsAlive
<1>5. CASE ServiceClose
  BY <1>1, <1>5 DEF ServiceClose, RegistryStep, SessionsTypeOK, RegisteredIsAlive
<1> QED
  BY <1>2, <1>3, <1>4, <1>5, RegistrySteps

-----------------------------------------------------------------------------
(* The theorems *)

(* For any numbers of clients, rules and runs that open sessions while the   *)
(* host shuts down: once Service.Close has set the closed flag no session is *)
(* in the registry, because attachSession tests the flag again under the     *)
(* lock under which it registers.                                            *)
THEOREM ClosedServiceStaysEmpty == DaemonSpec => []ClosedServiceIsEmpty
<1>1. DaemonInv => ClosedServiceIsEmpty
  BY DEF DaemonInv, SessionsInv
<1> QED
  BY DaemonInitInv, DaemonStepInv, <1>1, PTL DEF DaemonSpec

(* However many sessions share a name, one after the other: the registry     *)
(* shows living sessions under their own name, and Session.Close takes only  *)
(* its own session out of it, never the successor that attachSession put in  *)
(* its place.                                                                *)
THEOREM RegistryStaysCurrent == DaemonSpec => RegistryIsCurrent
<1>1. DaemonInv /\ [DaemonNext]_daemonVars => [RegistryStep]_sessionVars
  BY RegistryStepHolds
<1>2. DaemonSpec => [][RegistryStep]_sessionVars
  BY DaemonInitInv, DaemonStepInv, <1>1, PTL DEF DaemonSpec
<1> QED
  BY <1>2 DEF RegistryIsCurrent, RegistryStep

(* For any numbers of rules, jobs and runs, through stop, shutdown and the   *)
(* failure of a source: the state is well formed, tryStartRun lets at most   *)
(* one run of a job in and finishRun clears the flag exactly when that run   *)
(* is gone, and a registered job whose source has failed shows as failed.    *)
THEOREM JobsAlwaysShowTheTruth == DaemonSpec => []JobsShowTheTruth
<1>1. DaemonInv => JobsShowTheTruth
  <2> SUFFICES ASSUME DaemonInv PROVE JobsShowTheTruth
    OBVIOUS
  <2>1. DaemonTypeOK
    BY DEF DaemonInv, SessionsInv, TriggersInv, HostInv, HostTypeOK, DaemonTypeOK
  <2>2. OneRunPerJob /\ DeadJobShowsFailed
    BY RunsAreCounted DEF DaemonInv, TriggersInv
  <2> QED
    BY <2>1, <2>2 DEF JobsShowTheTruth
<1> QED
  BY DaemonInitInv, DaemonStepInv, <1>1, PTL DEF DaemonSpec
=============================================================================
