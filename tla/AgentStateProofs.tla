-------------------------- MODULE AgentStateProofs --------------------------
(***************************************************************************)
(* What an agent keeps beside its conversation is sound and is what its    *)
(* log says, for any number of instances, callers, batches and events.     *)
(***************************************************************************)
EXTENDS AgentPlansProofs

-----------------------------------------------------------------------------
(* The activated skills *)

(* The states of a started agent: references are active for active skills. *)
ActiveStates == {s \in SkillState : /\ s.base = Baseline
                                    /\ \A n \in SkillNames : s.refs[n] # {} => IsActive(s, n)}

(* The state s with more references of one skill. *)
WithRefs(s, name, paths) ==
    [base |-> s.base, dynamic |-> s.dynamic, refs |-> [s.refs EXCEPT ![name] = s.refs[name] \cup paths]]

LEMMA StateFields ==
    ASSUME NEW s \in ActiveStates
    PROVE  /\ s.base = Baseline /\ s.base \subseteq SkillNames /\ s.dynamic \subseteq SkillNames
           /\ s.refs \in [SkillNames -> SUBSET SkillPaths]
           /\ s = [base |-> s.base, dynamic |-> s.dynamic, refs |-> s.refs]
           /\ \A n \in SkillNames : s.refs[n] # {} => IsActive(s, n)
BY SMTT(60), Zenon DEF ActiveStates, SkillState, SkillPaths

LEMMA NewStateActive ==
    /\ NewActivationState \in ActiveStates
    /\ NewActivationState.dynamic = {}
    /\ \A n \in SkillNames : NewActivationState.refs[n] = {}
<1>1. Baseline \subseteq SkillNames
  BY AgentStateAssumption DEF Startable
<1>2. NewActivationState \in SkillState
  BY <1>1 DEF NewActivationState, SkillState
<1> QED
  BY <1>2 DEF NewActivationState, ActiveStates

(* A state with an active reference or an activated skill is not the first. *)
LEMMA NotNew ==
    ASSUME NEW s \in ActiveStates
    PROVE  s # NewActivationState <=> s.dynamic # {} \/ \E n \in SkillNames : s.refs[n] # {}
<1>1. ASSUME s.dynamic = {}, \A n \in SkillNames : s.refs[n] = {}
      PROVE  s = NewActivationState
  <2>1. s.refs = [n \in SkillNames |-> {}]
    BY <1>1, StateFields, Zenon
  <2> QED
    BY <1>1, <2>1, StateFields DEF NewActivationState
<1> QED
  BY <1>1, NewStateActive

(* ActivateSkill *)
LEMMA SkillActivated ==
    ASSUME NEW s \in ActiveStates, NEW name \in SkillNames
    PROVE  LET a == ActivateSkill(s, name) IN
           /\ a.ok /\ a.state \in ActiveStates
           /\ IsActive(s, name) => a.state = s
           /\ ~IsActive(s, name) => a.state # NewActivationState
           /\ s # NewActivationState => a.state # NewActivationState
<1> DEFINE a == ActivateSkill(s, name)
           t == [base |-> s.base, dynamic |-> s.dynamic \cup {name}, refs |-> s.refs]
<1>1. /\ s.base = Baseline /\ s.base \subseteq SkillNames /\ s.dynamic \subseteq SkillNames
      /\ s.refs \in [SkillNames -> SUBSET SkillPaths]
      /\ s = [base |-> s.base, dynamic |-> s.dynamic, refs |-> s.refs]
      /\ \A n \in SkillNames : s.refs[n] # {} => IsActive(s, n)
  BY StateFields
<1>2. CASE name \in s.base
  <2>1. a.ok /\ a.state = s
    BY <1>2 DEF ActivateSkill
  <2>2. IsActive(s, name)
    BY <1>2 DEF IsActive
  <2> QED
    BY <2>1, <2>2
<1>3. CASE name \notin s.base
  <2>1. [s EXCEPT !.dynamic = @ \cup {name}] = t
    BY <1>1
  <2>2. a = [ok |-> TRUE, state |-> [s EXCEPT !.dynamic = @ \cup {name}]]
    BY <1>3 DEF ActivateSkill
  <2>3. a.ok /\ a.state = t
    BY <2>1, <2>2
  <2>4. t \in SkillState /\ t.base = Baseline
    BY <1>1 DEF SkillState, SkillPaths
  <2>5. \A n \in SkillNames : t.refs[n] # {} => IsActive(t, n)
    BY <1>1 DEF IsActive
  <2>6. t \in ActiveStates
    BY <2>4, <2>5, SMTT(60), Zenon DEF ActiveStates
  <2>7. t # NewActivationState
    BY <2>6, NotNew
  <2>8. IsActive(s, name) => t = s
    <3> SUFFICES ASSUME name \in s.dynamic PROVE t = s
      BY <1>3 DEF IsActive
    <3>1. s.dynamic \cup {name} = s.dynamic
      OBVIOUS
    <3> QED
      BY <1>1, <3>1
  <2> QED
    BY <2>3, <2>6, <2>7, <2>8, SMTT(60), Zenon
<1> QED
  BY <1>2, <1>3

(* A state with more references of an active skill. *)
LEMMA WithRefsActive ==
    ASSUME NEW s \in ActiveStates, NEW name \in SkillNames, NEW paths \in SUBSET SkillPaths, IsActive(s, name)
    PROVE  LET t == WithRefs(s, name, paths) IN
           /\ t \in ActiveStates
           /\ [s EXCEPT !.refs[name] = @ \cup paths] = t
           /\ \A n \in SkillNames : IsActive(t, n) <=> IsActive(s, n)
           /\ t.refs[name] = s.refs[name] \cup paths
           /\ s # NewActivationState \/ paths # {} => t # NewActivationState
           /\ paths = {} => t = s
           /\ \A more : WithRefs(t, name, more) = WithRefs(s, name, paths \cup more)
           /\ \A p : t = WithRefs(s, name, p) <=> s.refs[name] \cup p = s.refs[name] \cup paths
<1> DEFINE t == WithRefs(s, name, paths)
<1>1. /\ s.base = Baseline /\ s.base \subseteq SkillNames /\ s.dynamic \subseteq SkillNames
      /\ s.refs \in [SkillNames -> SUBSET SkillPaths]
      /\ s = [base |-> s.base, dynamic |-> s.dynamic, refs |-> s.refs]
      /\ \A n \in SkillNames : s.refs[n] # {} => IsActive(s, n)
  BY StateFields
<1>2. /\ t.base = s.base /\ t.dynamic = s.dynamic
      /\ t.refs = [s.refs EXCEPT ![name] = s.refs[name] \cup paths]
  BY DEF WithRefs
<1>3. /\ t.refs \in [SkillNames -> SUBSET SkillPaths]
      /\ t.refs[name] = s.refs[name] \cup paths
      /\ \A n \in SkillNames : n # name => t.refs[n] = s.refs[n]
  BY <1>1, <1>2
<1>4. t \in SkillState
  BY <1>1, <1>3 DEF SkillState, SkillPaths, WithRefs
<1>5. \A n \in SkillNames : IsActive(t, n) <=> IsActive(s, n)
  BY <1>2 DEF IsActive
<1>6. t \in ActiveStates
  BY <1>1, <1>2, <1>3, <1>4, <1>5, SMTT(60), Zenon DEF ActiveStates
<1>7. [s EXCEPT !.refs[name] = @ \cup paths] = t
  <2>1. s \in [base: {s.base}, dynamic: {s.dynamic}, refs: {s.refs}]
    BY <1>1
  <2> DEFINE new == s.refs[name] \cup paths
  <2>2. [s EXCEPT !.refs[name] = s.refs[name] \cup paths] = [s EXCEPT !.refs[name] = new]
    OBVIOUS
  <2> HIDE DEF new
  <2>3. [s EXCEPT !.refs[name] = new] = [base |-> s.base, dynamic |-> s.dynamic, refs |-> [s.refs EXCEPT ![name] = new]]
    BY <2>1
  <2> QED
    BY <2>2, <2>3 DEF WithRefs, new
<1>8. s # NewActivationState \/ paths # {} => t # NewActivationState
  <2>1. t # NewActivationState <=> t.dynamic # {} \/ \E n \in SkillNames : t.refs[n] # {}
    BY <1>6, NotNew
  <2>2. s # NewActivationState <=> s.dynamic # {} \/ \E n \in SkillNames : s.refs[n] # {}
    BY NotNew
  <2> HIDE DEF t
  <2> QED
    BY <1>2, <1>3, <2>1, <2>2, SMTT(60), Zenon
<1>9. paths = {} => t = s
  <2> SUFFICES ASSUME paths = {} PROVE t = s
    OBVIOUS
  <2>1. [s.refs EXCEPT ![name] = s.refs[name] \cup paths] = s.refs
    BY <1>1
  <2> QED
    BY <1>1, <2>1 DEF WithRefs
<1>10. \A more : WithRefs(t, name, more) = WithRefs(s, name, paths \cup more)
  <2> SUFFICES ASSUME NEW more
               PROVE  WithRefs(t, name, more) = WithRefs(s, name, paths \cup more)
    OBVIOUS
  <2>1. (s.refs[name] \cup paths) \cup more = s.refs[name] \cup (paths \cup more)
    OBVIOUS
  <2>2. [t.refs EXCEPT ![name] = t.refs[name] \cup more] = [s.refs EXCEPT ![name] = s.refs[name] \cup (paths \cup more)]
    BY <1>1, <1>2, <1>3, <2>1, SMTT(60), Zenon
  <2> HIDE DEF t
  <2> QED
    BY <1>2, <2>2 DEF WithRefs
<1>11. \A p : t = WithRefs(s, name, p) <=> s.refs[name] \cup p = s.refs[name] \cup paths
  <2> SUFFICES ASSUME NEW p
               PROVE  t = WithRefs(s, name, p) <=> s.refs[name] \cup p = s.refs[name] \cup paths
    OBVIOUS
  <2>1. WithRefs(s, name, p).refs[name] = s.refs[name] \cup p
    BY <1>1 DEF WithRefs
  <2>2. s.refs[name] \cup p = s.refs[name] \cup paths => t = WithRefs(s, name, p)
    BY DEF WithRefs
  <2> HIDE DEF t
  <2> QED
    BY <1>3, <2>1, <2>2, SMTT(60), Zenon
<1> QED
  BY <1>3, <1>5, <1>6, <1>7, <1>8, <1>9, <1>10, <1>11, SMTT(60), Zenon

(* ActivateReferences *)
LEMMA ReferencesActivated ==
    ASSUME NEW s \in ActiveStates, NEW name \in SkillNames, NEW S, NEW paths \in Seq(S)
    PROVE  LET a == ActivateReferences(s, name, paths) IN
           /\ a.state \in ActiveStates
           /\ a.state # s => a.state # NewActivationState
           /\ s # NewActivationState => a.state # NewActivationState
           /\ a.activated \subseteq Repo[name] \ Invalid
           /\ IsFiniteSet(a.activated)
           /\ a.ok => IsActive(s, name) /\ a.state = WithRefs(s, name, a.activated)
           /\ ~IsActive(s, name) => a.state = s
           /\ a.activated # {} => a.state # NewActivationState
<1> DEFINE a == ActivateReferences(s, name, paths)
           good(i) == validReferencePath(paths[i]) /\ paths[i] \in Repo[name]
           before == {i \in DOMAIN paths : \A j \in 1..i : good(j)}
           new == {paths[i] : i \in before}
<1>1. CASE ~IsActive(s, name)
  <2>1. a = [ok |-> FALSE, state |-> s, activated |-> {}]
    BY <1>1 DEF ActivateReferences
  <2>2. ~a.ok /\ a.state = s /\ a.activated = {} /\ IsFiniteSet({})
    BY <2>1, FS_EmptySet, SMTT(60), Zenon
  <2> QED
    BY <1>1, <2>2
<1>2. CASE IsActive(s, name)
  <2>1. DOMAIN paths = 1..Len(paths) /\ Len(paths) \in Nat
    OBVIOUS
  <2>2. \A i \in before : good(i)
    <3> SUFFICES ASSUME NEW i \in before PROVE good(i)
      OBVIOUS
    <3>1. i \in 1..i
      BY <2>1
    <3> QED
      BY <3>1
  <2>3. new \subseteq Repo[name] \ Invalid
    BY <2>2 DEF validReferencePath
  <2>4. IsFiniteSet(new)
    <3>1. IsFiniteSet(1..Len(paths))
      BY <2>1, FS_Interval
    <3>2. before \subseteq 1..Len(paths)
      BY <2>1
    <3> HIDE DEF before
    <3>3. IsFiniteSet(before)
      BY <3>1, <3>2, FS_Subset, Zenon
    <3>4. IsFiniteSet({paths[i] : i \in before})
      <4> DEFINE f == [i \in before |-> paths[i]]
      <4>1. {paths[i] : i \in before} = {f[i] : i \in before}
        OBVIOUS
      <4>2. f \in [before -> {paths[i] : i \in before}]
        OBVIOUS
      <4>3. f \in Surjection(before, {paths[i] : i \in before})
        BY <4>2 DEF Surjection
      <4> QED
        BY <3>3, <4>3, FS_Surjection, SMTT(60), Zenon
    <3> QED
      BY <3>4
  <2>5. new \in SUBSET SkillPaths
    BY <2>3 DEF SkillPaths
  <2>6. a = LET added == [s EXCEPT !.refs[name] = @ \cup new]
            IN  IF before = DOMAIN paths
                THEN [ok |-> TRUE, state |-> added, activated |-> new \ s.refs[name]]
                ELSE [ok |-> FALSE, state |-> added, activated |-> {}]
    BY <1>2 DEF ActivateReferences
  <2> HIDE DEF new, before
  <2> DEFINE t == WithRefs(s, name, new)
  <2>7. /\ t \in ActiveStates /\ [s EXCEPT !.refs[name] = @ \cup new] = t
        /\ s # NewActivationState \/ new # {} => t # NewActivationState
        /\ new = {} => t = s
        /\ \A p : t = WithRefs(s, name, p) <=> s.refs[name] \cup p = s.refs[name] \cup new
    BY <1>2, <2>5, WithRefsActive, SMTT(60), Zenon
  <2>8. t = WithRefs(s, name, new \ s.refs[name])
    <3>1. s.refs[name] \cup (new \ s.refs[name]) = s.refs[name] \cup new
      OBVIOUS
    <3> QED
      BY <2>7, <3>1
  <2>9. \/ a = [ok |-> TRUE, state |-> t, activated |-> new \ s.refs[name]]
        \/ a = [ok |-> FALSE, state |-> t, activated |-> {}]
    BY <2>6, <2>7, Zenon
  <2> HIDE DEF t, a
  <2>10. IsFiniteSet(new \ s.refs[name]) /\ IsFiniteSet({})
    BY <2>4, FS_Subset, FS_EmptySet, SMTT(60), Zenon
  <2>11. CASE a = [ok |-> TRUE, state |-> t, activated |-> new \ s.refs[name]]
    <3>1. a.ok /\ a.state = t /\ a.activated = new \ s.refs[name]
      BY <2>11
    <3> QED
      BY <1>2, <2>3, <2>7, <2>8, <2>10, <3>1, SMTT(60), Zenon DEF a
  <2>12. CASE a = [ok |-> FALSE, state |-> t, activated |-> {}]
    <3>1. ~a.ok /\ a.state = t /\ a.activated = {}
      BY <2>12
    <3> QED
      BY <1>2, <2>7, <2>10, <3>1, SMTT(60), Zenon DEF a
  <2> QED
    BY <2>9, <2>11, <2>12, SMTT(60), Zenon
<1> QED
  BY <1>1, <1>2, SMTT(60), Zenon

(* One event of replaySkillEvents. *)
LEMMA SkillStepIs ==
    ASSUME NEW s \in ActiveStates, NEW e \in Entries
    PROVE  /\ ReplaySkillStep(s, e) \in ActiveStates
           /\ e.kind \notin {"skill", "reference"} => ReplaySkillStep(s, e) = s
           /\ e.kind = "skill" => ReplaySkillStep(s, e) = ActivateSkill(s, e.name).state
<1>1. /\ e.kind \in {"skill", "reference"} => e.name \in SkillNames
      /\ e.kind = "reference" => e.path \in SkillPaths
  BY EntryKinds
<1>2. CASE e.kind = "skill"
  <2>1. ReplaySkillStep(s, e) = ActivateSkill(s, e.name).state
    BY <1>2 DEF ReplaySkillStep
  <2> QED
    BY <1>1, <1>2, <2>1, SkillActivated, SMTT(60), Zenon
<1>3. CASE e.kind = "reference"
  <2>1. ReplaySkillStep(s, e) = ActivateReferences(s, e.name, <<e.path>>).state
    BY <1>3 DEF ReplaySkillStep
  <2>2. <<e.path>> \in Seq({e.path})
    OBVIOUS
  <2>3. ActivateReferences(s, e.name, <<e.path>>).state \in ActiveStates
    BY <1>1, <1>3, <2>2, ReferencesActivated, Zenon
  <2> QED
    BY <1>3, <2>1, <2>3, SMTT(60), Zenon
<1>4. CASE e.kind \notin {"skill", "reference"}
  BY <1>4 DEF ReplaySkillStep
<1> QED
  BY <1>2, <1>3, <1>4, SMTT(60), Zenon

(* The replay of a reference of an active skill. *)
LEMMA ReferenceStepIs ==
    ASSUME NEW s \in ActiveStates, NEW name \in SkillNames, IsActive(s, name),
           NEW path \in Repo[name] \ Invalid
    PROVE  LET e == [kind |-> "reference", name |-> name, path |-> path] IN
           e \in Entries /\ ReplaySkillStep(s, e) = WithRefs(s, name, {path})
<1> DEFINE e == [kind |-> "reference", name |-> name, path |-> path]
           paths == <<path>>
           good(i) == validReferencePath(paths[i]) /\ paths[i] \in Repo[name]
           before == {i \in DOMAIN paths : \A j \in 1..i : good(j)}
           new == {paths[i] : i \in before}
<1>1. path \in SkillPaths
  BY DEF SkillPaths
<1>2. e \in Entries /\ e.kind = "reference" /\ e.name = name /\ e.path = path
  BY <1>1 DEF Entries, SkillEntries
<1>3. ReplaySkillStep(s, e) = ActivateReferences(s, name, paths).state
  BY <1>2 DEF ReplaySkillStep
<1>4. DOMAIN paths = {1} /\ paths[1] = path
  OBVIOUS
<1>5. good(1)
  BY <1>4 DEF validReferencePath
<1>6. before = {1}
  BY <1>4, <1>5
<1>7. new = {path}
  BY <1>4, <1>6
<1>8. ActivateReferences(s, name, paths) =
        LET added == [s EXCEPT !.refs[name] = @ \cup new]
        IN  IF before = DOMAIN paths
            THEN [ok |-> TRUE, state |-> added, activated |-> new \ s.refs[name]]
            ELSE [ok |-> FALSE, state |-> added, activated |-> {}]
  BY DEF ActivateReferences
<1> HIDE DEF before, new, paths, e
<1>9. ActivateReferences(s, name, paths).state = [s EXCEPT !.refs[name] = @ \cup new]
  BY <1>4, <1>6, <1>8, SMTT(60), Zenon
<1>10. [s EXCEPT !.refs[name] = @ \cup {path}] = WithRefs(s, name, {path})
  <2> DEFINE one == {path}
  <2>1. one \in SUBSET SkillPaths
    BY <1>1
  <2> HIDE DEF one
  <2>2. [s EXCEPT !.refs[name] = @ \cup one] = WithRefs(s, name, one)
    BY <2>1, WithRefsActive
  <2> QED
    BY <2>2 DEF one
<1> QED
  BY <1>2, <1>3, <1>7, <1>9, <1>10, SMTT(60), Zenon DEF e

(* g holds what replaySkillEvents has rebuilt after each event. *)
SkillRounds(g, events) ==
    /\ g[0] = NewActivationState
    /\ \A n \in 1..Len(events) : g[n] = ReplaySkillStep(g[n - 1], events[n])

LEMMA SkillReplayIs ==
    ASSUME NEW events \in Seq(Entries)
    PROVE  \E g : /\ SkillRounds(g, events) /\ replaySkillEvents(events) = g[Len(events)]
                  /\ \A n \in 0..Len(events) : g[n] \in ActiveStates
<1> DEFINE N == Len(events)
           V == ActiveStates
           init == NewActivationState
           step == [x \in V \X (1..N) |-> ReplaySkillStep(x[1], events[x[2]])]
           Loop(f) == f = [n \in 0..N |-> IF n = 0 THEN init ELSE ReplaySkillStep(f[n - 1], events[n])]
           f == CHOOSE f : Loop(f)
<1>1. N \in Nat /\ \A n \in 1..N : events[n] \in Entries
  OBVIOUS
<1>2. init \in V
  BY NewStateActive
<1>3. \A r \in V, n \in 1..N : ReplaySkillStep(r, events[n]) \in V
  BY <1>1, SkillStepIs
<1> HIDE DEF V, init
<1>4. step \in [V \X (1..N) -> V] /\ \A r \in V, n \in 1..N : step[<< r, n >>] = ReplaySkillStep(r, events[n])
  BY <1>3
<1> HIDE DEF step
<1>5. IsLoop(V, N, init, step)
  BY <1>1, <1>2, <1>4, SMTT(60), Zenon DEF IsLoop
<1>6. PICK h : Runs(h, V, N, init, step)
  BY <1>5, LoopExists
<1>7. /\ h \in [0..N -> V] /\ h[0] = init
      /\ \A n \in 1..N : h[n] = step[<<h[n - 1], n>>]
  BY <1>6 DEF Runs
<1>8. \A n \in 0..N : h[n] = IF n = 0 THEN init ELSE ReplaySkillStep(h[n - 1], events[n])
  <2> SUFFICES ASSUME NEW n \in 0..N, n # 0
               PROVE  h[n] = ReplaySkillStep(h[n - 1], events[n])
    BY <1>7
  <2>1. n \in 1..N /\ n - 1 \in 0..N
    BY <1>1
  <2> QED
    BY <1>4, <1>7, <2>1, Zenon
<1>9. Loop(h)
  <2>1. h = [n \in 0..N |-> h[n]]
    BY <1>7
  <2> QED
    BY <1>8, <2>1, SMTT(60), Zenon
<1>10. Loop(f)
  <2> HIDE DEF Loop
  <2> QED
    BY <1>9
<1>11. replaySkillEvents(events) = f[N]
  BY DEF replaySkillEvents, init
<1> HIDE DEF f
<1>12. f[0] = init /\ \A n \in 1..N : f[n] = ReplaySkillStep(f[n - 1], events[n])
  <2>1. 0 \in 0..N /\ \A n \in 1..N : n \in 0..N /\ n # 0
    BY <1>1
  <2> QED
    BY <1>10, <2>1
<1>13. \A n \in 0..N : f[n] \in V
  <2> DEFINE T == {n \in 0..N : f[n] \in V}
  <2>1. 0 \in T
    BY <1>1, <1>2, <1>12, SMTT(60), Zenon
  <2>2. ASSUME NEW n \in 1..N, n - 1 \in T
        PROVE  n \in T
    BY <1>1, <1>3, <1>12, <2>2, SMTT(60), Zenon
  <2>3. \A n \in 0..N : n \in T
    <3> HIDE DEF T, N
    <3> QED
      BY <1>1, <2>1, <2>2, BoundedInduction, Zenon
  <2> QED
    BY <2>3
<1> QED
  BY <1>11, <1>12, <1>13, SMTT(60), Zenon DEF SkillRounds, init, V

LEMMA SkillReplayPasses ==
    ASSUME NEW events \in Seq(Entries), NEW longer \in Seq(Entries), Extends(longer, events),
           NEW g, SkillRounds(g, longer)
    PROVE  g[Len(events)] = replaySkillEvents(events)
<1> DEFINE N == Len(events)
<1>1. N \in Nat /\ Len(longer) \in Nat /\ N <= Len(longer)
  BY DEF Extends
<1>2. PICK f : SkillRounds(f, events) /\ replaySkillEvents(events) = f[N]
  BY SkillReplayIs
<1> DEFINE T == {n \in 0..N : g[n] = f[n]}
<1>3. 0 \in T
  BY <1>1, <1>2, SMTT(60), Zenon DEF SkillRounds
<1>4. ASSUME NEW n \in 1..N, n - 1 \in T
      PROVE  n \in T
  <2>1. n \in 0..N /\ n \in 1..Len(longer) /\ g[n - 1] = f[n - 1] /\ longer[n] = events[n]
    BY <1>1, <1>4, SMTT(60), Zenon DEF Extends
  <2>2. f[n] = ReplaySkillStep(f[n - 1], events[n]) /\ g[n] = ReplaySkillStep(g[n - 1], longer[n])
    BY <1>2, <2>1 DEF SkillRounds
  <2> QED
    BY <2>1, <2>2, SMTT(60), Zenon
<1>5. \A n \in 0..N : n \in T
  <2> HIDE DEF T, N
  <2> QED
    BY <1>1, <1>3, <1>4, BoundedInduction, Zenon
<1> QED
  BY <1>1, <1>2, <1>5, SMTT(60), Zenon

(* Events of plans and usage do not concern the skills. *)
LEMMA SkillReplayUnconcerned ==
    ASSUME NEW events \in Seq(Entries), NEW es \in Seq(Entries),
           \A k \in DOMAIN es : es[k].kind \notin {"skill", "reference"}
    PROVE  replaySkillEvents(events \o es) = replaySkillEvents(events)
<1> DEFINE N == Len(events)
           M == Len(es)
           all == events \o es
<1>1. /\ all \in Seq(Entries) /\ N \in Nat /\ M \in Nat /\ Len(all) = N + M /\ DOMAIN es = 1..M
      /\ \A n \in 1..M : all[N + n] = es[n]
      /\ Extends(all, events)
  BY MoreEvents
<1>2. PICK g : /\ SkillRounds(g, all) /\ replaySkillEvents(all) = g[Len(all)]
               /\ \A n \in 0..Len(all) : g[n] \in ActiveStates
  BY <1>1, SkillReplayIs, Zenon
<1>3. g[N] = replaySkillEvents(events)
  BY <1>1, <1>2, SkillReplayPasses, Zenon
<1> HIDE DEF all, N, M
<1> DEFINE T == {n \in 0..M : g[N + n] = g[N]}
<1>4. 0 \in T
  BY <1>1
<1>5. ASSUME NEW n \in 1..M, n - 1 \in T
      PROVE  n \in T
  <2>1. /\ n \in 0..M /\ N + n \in 1..Len(all) /\ (N + n) - 1 = N + (n - 1) /\ N + (n - 1) \in 0..Len(all)
        /\ g[N + (n - 1)] = g[N] /\ all[N + n] = es[n] /\ es[n] \in Entries
    BY <1>1, <1>5, SMTT(60), Zenon DEF M
  <2>2. g[N + n] = ReplaySkillStep(g[N + (n - 1)], es[n])
    BY <1>2, <2>1 DEF SkillRounds
  <2>3. g[N + (n - 1)] \in ActiveStates /\ es[n].kind \notin {"skill", "reference"}
    BY <1>1, <1>2, <2>1, Zenon
  <2> QED
    BY <2>1, <2>2, <2>3, SkillStepIs, SMTT(60), Zenon
<1>6. \A n \in 0..M : n \in T
  <2> HIDE DEF T
  <2> QED
    BY <1>1, <1>4, <1>5, BoundedInduction, SMTT(60), Zenon
<1>7. g[N + M] = g[N]
  <2>1. M \in 0..M
    BY <1>1
  <2>2. M \in T
    BY <1>6, <2>1, SMTT(60), Zenon
  <2> QED
    BY <2>2
<1> QED
  BY <1>1, <1>2, <1>3, <1>7, SMTT(60), Zenon DEF all

(* The replay of a skill event. *)
LEMMA SkillReplayOne ==
    ASSUME NEW events \in Seq(Entries), NEW name \in SkillNames
    PROVE  LET e == [kind |-> "skill", name |-> name] IN
           /\ e \in Entries
           /\ replaySkillEvents(Append(events, e)) = ActivateSkill(replaySkillEvents(events), name).state
<1> DEFINE N == Len(events)
           e == [kind |-> "skill", name |-> name]
           all == Append(events, e)
<1>1. e \in Entries /\ e.kind = "skill" /\ e.name = name
  BY DEF Entries, SkillEntries
<1> HIDE DEF e
<1>2. /\ all \in Seq(Entries) /\ N \in Nat /\ Len(all) = N + 1 /\ all[N + 1] = e
      /\ \A n \in 1..N : all[n] = events[n]
  BY <1>1
<1> HIDE DEF all
<1>3. Extends(all, events)
  BY <1>2 DEF Extends
<1>4. PICK g : /\ SkillRounds(g, all) /\ replaySkillEvents(all) = g[Len(all)]
               /\ \A n \in 0..Len(all) : g[n] \in ActiveStates
  BY <1>2, SkillReplayIs, SMTT(60), Zenon
<1>5. g[N] = replaySkillEvents(events) /\ g[N] \in ActiveStates
  BY <1>2, <1>3, <1>4, SkillReplayPasses, SMTT(60), Zenon
<1>6. g[N + 1] = ReplaySkillStep(g[N], e)
  <2>1. N + 1 \in 1..Len(all) /\ (N + 1) - 1 = N
    BY <1>2
  <2> QED
    BY <1>2, <1>4, <2>1, SMTT(60), Zenon DEF SkillRounds
<1>7. ReplaySkillStep(g[N], e) = ActivateSkill(g[N], name).state
  BY <1>1, <1>5, SkillStepIs, SMTT(60), Zenon
<1> QED
  BY <1>1, <1>2, <1>4, <1>5, <1>6, <1>7, SMTT(60), Zenon DEF all, e

(* The events of activated references. *)
Listed(order, M, name) == M \in Nat /\ order \in [1..M -> Repo[name] \ Invalid]

LEMMA ReferenceEventsTyped ==
    ASSUME NEW name \in SkillNames, NEW M, NEW order, Listed(order, M, name), NEW n \in 0..M
    PROVE  LET es == ReferenceEvents(name, order, n) IN
           /\ es \in Seq(Entries) /\ Len(es) = n
           /\ \A k \in 1..n : es[k] = [kind |-> "reference", name |-> name, path |-> order[k]]
<1> DEFINE es == [k \in 1..n |-> [kind |-> "reference", name |-> name, path |-> order[k]]]
<1>1. n \in Nat /\ \A k \in 1..n : k \in 1..M
  BY DEF Listed
<1>2. \A k \in 1..n : order[k] \in SkillPaths
  BY <1>1 DEF SkillPaths, Listed
<1>3. \A k \in 1..n : /\ es[k] = [kind |-> "reference", name |-> name, path |-> order[k]]
                      /\ es[k].kind = "reference"
  OBVIOUS
<1>4. \A k \in 1..n : [kind |-> "reference", name |-> name, path |-> order[k]] \in Entries
  BY <1>2 DEF Entries, SkillEntries
<1>5. es \in [1..n -> Entries] /\ DOMAIN es = 1..n
  BY <1>3, <1>4, SMTT(60), Zenon
<1>6. es = ReferenceEvents(name, order, n)
  BY DEF ReferenceEvents
<1> HIDE DEF es
<1>7. es \in Seq(Entries) /\ Len(es) = n
  BY <1>1, <1>5, SMTT(60), Zenon
<1> QED
  BY <1>3, <1>5, <1>6, <1>7, SMTT(60), Zenon

(* The replay of the references an activation recorded. *)
LEMMA SkillReplayReferences ==
    ASSUME NEW events \in Seq(Entries), NEW name \in SkillNames, IsActive(replaySkillEvents(events), name),
           NEW paths \in SUBSET (Repo[name] \ Invalid), NEW M \in Nat,
           NEW order \in [1..M -> paths], \A p \in paths : \E i \in 1..M : order[i] = p
    PROVE  replaySkillEvents(events \o ReferenceEvents(name, order, M)) =
             WithRefs(replaySkillEvents(events), name, paths)
<1> DEFINE N == Len(events)
           es == ReferenceEvents(name, order, M)
           all == events \o es
           s == replaySkillEvents(events)
           Set(n) == {order[k] : k \in 1..n}
<1>1. /\ es \in Seq(Entries) /\ Len(es) = M
      /\ \A k \in 1..M : es[k] = [kind |-> "reference", name |-> name, path |-> order[k]]
  <2>1. Listed(order, M, name)
    BY DEF Listed
  <2>2. M \in 0..M
    OBVIOUS
  <2> QED
    BY <2>1, <2>2, ReferenceEventsTyped, SMTT(60), Zenon
<1> HIDE DEF es
<1>2. /\ all \in Seq(Entries) /\ N \in Nat /\ Len(all) = N + M
      /\ \A n \in 1..M : all[N + n] = es[n]
      /\ Extends(all, events)
  <2>1. /\ events \o es \in Seq(Entries) /\ Len(events) \in Nat
        /\ Len(events \o es) = Len(events) + Len(es)
        /\ \A n \in 1..Len(es) : (events \o es)[Len(events) + n] = es[n]
        /\ Extends(events \o es, events)
    BY <1>1, MoreEvents, Zenon
  <2> QED
    BY <1>1, <2>1
<1> HIDE DEF all
<1>3. PICK g : /\ SkillRounds(g, all) /\ replaySkillEvents(all) = g[Len(all)]
               /\ \A n \in 0..Len(all) : g[n] \in ActiveStates
  BY <1>2, SkillReplayIs, Zenon
<1>4. g[N] = s
  BY <1>2, <1>3, SkillReplayPasses, SMTT(60), Zenon
<1>5. s \in ActiveStates
  BY <1>2, <1>3, <1>4, SMTT(60), Zenon
<1> HIDE DEF N, s
<1>6. \A n \in 0..M : Set(n) \in SUBSET SkillPaths
  BY DEF SkillPaths
<1>7. \A n \in 1..M : Set(n) = Set(n - 1) \cup {order[n]}
  <2> SUFFICES ASSUME NEW n \in 1..M
               PROVE  Set(n) = Set(n - 1) \cup {order[n]}
    OBVIOUS
  <2>1. 1..n = 1..(n - 1) \cup {n}
    OBVIOUS
  <2> QED
    BY <2>1
<1>8. Set(0) = {}
  OBVIOUS
<1>9. Set(M) = paths
  OBVIOUS
<1> HIDE DEF Set
<1> DEFINE T == {n \in 0..M : g[N + n] = WithRefs(s, name, Set(n))}
<1>10. 0 \in T
  <2>1. 0 \in 0..M /\ N + 0 = N
    BY <1>2
  <2>2. WithRefs(s, name, Set(0)) = s
    BY <1>5, <1>6, <1>8, <2>1, WithRefsActive, SMTT(60), Zenon DEF s
  <2> QED
    BY <1>4, <2>1, <2>2, SMTT(60), Zenon
<1>11. ASSUME NEW n \in 1..M, n - 1 \in T
       PROVE  n \in T
  <2> DEFINE t == WithRefs(s, name, Set(n - 1))
             e == [kind |-> "reference", name |-> name, path |-> order[n]]
             one == {order[n]}
  <2>1. /\ n \in 0..M /\ n - 1 \in 0..M /\ N + n \in 1..Len(all) /\ (N + n) - 1 = N + (n - 1)
        /\ N + (n - 1) \in 0..Len(all) /\ g[N + (n - 1)] = t
        /\ all[N + n] = e /\ order[n] \in Repo[name] \ Invalid
    BY <1>1, <1>2, <1>11, SMTT(60), Zenon
  <2>2. /\ t \in ActiveStates /\ IsActive(t, name)
        /\ \A more : WithRefs(t, name, more) = WithRefs(s, name, Set(n - 1) \cup more)
    BY <1>5, <1>6, <2>1, WithRefsActive, SMTT(60), Zenon DEF s
  <2>3. g[N + n] = ReplaySkillStep(g[N + (n - 1)], e)
    BY <1>3, <2>1, SMTT(60), Zenon DEF SkillRounds
  <2> HIDE DEF t
  <2>4. ReplaySkillStep(t, e) = WithRefs(t, name, one)
    BY <2>1, <2>2, ReferenceStepIs, SMTT(60), Zenon
  <2>5. WithRefs(t, name, one) = WithRefs(s, name, Set(n - 1) \cup one)
    BY <2>2, SMTT(60), Zenon
  <2>6. Set(n) = Set(n - 1) \cup one
    BY <1>7, SMTT(60), Zenon
  <2>7. g[N + n] = WithRefs(s, name, Set(n))
    BY <2>1, <2>3, <2>4, <2>5, <2>6, SMTT(60), Zenon
  <2> QED
    BY <2>1, <2>7, SMTT(60), Zenon
<1>12. \A n \in 0..M : n \in T
  <2> HIDE DEF T
  <2> QED
    BY <1>10, <1>11, BoundedInduction, Zenon
<1>13. g[N + M] = WithRefs(s, name, Set(M))
  <2>1. M \in 0..M
    OBVIOUS
  <2>2. M \in T
    BY <1>12, <2>1, SMTT(60), Zenon
  <2> QED
    BY <2>2, SMTT(60), Zenon
<1> QED
  BY <1>2, <1>3, <1>9, <1>13, SMTT(60), Zenon DEF all, es, s

-----------------------------------------------------------------------------
(* The usage records *)

Used(events) == {i \in DOMAIN events : events[i].kind = "usage"}

LEMMA UsedIs ==
    ASSUME NEW events \in Seq(Entries)
    PROVE  IsFiniteSet(Used(events)) /\ replayUsageEvents(events) = Cardinality(Used(events))
           /\ replayUsageEvents(events) \in Nat
<1>1. DOMAIN events = 1..Len(events) /\ Len(events) \in Nat
  OBVIOUS
<1>2. IsFiniteSet(1..Len(events))
  BY <1>1, FS_Interval, SMTT(60), Zenon
<1>3. IsFiniteSet(Used(events))
  BY <1>1, <1>2, FS_Subset, SMTT(60), Zenon DEF Used
<1>4. replayUsageEvents(events) = Cardinality(Used(events))
  BY DEF replayUsageEvents, Used
<1> QED
  BY <1>3, <1>4, FS_CardinalityType, SMTT(60), Zenon

LEMMA UsageUnconcerned ==
    ASSUME NEW events \in Seq(Entries), NEW es \in Seq(Entries), \A k \in DOMAIN es : es[k].kind # "usage"
    PROVE  replayUsageEvents(events \o es) = replayUsageEvents(events)
<1> DEFINE N == Len(events)
           M == Len(es)
           all == events \o es
<1>1. /\ all \in Seq(Entries) /\ N \in Nat /\ M \in Nat /\ DOMAIN es = 1..M /\ DOMAIN events = 1..N
      /\ DOMAIN all = 1..(N + M)
      /\ \A n \in 1..N : all[n] = events[n]
      /\ \A n \in 1..M : all[N + n] = es[n]
  BY MoreEvents
<1> HIDE DEF all, N, M
<1>2. ASSUME NEW n \in 1..(N + M), n \notin 1..N
      PROVE  all[n].kind # "usage"
  <2>1. n - N \in 1..M /\ N + (n - N) = n
    BY <1>1, <1>2, SMTT(60), Zenon
  <2> QED
    BY <1>1, <2>1, Zenon
<1>3. 1..N \subseteq 1..(N + M)
  BY <1>1
<1>4. Used(all) = Used(events)
  BY <1>1, <1>2, <1>3, SMTT(60), Zenon DEF Used
<1> QED
  BY <1>1, <1>4, UsedIs, Zenon DEF all

LEMMA UsageOne ==
    ASSUME NEW events \in Seq(Entries)
    PROVE  LET e == [kind |-> "usage"] IN
           e \in Entries /\ replayUsageEvents(Append(events, e)) = replayUsageEvents(events) + 1
<1> DEFINE N == Len(events)
           e == [kind |-> "usage"]
           all == Append(events, e)
<1>1. e \in Entries /\ e.kind = "usage"
  BY DEF Entries, UsageEntries
<1> HIDE DEF e
<1>2. /\ all \in Seq(Entries) /\ N \in Nat /\ DOMAIN all = 1..(N + 1) /\ DOMAIN events = 1..N
      /\ all[N + 1] = e /\ \A n \in 1..N : all[n] = events[n]
  BY <1>1
<1> HIDE DEF all, N
<1>3. Used(all) = Used(events) \cup {N + 1} /\ N + 1 \notin Used(events)
  <2>1. 1..(N + 1) = 1..N \cup {N + 1} /\ N + 1 \notin 1..N
    BY <1>2
  <2> QED
    BY <1>1, <1>2, <2>1, SMTT(60), Zenon DEF Used
<1>4. Cardinality(Used(all)) = Cardinality(Used(events)) + 1
  BY <1>3, UsedIs, FS_AddElement, Zenon
<1> QED
  BY <1>1, <1>2, <1>4, UsedIs, Zenon DEF all, e

-----------------------------------------------------------------------------
(* The inductive invariant: the skills and the usage *)

SkillsInv ==
    /\ skills \in ActiveStates
    /\ "skills" \notin drift => replaySkillEvents(log) = skills /\ system = Materialize(skills)
    /\ "skills" \in drift => skills # NewActivationState

UsageInv ==
    /\ tracker \in Nat
    /\ "usage" \notin drift => replayUsageEvents(log) = tracker

(* What a handle keeps of failed appends: an activation or a record that was *)
(* not written has put its part out of step when it failed.                  *)
Keepable(d) == {e \in Entries : /\ e.kind \in {"skill", "reference"} => "skills" \in d
                                /\ e.kind = "usage" => "usage" \in d}
KeptInv == unwritten \in Seq(Keepable(drift))

(* One more event at the end of a log. *)
LEMMA OneMore ==
    ASSUME NEW events \in Seq(Entries), NEW e \in Entries
    PROVE  LET all == Append(events, e) IN
           /\ all \in Seq(Entries) /\ Extends(all, events)
           /\ e.kind \notin {"attached", "dispatched"} => Replay(all) = Replay(events)
           /\ e.kind \notin {"skill", "reference"} => replaySkillEvents(all) = replaySkillEvents(events)
           /\ e.kind # "usage" => replayUsageEvents(all) = replayUsageEvents(events)
<1> DEFINE es == <<e>>
<1>1. Append(events, e) = events \o es
  OBVIOUS
<1>2. es \in Seq(Entries) /\ \A k \in DOMAIN es : es[k] = e
  OBVIOUS
<1> HIDE DEF es
<1>3. events \o es \in Seq(Entries) /\ Extends(events \o es, events)
  BY <1>2, MoreEvents, SMTT(60), Zenon
<1>4. e.kind \notin {"attached", "dispatched"} => Replay(events \o es) = Replay(events)
  BY <1>2, ReplayUnconcerned, SMTT(60), Zenon
<1>5. e.kind \notin {"skill", "reference"} => replaySkillEvents(events \o es) = replaySkillEvents(events)
  BY <1>2, SkillReplayUnconcerned, SMTT(60), Zenon
<1>6. e.kind # "usage" => replayUsageEvents(events \o es) = replayUsageEvents(events)
  BY <1>2, UsageUnconcerned, SMTT(60), Zenon
<1> QED
  BY <1>1, <1>3, <1>4, <1>5, <1>6, SMTT(60), Zenon

LEMMA SkillsUnconcerned ==
    ASSUME SkillsInv, "skills" \notin drift => replaySkillEvents(log') = replaySkillEvents(log),
           skills' = skills, system' = system, "skills" \in drift' <=> "skills" \in drift
    PROVE  SkillsInv'
BY Zenon, SMTT(60) DEF SkillsInv

LEMMA UsageKept ==
    ASSUME UsageInv, "usage" \notin drift => replayUsageEvents(log') = replayUsageEvents(log),
           tracker' = tracker, "usage" \in drift' <=> "usage" \in drift
    PROVE  UsageInv'
BY Zenon, SMTT(60) DEF UsageInv

LEMMA KeepMore ==
    ASSUME NEW d, NEW e, d \subseteq e
    PROVE  /\ Keepable(d) \subseteq Keepable(e) /\ Keepable(d) \subseteq Entries
           /\ << >> \in Seq(Keepable(d))
           /\ \A s \in Seq(Keepable(d)) : s \in Seq(Keepable(e)) /\ s \in Seq(Entries)
<1>1. Keepable(d) \subseteq Keepable(e) /\ Keepable(d) \subseteq Entries
  BY SMTT(60), Zenon DEF Keepable
<1>2. << >> \in Seq(Keepable(d))
  BY SMTT(60), Zenon
<1>3. \A A, B : A \subseteq B => \A s \in Seq(A) : s \in Seq(B)
  BY SMTT(60), Zenon
<1> QED
  BY <1>1, <1>2, <1>3, Zenon

LEMMA KeptEmpty ==
    ASSUME unwritten' = << >>
    PROVE  KeptInv'
BY SMTT(60), Zenon DEF KeptInv

(* The lines of failed appends do not concern a part that is in step. *)
LEMMA KeptUnconcerned ==
    ASSUME NEW d, NEW events \in Seq(Entries), NEW es \in Seq(Keepable(d))
    PROVE  /\ "skills" \notin d => replaySkillEvents(events \o es) = replaySkillEvents(events)
           /\ "usage" \notin d => replayUsageEvents(events \o es) = replayUsageEvents(events)
<1>1. d \subseteq d
  OBVIOUS
<1>2. es \in Seq(Entries)
  BY <1>1, KeepMore, Zenon
<1>3. \A k \in DOMAIN es : es[k] \in Keepable(d)
  BY SMTT(60), Zenon
<1>4. \A k \in DOMAIN es : /\ "skills" \notin d => es[k].kind \notin {"skill", "reference"}
                           /\ "usage" \notin d => es[k].kind # "usage"
  BY <1>3, Zenon, SMTT(60) DEF Keepable
<1> QED
  BY <1>2, <1>4, SkillReplayUnconcerned, UsageUnconcerned, ZenonT(60), SMTT(60)

AgentInv == PlansInv /\ SkillsInv /\ UsageInv /\ KeptInv

LEMMA SkillReplayNothing == replaySkillEvents(<< >>) = NewActivationState
<1>1. << >> \in Seq(Entries) /\ Len(<< >>) = 0
  OBVIOUS
<1>2. PICK g : SkillRounds(g, << >>) /\ replaySkillEvents(<< >>) = g[Len(<< >>)]
  BY <1>1, SkillReplayIs, Zenon
<1> QED
  BY <1>1, <1>2, SMTT(60), Zenon DEF SkillRounds

LEMMA UsageReplayNothing == replayUsageEvents(<< >>) = 0
<1>1. {i \in DOMAIN << >> : << >>[i].kind = "usage"} = {}
  OBVIOUS
<1> QED
  BY <1>1, FS_EmptySet, SMTT(60), Zenon DEF replayUsageEvents

LEMMA AgentInit == Init => AgentInv
<1> SUFFICES ASSUME Init PROVE AgentInv
  OBVIOUS
<1>1. /\ log = << >> /\ unwritten = << >> /\ skills = NewActivationState /\ drift = {} /\ tracker = 0
      /\ system = Materialize(NewActivationState)
  BY DEF Init, refreshMaterializedSystem
<1>2. SkillsInv
  BY <1>1, SkillReplayNothing, NewStateActive, SMTT(60), Zenon DEF SkillsInv
<1>3. UsageInv
  BY <1>1, UsageReplayNothing, SMTT(60), Zenon DEF UsageInv
<1>4. KeptInv
  BY <1>1, SMTT(60), Zenon DEF KeptInv
<1> QED
  BY <1>2, <1>3, <1>4, PlansInit, Zenon DEF AgentInv

(* What a failed append does to the parts. *)
LEMMA AgentFails ==
    ASSUME AgentInv, NEW changed \in SUBSET {"skills", "usage"},
           NEW done \in Seq(Keepable(drift \cup changed)), NEW events \in Seq(Keepable(drift \cup changed)),
           AppendFails(done, events, changed), plans' = plans, CallsStay
    PROVE  /\ PlansInv' /\ KeptInv'
           /\ "skills" \in drift' <=> "skills" \in drift \/ "skills" \in changed
           /\ "usage" \in drift' <=> "usage" \in drift \/ "usage" \in changed
           /\ "skills" \notin drift' => replaySkillEvents(log') = replaySkillEvents(log)
           /\ "usage" \notin drift' => replayUsageEvents(log') = replayUsageEvents(log)
<1> DEFINE d == drift \cup changed
           S == Keepable(d)
<1>1. PlansInv /\ log \in Seq(Entries) /\ unwritten \in Seq(Keepable(drift))
  BY Zenon DEF AgentInv, PlansInv, PlansTyped, KeptInv
<1>2. drift \subseteq d /\ d \subseteq d
  BY SMTT(60), Zenon
<1> HIDE DEF d
<1>3. unwritten \in Seq(S)
  BY <1>1, <1>2, KeepMore, Zenon
<1>4. done \in Seq(S) /\ events \in Seq(S)
  BY Zenon DEF d
<1> HIDE DEF S
<1>5. PICK more \in Seq(S) : /\ log' = log \o more /\ unwritten' \in Seq(S)
                             /\ drift' = drift \cup Unapplied(more) \cup changed
  BY <1>3, <1>4, FailedAppend, Zenon
<1>6. more \in Seq(Entries) /\ unwritten' \in Seq(Entries)
  BY <1>2, <1>5, KeepMore, Zenon DEF S
<1>7. PlansInv'
  BY <1>1, <1>5, <1>6, PlansLand, Zenon
<1>8. d \subseteq drift'
  BY <1>5, SMTT(60), Zenon DEF d
<1>9. KeptInv'
  <2>1. unwritten' \in Seq(Keepable(drift'))
    BY <1>5, <1>8, KeepMore, Zenon DEF S
  <2> QED
    BY <2>1, Zenon DEF KeptInv
<1>10. /\ "skills" \in drift' <=> "skills" \in drift \/ "skills" \in changed
       /\ "usage" \in drift' <=> "usage" \in drift \/ "usage" \in changed
  <2>1. "skills" \notin Unapplied(more) /\ "usage" \notin Unapplied(more)
    BY UnappliedIs, Zenon, SMTT(60)
  <2> QED
    BY <1>5, <2>1, Zenon, SMTT(60)
<1>11. /\ "skills" \notin d => replaySkillEvents(log') = replaySkillEvents(log)
       /\ "usage" \notin d => replayUsageEvents(log') = replayUsageEvents(log)
  BY <1>1, <1>5, KeptUnconcerned, Zenon, SMTT(60) DEF S
<1>12. ("skills" \in d => "skills" \in drift') /\ ("usage" \in d => "usage" \in drift')
  BY <1>8, Zenon
<1> QED
  BY <1>7, <1>9, <1>10, <1>11, <1>12, Zenon

(* What a successful append does to them. *)
LEMMA AgentWrites ==
    ASSUME AgentInv, NEW changed \in SUBSET {"plans", "overtaken"}, NEW events \in Seq(Entries),
           AppendWrites(events, changed)
    PROVE  LET base == log \o unwritten IN
           /\ base \in Seq(Entries) /\ log' = base \o events /\ KeptInv'
           /\ "skills" \in drift' <=> "skills" \in drift
           /\ "usage" \in drift' <=> "usage" \in drift
           /\ "skills" \notin drift => replaySkillEvents(base) = replaySkillEvents(log)
           /\ "usage" \notin drift => replayUsageEvents(base) = replayUsageEvents(log)
<1>1. PlansTyped /\ log \in Seq(Entries) /\ unwritten \in Seq(Keepable(drift))
  BY Zenon DEF AgentInv, PlansInv, PlansTyped, KeptInv
<1>2. /\ log \o unwritten \in Seq(Entries) /\ log' = (log \o unwritten) \o events /\ unwritten' = << >>
      /\ drift' = drift \cup Unapplied(unwritten) \cup changed
  BY <1>1, KeptFirst, Zenon
<1>3. KeptInv'
  BY <1>2, KeptEmpty, Zenon
<1>4. /\ "skills" \in drift' <=> "skills" \in drift
      /\ "usage" \in drift' <=> "usage" \in drift
  <2>1. "skills" \notin Unapplied(unwritten) /\ "usage" \notin Unapplied(unwritten)
    BY UnappliedIs, Zenon, SMTT(60)
  <2>2. "skills" \notin changed /\ "usage" \notin changed
    BY SMTT(60), Zenon
  <2> QED
    BY <1>2, <2>1, <2>2, Zenon, SMTT(60)
<1>5. /\ "skills" \notin drift => replaySkillEvents(log \o unwritten) = replaySkillEvents(log)
      /\ "usage" \notin drift => replayUsageEvents(log \o unwritten) = replayUsageEvents(log)
  BY <1>1, KeptUnconcerned, Zenon
<1> QED
  BY <1>2, <1>3, <1>4, <1>5, Zenon

(* Lines that do not concern the plans, written after what was kept. *)
LEMMA PlansWritten ==
    ASSUME PlansInv, NEW events \in Seq(Entries), AppendWrites(events, {}),
           \A k \in DOMAIN events : events[k].kind \notin {"attached", "dispatched"},
           plans' = plans, CallsStay
    PROVE  PlansInv'
<1> DEFINE base == log \o unwritten
<1>1. /\ PlansTyped /\ log \in Seq(Entries) /\ plans \in [Instances -> SoundPlans \cup {Detached}]
      /\ drift \subseteq {"plans", "overtaken", "skills", "usage"}
  BY Zenon DEF PlansInv, PlansTyped
<1>2. /\ base \in Seq(Entries) /\ log' = base \o events /\ unwritten' \in Seq(Entries)
      /\ log' \in Seq(Entries) /\ Extends(log', log)
      /\ drift' = drift \cup Unapplied(unwritten) \cup {}
      /\ Unapplied(unwritten) = {} => Replay(base) = Replay(log)
  BY <1>1, KeptFirst, Zenon
<1> HIDE DEF base
<1>3. Replay(log') = Replay(base)
  BY <1>2, ReplayUnconcerned, Zenon
<1>4. CASE Unapplied(unwritten) = {}
  <2>1. drift' = drift
    BY <1>2, <1>4, SMTT(60), Zenon
  <2>2. /\ Replay(log') = Replay(log) /\ drift' \subseteq {"plans", "overtaken", "skills", "usage"}
        /\ drift' \cap {"plans", "overtaken"} = drift \cap {"plans", "overtaken"}
    BY <1>1, <1>2, <1>3, <1>4, <2>1, Zenon
  <2> QED
    BY <1>2, <2>2, PlansUnconcerned, Zenon
<1>5. CASE Unapplied(unwritten) = {"plans", "overtaken"}
  <2>1. /\ drift' \subseteq {"plans", "overtaken", "skills", "usage"}
        /\ "plans" \in drift' /\ "overtaken" \in drift'
    BY <1>1, <1>2, <1>5, SMTT(60), Zenon
  <2>2. PlansTyped'
    BY <1>1, <1>2, <2>1, Zenon, SMTT(60) DEF PlansTyped, CallsStay
  <2>3. \A c \in Callers : CallSound(call[c], log, plans)'
    BY <1>2, CallsStaySound, Zenon
  <2> QED
    BY <2>1, <2>2, <2>3, PlansLost, Zenon
<1> QED
  BY <1>4, <1>5, UnappliedIs, Zenon

(* OtherAppend *)
LEMMA AgentOther ==
    ASSUME AgentInv, OtherAppend
    PROVE  AgentInv'
<1>1. PlansInv /\ SkillsInv /\ UsageInv /\ log \in Seq(Entries) /\ unwritten \in Seq(Entries)
  BY Zenon DEF AgentInv, PlansInv, PlansTyped
<1>2. /\ plans' = plans /\ call' = call /\ skills' = skills /\ system' = system /\ tracker' = tracker
      /\ AppendWrites(<< >>, {}) \/ AppendFails(<< >>, << >>, {})
  BY Zenon DEF OtherAppend
<1>3. CallsStay
  BY <1>1, <1>2, CallsStayed, Zenon
<1>4. /\ PlansInv' /\ KeptInv'
      /\ "skills" \in drift' <=> "skills" \in drift
      /\ "usage" \in drift' <=> "usage" \in drift
      /\ "skills" \notin drift => replaySkillEvents(log') = replaySkillEvents(log)
      /\ "usage" \notin drift => replayUsageEvents(log') = replayUsageEvents(log)
  <2>1. CASE AppendWrites(<< >>, {})
    <3>1. << >> \in Seq(Entries) /\ \A k \in DOMAIN << >> : << >>[k].kind \notin {"attached", "dispatched"}
      OBVIOUS
    <3>2. {} \in SUBSET {"plans", "overtaken"}
      OBVIOUS
    <3> DEFINE base == log \o unwritten
    <3>3. /\ base \in Seq(Entries) /\ log' = base \o << >> /\ KeptInv'
          /\ "skills" \in drift' <=> "skills" \in drift
          /\ "usage" \in drift' <=> "usage" \in drift
          /\ "skills" \notin drift => replaySkillEvents(base) = replaySkillEvents(log)
          /\ "usage" \notin drift => replayUsageEvents(base) = replayUsageEvents(log)
      BY <2>1, <3>1, <3>2, AgentWrites, Zenon
    <3> HIDE DEF base
    <3>4. log' = base
      BY <3>3, SMTT(60), Zenon
    <3>5. PlansInv'
      BY <1>1, <1>2, <1>3, <2>1, <3>1, PlansWritten, Zenon
    <3> QED
      BY <3>3, <3>4, <3>5, Zenon
  <2>2. CASE AppendFails(<< >>, << >>, {})
    <3>1. {} \in SUBSET {"skills", "usage"} /\ << >> \in Seq(Keepable(drift \cup {}))
      BY SMTT(60), Zenon
    <3>2. /\ PlansInv' /\ KeptInv'
          /\ "skills" \in drift' <=> "skills" \in drift \/ "skills" \in {}
          /\ "usage" \in drift' <=> "usage" \in drift \/ "usage" \in {}
          /\ "skills" \notin drift' => replaySkillEvents(log') = replaySkillEvents(log)
          /\ "usage" \notin drift' => replayUsageEvents(log') = replayUsageEvents(log)
      BY <1>2, <1>3, <2>2, <3>1, AgentFails, Zenon
    <3> QED
      BY <3>2, Zenon, SMTT(60)
  <2> QED
    BY <1>2, <2>1, <2>2, Zenon
<1> QED
  BY <1>1, <1>2, <1>4, SkillsUnconcerned, UsageKept, Zenon DEF AgentInv

(* Lines of plans, written or failed, leave skills and usage alone. *)
LEMMA AgentPlanLines ==
    ASSUME AgentInv, NEW changed \in SUBSET {"plans", "overtaken"}, NEW es \in Seq(Entries),
           \A k \in DOMAIN es : es[k].kind \in {"attached", "dispatched"},
           AppendWrites(es, changed) \/ (AppendFails(<< >>, es, {}) /\ plans' = plans /\ CallsStay),
           skills' = skills, system' = system, tracker' = tracker
    PROVE  SkillsInv' /\ UsageInv' /\ KeptInv'
<1>1. SkillsInv /\ UsageInv
  BY Zenon DEF AgentInv
<1>2. \A k \in DOMAIN es : es[k].kind \notin {"skill", "reference"} /\ es[k].kind # "usage"
  BY SMTT(60), Zenon
<1>3. CASE AppendWrites(es, changed)
  <2> DEFINE base == log \o unwritten
  <2>1. /\ base \in Seq(Entries) /\ log' = base \o es /\ KeptInv'
        /\ "skills" \in drift' <=> "skills" \in drift
        /\ "usage" \in drift' <=> "usage" \in drift
        /\ "skills" \notin drift => replaySkillEvents(base) = replaySkillEvents(log)
        /\ "usage" \notin drift => replayUsageEvents(base) = replayUsageEvents(log)
    BY <1>3, AgentWrites, Zenon
  <2> HIDE DEF base
  <2>2. replaySkillEvents(log') = replaySkillEvents(base) /\ replayUsageEvents(log') = replayUsageEvents(base)
    BY <1>2, <2>1, SkillReplayUnconcerned, UsageUnconcerned, Zenon
  <2> QED
    BY <1>1, <2>1, <2>2, SkillsUnconcerned, UsageKept, Zenon
<1>4. CASE AppendFails(<< >>, es, {}) /\ plans' = plans /\ CallsStay
  <2> DEFINE d == drift \cup {}
  <2>1. {} \in SUBSET {"skills", "usage"} /\ << >> \in Seq(Keepable(d))
    BY SMTT(60), Zenon
  <2>2. es \in Seq(Keepable(d))
    <3>1. Len(es) \in Nat /\ DOMAIN es = 1..Len(es) /\ \A k \in 1..Len(es) : es[k] \in Entries
      BY SMTT(60), Zenon
    <3>2. \A k \in 1..Len(es) : es[k] \in Keepable(d)
      BY <1>2, <3>1, Zenon, SMTT(60) DEF Keepable
    <3> HIDE DEF d
    <3> QED
      BY <3>1, <3>2, SMTT(60), Zenon
  <2>3. /\ KeptInv'
        /\ "skills" \in drift' <=> "skills" \in drift \/ "skills" \in {}
        /\ "usage" \in drift' <=> "usage" \in drift \/ "usage" \in {}
        /\ "skills" \notin drift' => replaySkillEvents(log') = replaySkillEvents(log)
        /\ "usage" \notin drift' => replayUsageEvents(log') = replayUsageEvents(log)
    BY <1>4, <2>1, <2>2, AgentFails, Zenon
  <2>4. /\ "skills" \in drift' <=> "skills" \in drift
        /\ "usage" \in drift' <=> "usage" \in drift
    BY <2>3, Zenon, SMTT(60)
  <2> QED
    BY <1>1, <2>3, <2>4, SkillsUnconcerned, UsageKept, Zenon
<1> QED
  BY <1>3, <1>4, Zenon

(* The steps of the plans. *)
LEMMA AgentPlans ==
    ASSUME AgentInv,
           \/ \E i \in Instances : EnsureCapabilities(i)
           \/ \E c \in Callers : \/ \E i \in Instances, b \in Batches : ApplyActionsDraft(c, i, b)
                                 \/ ApplyActionsAppend(c)
                                 \/ ApplyActionsApply(c)
                                 \/ ApplyActionsSet(c)
    PROVE  AgentInv'
<1>1. PlansInv /\ SkillsInv /\ UsageInv /\ KeptInv
  BY Zenon DEF AgentInv
<1>2. /\ log \in Seq(Entries) /\ call \in [Callers -> Calls \cup {Idle}]
      /\ \A c \in Callers : CallSound(call[c], log, plans)
  BY <1>1, Zenon DEF PlansInv, PlansTyped
<1>3. ASSUME NEW i \in Instances, EnsureCapabilities(i)
      PROVE  AgentInv'
  <2> DEFINE es == <<AttachEvent(i)>>
  <2>1. /\ skills' = skills /\ system' = system /\ tracker' = tracker /\ call' = call
        /\ AppendWrites(es, {}) \/ (AppendFails(<< >>, es, {}) /\ plans' = plans)
    BY <1>3, Zenon DEF EnsureCapabilities, Attach
  <2>2. es \in Seq(Entries) /\ \A k \in DOMAIN es : es[k].kind \in {"attached", "dispatched"}
    <3>1. AttachEvent(i) \in Entries /\ AttachEvent(i).kind = "attached"
      BY DEF AttachEvent, Entries, PlanEntries
    <3> QED
      BY <3>1, SMTT(60), Zenon
  <2> HIDE DEF es
  <2>3. CallsStay /\ {} \in SUBSET {"plans", "overtaken"}
    BY <1>1, <2>1, CallsStayed, Zenon
  <2>4. SkillsInv' /\ UsageInv' /\ KeptInv'
    BY <2>1, <2>2, <2>3, AgentPlanLines, Zenon
  <2>5. PlansInv'
    BY <1>1, <1>3, PlansAttach, Zenon
  <2> QED
    BY <2>4, <2>5, Zenon DEF AgentInv
<1>4. ASSUME log' = log, unwritten' = unwritten, skills' = skills, system' = system, tracker' = tracker,
             "skills" \in drift' <=> "skills" \in drift, "usage" \in drift' <=> "usage" \in drift,
             drift \subseteq drift', PlansInv'
      PROVE  AgentInv'
  <2>1. KeptInv'
    BY <1>1, <1>4, KeepMore, Zenon DEF KeptInv
  <2> QED
    BY <1>1, <1>4, <2>1, SkillsUnconcerned, UsageKept, Zenon, SMTT(60) DEF AgentInv
<1>5. ASSUME NEW c \in Callers, NEW i \in Instances, NEW b \in Batches, ApplyActionsDraft(c, i, b)
      PROVE  AgentInv'
  <2>1. /\ log' = log /\ unwritten' = unwritten /\ skills' = skills /\ system' = system /\ tracker' = tracker
        /\ drift' = drift
    BY <1>5, Zenon, SMTT(60) DEF ApplyActionsDraft
  <2>2. PlansInv'
    BY <1>1, <1>5, PlansDraft, Zenon
  <2> QED
    BY <1>4, <2>1, <2>2, Zenon, SMTT(60)
<1>6. ASSUME NEW c \in Callers, ApplyActionsAppend(c)
      PROVE  AgentInv'
  <2> DEFINE k == call[c]
             d == Dispatches(k.inst, k.events)
             changed == IF Overtaken(c) THEN {"plans", "overtaken"} ELSE {}
  <2>1. d = [j \in DOMAIN call[c].events |-> DispatchEvent(call[c].inst, call[c].events[j])]
    BY Zenon, SMTT(60) DEF Dispatches
  <2>2. /\ skills' = skills /\ system' = system /\ tracker' = tracker /\ plans' = plans /\ k.at = "drafted"
        /\ \/ AppendWrites(d, changed)
           \/ AppendFails(<< >>, d, {}) /\ call' = [call EXCEPT ![c] = Idle]
    BY <1>6, <2>1, Zenon, SMTT(60) DEF ApplyActionsAppend
  <2>3. d \in Seq(Entries) /\ \A j \in DOMAIN d : d[j].kind \in {"attached", "dispatched"}
    <3>1. k # Idle
      BY <2>2, IdleIs, SMTT(60), Zenon
    <3>2. k.inst \in Instances /\ k.events \in Seq(ValidEvents)
      BY <1>1, <3>1, CallPast, Zenon
    <3>3. d \in Seq(Entries) /\ \A j \in DOMAIN d : d[j].kind = "dispatched"
      BY <3>2, DispatchesTyped, SMTT(60), Zenon
    <3> HIDE DEF d
    <3> QED
      BY <3>3, SMTT(60), Zenon
  <2>4. changed \in SUBSET {"plans", "overtaken"}
    BY Zenon, SMTT(60)
  <2> HIDE DEF d, changed
  <2>5. call' = [call EXCEPT ![c] = Idle] => CallsStay
    <3> SUFFICES ASSUME call' = [call EXCEPT ![c] = Idle] PROVE CallsStay
      BY Zenon
    <3>1. call' \in [Callers -> Calls \cup {Idle}]
      BY <1>2, SMTT(60), Zenon
    <3>2. call'[c] = Idle /\ \A o \in Callers : o # c => call'[o] = call[o]
      BY <1>2, SMTT(60), Zenon
    <3>3. call[c].at \notin Applying
      BY <2>2, Places, Zenon
    <3> QED
      BY <3>1, <3>2, <3>3, Zenon DEF CallsStay
  <2>6. SkillsInv' /\ UsageInv' /\ KeptInv'
    BY <2>2, <2>3, <2>4, <2>5, AgentPlanLines, Zenon
  <2>7. PlansInv'
    BY <1>1, <1>6, PlansAppend, Zenon
  <2> QED
    BY <2>6, <2>7, Zenon DEF AgentInv
<1>7. ASSUME NEW c \in Callers, ApplyActionsApply(c)
      PROVE  AgentInv'
  <2>1. /\ log' = log /\ unwritten' = unwritten /\ skills' = skills /\ system' = system /\ tracker' = tracker
        /\ drift' = drift \/ drift' = drift \cup {"plans"}
    BY <1>7, Zenon DEF ApplyActionsApply
  <2>2. /\ "skills" \in drift' <=> "skills" \in drift
        /\ "usage" \in drift' <=> "usage" \in drift
        /\ drift \subseteq drift'
    BY <2>1, SMTT(60), Zenon
  <2>3. PlansInv'
    BY <1>1, <1>7, PlansApply, Zenon
  <2> QED
    BY <1>4, <2>1, <2>2, <2>3, Zenon
<1>8. ASSUME NEW c \in Callers, ApplyActionsSet(c)
      PROVE  AgentInv'
  <2>1. /\ log' = log /\ unwritten' = unwritten /\ skills' = skills /\ system' = system /\ tracker' = tracker
        /\ drift' = drift
    BY <1>8, Zenon DEF ApplyActionsSet
  <2>2. PlansInv'
    BY <1>1, <1>8, PlansSet, Zenon
  <2> QED
    BY <1>4, <2>1, <2>2, Zenon, SMTT(60)
<1> QED
  BY <1>3, <1>5, <1>6, <1>7, <1>8, Zenon

(* Lines of skills, written or failed. *)
LEMMA AgentSkillLines ==
    ASSUME AgentInv, NEW done \in Seq(Entries), NEW es \in Seq(Entries),
           \A k \in DOMAIN done : done[k].kind \in {"skill", "reference"},
           \A k \in DOMAIN es : es[k].kind \in {"skill", "reference"},
           AppendWrites(es, {}) \/ AppendFails(done, es, {"skills"}),
           plans' = plans, CallsStay, tracker' = tracker
    PROVE  PlansInv' /\ UsageInv' /\ KeptInv'
<1>1. PlansInv /\ SkillsInv /\ UsageInv
  BY Zenon DEF AgentInv
<1>2. \A k \in DOMAIN es : es[k].kind \notin {"attached", "dispatched"} /\ es[k].kind # "usage"
  BY SMTT(60), Zenon
<1>3. CASE AppendWrites(es, {})
  <2> DEFINE base == log \o unwritten
  <2>1. {} \in SUBSET {"plans", "overtaken"}
    OBVIOUS
  <2>2. /\ base \in Seq(Entries) /\ log' = base \o es /\ KeptInv'
        /\ "usage" \in drift' <=> "usage" \in drift
        /\ "usage" \notin drift => replayUsageEvents(base) = replayUsageEvents(log)
    BY <1>3, <2>1, AgentWrites, Zenon
  <2> HIDE DEF base
  <2>3. replayUsageEvents(log') = replayUsageEvents(base)
    BY <1>2, <2>2, UsageUnconcerned, Zenon
  <2>4. PlansInv'
    BY <1>1, <1>2, <1>3, PlansWritten, Zenon
  <2> QED
    BY <1>1, <2>2, <2>3, <2>4, UsageKept, Zenon
<1>4. CASE AppendFails(done, es, {"skills"})
  <2> DEFINE d == drift \cup {"skills"}
  <2>1. {"skills"} \in SUBSET {"skills", "usage"} /\ "skills" \in d
    BY SMTT(60), Zenon
  <2> HIDE DEF d
  <2>2. ASSUME NEW s \in Seq(Entries), \A k \in DOMAIN s : s[k].kind \in {"skill", "reference"}
        PROVE  s \in Seq(Keepable(d))
    <3>1. Len(s) \in Nat /\ DOMAIN s = 1..Len(s) /\ \A k \in 1..Len(s) : s[k] \in Entries
      BY SMTT(60), Zenon
    <3>2. \A k \in 1..Len(s) : s[k].kind # "usage"
      BY <2>2, <3>1, SMTT(60), Zenon
    <3>3. \A k \in 1..Len(s) : s[k] \in Keepable(d)
      BY <2>1, <3>1, <3>2, Zenon, SMTT(60) DEF Keepable
    <3> QED
      BY <3>1, <3>3, SMTT(60), Zenon
  <2>3. done \in Seq(Keepable(d)) /\ es \in Seq(Keepable(d))
    BY <2>2, Zenon
  <2>4. /\ PlansInv' /\ KeptInv'
        /\ "usage" \in drift' <=> "usage" \in drift \/ "usage" \in {"skills"}
        /\ "usage" \notin drift' => replayUsageEvents(log') = replayUsageEvents(log)
    BY <1>4, <2>1, <2>3, AgentFails, Zenon DEF d
  <2>5. "usage" \in drift' <=> "usage" \in drift
    BY <2>4, Zenon, SMTT(60)
  <2> QED
    BY <1>1, <2>4, <2>5, UsageKept, Zenon
<1> QED
  BY <1>3, <1>4, Zenon

(* A failed activation has put the skills out of step. *)
LEMMA FailedSkills ==
    ASSUME NEW done, NEW es, AppendFails(done, es, {"skills"})
    PROVE  "skills" \in drift'
<1>1. \E more : drift' = drift \cup Unapplied(more) \cup {"skills"}
  BY Zenon DEF AppendFails
<1> QED
  BY <1>1, SMTT(60), Zenon

(* Instance.ActivateSkill *)
LEMMA AgentSkill ==
    ASSUME AgentInv, NEW name \in SkillNames, InstanceActivateSkill(name)
    PROVE  AgentInv'
<1> DEFINE a == ActivateSkill(skills, name)
           e == [kind |-> "skill", name |-> name]
           es == <<e>>
           base == log \o unwritten
<1>1. PlansInv /\ SkillsInv /\ UsageInv /\ KeptInv
  BY Zenon DEF AgentInv
<1>2. log \in Seq(Entries) /\ drift \subseteq {"plans", "overtaken", "skills", "usage"}
  BY <1>1, Zenon DEF PlansInv, PlansTyped
<1>3. skills \in ActiveStates
  BY <1>1, Zenon DEF SkillsInv
<1>4. /\ a.state \in ActiveStates
      /\ IsActive(skills, name) => a.state = skills
      /\ ~IsActive(skills, name) => a.state # NewActivationState
      /\ skills # NewActivationState => a.state # NewActivationState
  BY <1>3, SkillActivated, SMTT(60), Zenon
<1>5. e \in Entries /\ e.kind = "skill"
  <2>1. e \in Entries
    BY <1>2, SkillReplayOne, Zenon
  <2> QED
    BY <2>1, SMTT(60), Zenon
<1>6. /\ plans' = plans /\ call' = call /\ tracker' = tracker /\ skills' = a.state
      /\ \/ /\ ~IsActive(skills, name) /\ AppendWrites(es, {}) /\ system' = Materialize(a.state)
         \/ /\ ~IsActive(skills, name) /\ AppendFails(<< >>, es, {"skills"})
         \/ /\ IsActive(skills, name) /\ system' = Materialize(a.state)
            /\ log' = log /\ unwritten' = unwritten /\ drift' = drift
  BY Zenon DEF InstanceActivateSkill, refreshMaterializedSystem
<1>7. CallsStay
  BY <1>1, <1>6, CallsStayed, Zenon
<1>8. /\ es \in Seq(Entries) /\ \A k \in DOMAIN es : es[k].kind \in {"skill", "reference"}
      /\ << >> \in Seq(Entries) /\ \A k \in DOMAIN << >> : << >>[k].kind \in {"skill", "reference"}
  <2> HIDE DEF e
  <2> QED
    BY <1>5, SMTT(60), Zenon
<1>9. CASE /\ ~IsActive(skills, name) /\ AppendWrites(es, {}) /\ system' = Materialize(a.state)
  <2>1. {} \in SUBSET {"plans", "overtaken"}
    OBVIOUS
  <2>2. /\ base \in Seq(Entries) /\ log' = base \o es
        /\ "skills" \in drift' <=> "skills" \in drift
        /\ "skills" \notin drift => replaySkillEvents(base) = replaySkillEvents(log)
    <3> HIDE DEF es
    <3> QED
      BY <1>8, <1>9, <2>1, AgentWrites, Zenon
  <2> HIDE DEF base
  <2>3. log' = Append(base, e)
    <3> HIDE DEF e
    <3> QED
      BY <1>5, <2>2, SMTT(60), Zenon
  <2>4. replaySkillEvents(log') = ActivateSkill(replaySkillEvents(base), name).state
    BY <2>2, <2>3, SkillReplayOne, Zenon
  <2>5. "skills" \notin drift => replaySkillEvents(log') = a.state
    BY <1>1, <2>2, <2>4, Zenon, SMTT(60) DEF SkillsInv
  <2>6. SkillsInv'
    <3> HIDE DEF a
    <3> QED
      BY <1>4, <1>6, <1>9, <2>2, <2>5, Zenon, SMTT(60) DEF SkillsInv
  <2>7. PlansInv' /\ UsageInv' /\ KeptInv'
    <3> HIDE DEF es
    <3> QED
      BY <1>6, <1>7, <1>8, <1>9, AgentSkillLines, Zenon
  <2> QED
    BY <2>6, <2>7, Zenon DEF AgentInv
<1>10. CASE ~IsActive(skills, name) /\ AppendFails(<< >>, es, {"skills"})
  <2> HIDE DEF es, a
  <2>1. "skills" \in drift'
    BY <1>10, FailedSkills, Zenon
  <2>2. SkillsInv'
    BY <1>4, <1>6, <1>10, <2>1, Zenon DEF SkillsInv
  <2>3. PlansInv' /\ UsageInv' /\ KeptInv'
    BY <1>6, <1>7, <1>8, <1>10, AgentSkillLines, Zenon
  <2> QED
    BY <2>2, <2>3, Zenon DEF AgentInv
<1>11. CASE /\ IsActive(skills, name) /\ system' = Materialize(a.state)
            /\ log' = log /\ unwritten' = unwritten /\ drift' = drift
  <2> HIDE DEF a
  <2>1. SkillsInv'
    BY <1>1, <1>4, <1>6, <1>11, Zenon, SMTT(60) DEF SkillsInv
  <2>2. UsageInv' /\ KeptInv'
    BY <1>1, <1>6, <1>11, Zenon, SMTT(60) DEF UsageInv, KeptInv
  <2>3. PlansInv'
    <3>1. Extends(log', log) /\ log' \in Seq(Entries) /\ unwritten' \in Seq(Entries)
      BY <1>1, <1>2, <1>11, ExtendsItself, Zenon DEF PlansInv, PlansTyped
    <3>2. /\ Replay(log') = Replay(log) /\ drift' \subseteq {"plans", "overtaken", "skills", "usage"}
          /\ drift' \cap {"plans", "overtaken"} = drift \cap {"plans", "overtaken"}
      BY <1>2, <1>11, Zenon
    <3> QED
      BY <1>1, <1>6, <1>7, <3>1, <3>2, PlansUnconcerned, Zenon
  <2> QED
    BY <2>1, <2>2, <2>3, Zenon DEF AgentInv
<1> QED
  BY <1>6, <1>9, <1>10, <1>11, Zenon

(* The events of a list of references. *)
LEMMA ReferencesListed ==
    ASSUME NEW name \in SkillNames, NEW M \in Nat, NEW order, Listed(order, M, name), NEW n \in 0..M
    PROVE  /\ ReferenceEvents(name, order, n) \in Seq(Entries)
           /\ \A k \in DOMAIN ReferenceEvents(name, order, n) :
                ReferenceEvents(name, order, n)[k].kind \in {"skill", "reference"}
           /\ n < M => /\ <<ReferenceEvents(name, order, M)[n + 1]>> \in Seq(Entries)
                       /\ \A k \in DOMAIN <<ReferenceEvents(name, order, M)[n + 1]>> :
                            <<ReferenceEvents(name, order, M)[n + 1]>>[k].kind \in {"skill", "reference"}
<1>1. ASSUME NEW m \in 0..M
      PROVE  /\ ReferenceEvents(name, order, m) \in Seq(Entries) /\ Len(ReferenceEvents(name, order, m)) = m
             /\ \A k \in 1..m : ReferenceEvents(name, order, m)[k].kind = "reference"
  <2> DEFINE es == ReferenceEvents(name, order, m)
  <2>1. /\ es \in Seq(Entries) /\ Len(es) = m
        /\ \A k \in 1..m : es[k] = [kind |-> "reference", name |-> name, path |-> order[k]]
    BY ReferenceEventsTyped, SMTT(60), Zenon
  <2> HIDE DEF es
  <2>2. \A k \in 1..m : es[k].kind = "reference"
    BY <2>1, SMTT(60), Zenon
  <2> QED
    BY <2>1, <2>2, Zenon DEF es
<1>2. M \in 0..M
  BY SMTT(60), Zenon
<1>3. /\ ReferenceEvents(name, order, n) \in Seq(Entries)
      /\ \A k \in DOMAIN ReferenceEvents(name, order, n) :
           ReferenceEvents(name, order, n)[k].kind \in {"skill", "reference"}
  <2> DEFINE es == ReferenceEvents(name, order, n)
  <2>1. es \in Seq(Entries) /\ Len(es) = n /\ \A k \in 1..n : es[k].kind = "reference"
    BY <1>1, Zenon
  <2> HIDE DEF es
  <2>2. \A k \in DOMAIN es : es[k].kind \in {"skill", "reference"}
    BY <2>1, SMTT(60), Zenon
  <2> QED
    BY <2>1, <2>2, Zenon DEF es
<1>4. ASSUME n < M
      PROVE  /\ <<ReferenceEvents(name, order, M)[n + 1]>> \in Seq(Entries)
             /\ \A k \in DOMAIN <<ReferenceEvents(name, order, M)[n + 1]>> :
                  <<ReferenceEvents(name, order, M)[n + 1]>>[k].kind \in {"skill", "reference"}
  <2> DEFINE es == ReferenceEvents(name, order, M)
             e == es[n + 1]
  <2>1. es \in Seq(Entries) /\ Len(es) = M /\ \A k \in 1..M : es[k].kind = "reference"
    BY <1>1, <1>2, Zenon
  <2> HIDE DEF es
  <2>2. e \in Entries /\ e.kind = "reference"
    BY <1>4, <2>1, SMTT(60), Zenon
  <2> HIDE DEF e
  <2>3. <<e>> \in Seq(Entries) /\ \A k \in DOMAIN <<e>> : <<e>>[k].kind \in {"skill", "reference"}
    BY <2>2, SMTT(60), Zenon
  <2> QED
    BY <2>3, Zenon DEF e, es
<1> QED
  BY <1>3, <1>4, Zenon

(* A step that leaves the thread, the plans and the usage alone. *)
LEMMA ThreadUntouched ==
    ASSUME AgentInv, log' = log, unwritten' = unwritten, plans' = plans, CallsStay, tracker' = tracker,
           drift' = drift \/ drift' = drift \cup {"skills"}
    PROVE  PlansInv' /\ UsageInv' /\ KeptInv'
<1>1. PlansInv /\ UsageInv /\ KeptInv /\ log \in Seq(Entries) /\ unwritten \in Seq(Entries)
      /\ drift \subseteq {"plans", "overtaken", "skills", "usage"}
  BY Zenon DEF AgentInv, PlansInv, PlansTyped
<1>2. Extends(log', log) /\ Replay(log') = Replay(log) /\ log' \in Seq(Entries) /\ unwritten' \in Seq(Entries)
  BY <1>1, ExtendsItself, Zenon
<1>3. /\ drift' \subseteq {"plans", "overtaken", "skills", "usage"}
      /\ drift' \cap {"plans", "overtaken"} = drift \cap {"plans", "overtaken"}
      /\ "usage" \in drift' <=> "usage" \in drift
      /\ drift \subseteq drift'
  BY <1>1, Zenon
<1>4. PlansInv'
  BY <1>1, <1>2, <1>3, PlansUnconcerned, Zenon
<1>5. UsageInv'
  BY <1>1, <1>3, UsageKept, Zenon
<1>6. KeptInv'
  BY <1>1, <1>3, KeepMore, Zenon DEF KeptInv
<1> QED
  BY <1>4, <1>5, <1>6, Zenon

(* Instance.ActivateSkillReferences *)
LEMMA AgentReferences ==
    ASSUME AgentInv, NEW name \in SkillNames, NEW S, NEW paths \in Seq(S),
           \/ InstanceActivateSkillReferences(name, paths, system)
           \/ InstanceActivateSkillReferences(name, paths, Materialize(skills))
    PROVE  AgentInv'
<1> DEFINE a == ActivateReferences(skills, name, paths)
           new == Cardinality(a.activated)
<1>1. PlansInv /\ SkillsInv
  BY Zenon DEF AgentInv
<1>2. skills \in ActiveStates
  BY <1>1, Zenon DEF SkillsInv
<1>3. /\ a.state \in ActiveStates
      /\ a.state # skills => a.state # NewActivationState
      /\ skills # NewActivationState => a.state # NewActivationState
      /\ a.activated \subseteq Repo[name] \ Invalid
      /\ IsFiniteSet(a.activated)
      /\ a.ok => IsActive(skills, name) /\ a.state = WithRefs(skills, name, a.activated)
      /\ a.activated # {} => a.state # NewActivationState
  BY <1>2, ReferencesActivated, Zenon, SMTT(60)
<1>4. new \in Nat /\ (new # 0 => a.activated # {}) /\ (new = 0 => a.activated = {})
  BY <1>3, FS_CardinalityType, FS_EmptySet, SMTT(60), Zenon
<1>5. PICK order \in Ascending(a.activated) :
        \/ /\ ~a.ok /\ drift' = (IF skills' # skills THEN drift \cup {"skills"} ELSE drift)
           /\ system' \in {system, Materialize(skills)} /\ log' = log /\ unwritten' = unwritten
        \/ /\ a.ok /\ new = 0 /\ system' = Materialize(a.state)
           /\ log' = log /\ unwritten' = unwritten /\ drift' = drift
        \/ /\ a.ok /\ new > 0 /\ AppendWrites(ReferenceEvents(name, order, new), {})
           /\ system' = Materialize(a.state)
        \/ /\ a.ok
           /\ \E n \in 0..(new - 1) :
                AppendFails(ReferenceEvents(name, order, n), <<ReferenceEvents(name, order, new)[n + 1]>>,
                            {"skills"})
  BY Zenon DEF InstanceActivateSkillReferences, refreshMaterializedSystem
<1>6. /\ plans' = plans /\ call' = call /\ tracker' = tracker /\ skills' = a.state
  BY SMTT(60), Zenon DEF InstanceActivateSkillReferences
<1>7. CallsStay
  BY <1>1, <1>6, CallsStayed, Zenon
<1> HIDE DEF a
<1>8. /\ order \in [1..new -> a.activated]
      /\ \A p \in a.activated : \E i \in 1..new : order[i] = p
  BY <1>4, SMTT(60), Zenon DEF Ascending
<1> HIDE DEF new
<1>9. Listed(order, new, name)
  BY <1>3, <1>4, <1>8, SMTT(60), Zenon DEF Listed
<1>10. CASE /\ ~a.ok /\ drift' = (IF skills' # skills THEN drift \cup {"skills"} ELSE drift)
            /\ system' \in {system, Materialize(skills)} /\ log' = log /\ unwritten' = unwritten
  <2>1. drift' = drift \/ drift' = drift \cup {"skills"}
    BY <1>10, Zenon
  <2>2. PlansInv' /\ UsageInv' /\ KeptInv'
    BY <1>6, <1>7, <1>10, <2>1, ThreadUntouched, Zenon
  <2>3. SkillsInv'
    <3>1. CASE skills' = skills
      <4>1. drift' = drift
        BY <1>10, <3>1, SMTT(60), Zenon
      <4>2. "skills" \notin drift => system' = Materialize(skills) /\ replaySkillEvents(log) = skills
        BY <1>1, <1>10, SMTT(60), Zenon DEF SkillsInv
      <4> QED
        BY <1>1, <1>10, <3>1, <4>1, <4>2, SMTT(60), Zenon DEF SkillsInv
    <3>2. CASE skills' # skills
      <4>1. "skills" \in drift' /\ a.state # NewActivationState
        BY <1>3, <1>6, <1>10, <3>2, ZenonT(60), SMTT(60)
      <4> QED
        BY <1>3, <1>6, <4>1, SMTT(60), Zenon DEF SkillsInv
    <3> QED
      BY <3>1, <3>2, Zenon
  <2> QED
    BY <2>2, <2>3, Zenon DEF AgentInv
<1>11. CASE /\ a.ok /\ new = 0 /\ system' = Materialize(a.state)
            /\ log' = log /\ unwritten' = unwritten /\ drift' = drift
  <2>1. PlansInv' /\ UsageInv' /\ KeptInv'
    BY <1>6, <1>7, <1>11, ThreadUntouched, Zenon
  <2>2. a.state = skills
    <3>1. {} \in SUBSET SkillPaths
      OBVIOUS
    <3>2. IsActive(skills, name) /\ a.state = WithRefs(skills, name, {})
      BY <1>3, <1>4, <1>11, Zenon
    <3>3. WithRefs(skills, name, {}) = skills
      <4>1. \A ps \in SUBSET SkillPaths : ps = {} => WithRefs(skills, name, ps) = skills
        BY <1>2, <3>2, WithRefsActive, SMTT(60), ZenonT(60)
      <4> QED
        BY <3>1, <4>1, Zenon
    <3> QED
      BY <3>2, <3>3, Zenon
  <2>3. SkillsInv'
    BY <1>1, <1>6, <1>11, <2>2, Zenon, SMTT(60) DEF SkillsInv
  <2> QED
    BY <2>1, <2>3, Zenon DEF AgentInv
<1>12. CASE /\ a.ok /\ new > 0 /\ AppendWrites(ReferenceEvents(name, order, new), {})
            /\ system' = Materialize(a.state)
  <2> DEFINE es == ReferenceEvents(name, order, new)
             base == log \o unwritten
  <2>1. {} \in SUBSET {"plans", "overtaken"} /\ new \in 0..new /\ << >> \in Seq(Entries)
        /\ \A k \in DOMAIN << >> : << >>[k].kind \in {"skill", "reference"}
    BY <1>4, SMTT(60), Zenon
  <2>2. es \in Seq(Entries) /\ \A k \in DOMAIN es : es[k].kind \in {"skill", "reference"}
    BY <1>4, <1>9, <2>1, ReferencesListed, Zenon
  <2>3. /\ base \in Seq(Entries) /\ log' = base \o es
        /\ "skills" \in drift' <=> "skills" \in drift
        /\ "skills" \notin drift => replaySkillEvents(base) = replaySkillEvents(log)
    <3> HIDE DEF es
    <3> QED
      BY <1>12, <2>1, <2>2, AgentWrites, Zenon DEF es
  <2>4. PlansInv' /\ UsageInv' /\ KeptInv'
    <3> HIDE DEF es
    <3>1. AppendWrites(es, {})
      BY <1>12, Zenon DEF es
    <3> QED
      BY <1>6, <1>7, <2>1, <2>2, <3>1, AgentSkillLines, Zenon
  <2> HIDE DEF base
  <2>5. ASSUME "skills" \notin drift
        PROVE  replaySkillEvents(log') = a.state
    <3>1. replaySkillEvents(base) = skills /\ IsActive(skills, name)
      BY <1>1, <1>3, <1>12, <2>3, <2>5, SMTT(60), Zenon DEF SkillsInv
    <3>2. replaySkillEvents(base \o ReferenceEvents(name, order, new)) =
            WithRefs(replaySkillEvents(base), name, a.activated)
      <4> DEFINE act == a.activated
      <4>1. act \in SUBSET (Repo[name] \ Invalid) /\ order \in [1..new -> act]
            /\ \A p \in act : \E i \in 1..new : order[i] = p
        BY <1>3, <1>8
      <4>2. base \in Seq(Entries) /\ IsActive(replaySkillEvents(base), name)
        BY <2>3, <3>1, Zenon
      <4> HIDE DEF act, es
      <4> QED
        BY <1>4, <4>1, <4>2, SkillReplayReferences, ZenonT(60), SMTT(60) DEF act
    <3> QED
      BY <1>3, <1>12, <2>3, <3>1, <3>2, Zenon, SMTT(60)
  <2>6. SkillsInv'
    <3> HIDE DEF es
    <3> QED
      BY <1>1, <1>3, <1>6, <1>12, <2>3, <2>5, ZenonT(60), SMTT(60) DEF SkillsInv
  <2> QED
    BY <2>4, <2>6, Zenon DEF AgentInv
<1>13. ASSUME NEW n \in 0..(new - 1),
              AppendFails(ReferenceEvents(name, order, n), <<ReferenceEvents(name, order, new)[n + 1]>>, {"skills"})
       PROVE  AgentInv'
  <2> DEFINE done == ReferenceEvents(name, order, n)
             es == <<ReferenceEvents(name, order, new)[n + 1]>>
  <2>1. n \in 0..new /\ n < new /\ new # 0
    BY <1>4, <1>13, SMTT(60), Zenon
  <2>2. /\ done \in Seq(Entries) /\ \A k \in DOMAIN done : done[k].kind \in {"skill", "reference"}
        /\ es \in Seq(Entries) /\ \A k \in DOMAIN es : es[k].kind \in {"skill", "reference"}
    BY <1>4, <1>9, <2>1, ReferencesListed, Zenon
  <2>3. AppendFails(done, es, {"skills"})
    BY <1>13, Zenon
  <2> HIDE DEF done, es
  <2>4. PlansInv' /\ UsageInv' /\ KeptInv'
    BY <1>6, <1>7, <2>2, <2>3, AgentSkillLines, Zenon
  <2>5. a.state # NewActivationState /\ "skills" \in drift'
    BY <1>3, <1>4, <2>1, <2>3, FailedSkills, Zenon
  <2>6. SkillsInv'
    BY <1>3, <1>6, <2>5, SMTT(60), Zenon DEF SkillsInv
  <2> QED
    BY <2>4, <2>6, Zenon DEF AgentInv
<1> QED
  BY <1>5, <1>10, <1>11, <1>12, <1>13, Zenon

(* RecordUsage *)
LEMMA AgentUsage ==
    ASSUME AgentInv, RecordUsage
    PROVE  AgentInv'
<1> DEFINE e == [kind |-> "usage"]
           es == <<e>>
           base == log \o unwritten
<1>1. PlansInv /\ SkillsInv /\ UsageInv /\ log \in Seq(Entries)
  BY Zenon DEF AgentInv, PlansInv, PlansTyped
<1>2. tracker \in Nat /\ ("usage" \notin drift => replayUsageEvents(log) = tracker)
  BY <1>1, Zenon DEF UsageInv
<1>3. /\ plans' = plans /\ call' = call /\ skills' = skills /\ system' = system /\ tracker' = tracker + 1
      /\ AppendWrites(es, {}) \/ AppendFails(<< >>, es, {"usage"})
  BY Zenon DEF RecordUsage
<1>4. e \in Entries /\ e.kind = "usage"
  <2>1. e \in Entries
    BY <1>1, UsageOne, Zenon
  <2> QED
    BY <2>1, SMTT(60), Zenon
<1>5. tracker' \in Nat
  BY <1>2, <1>3, SMTT(60), Zenon
<1>6. CallsStay
  BY <1>1, <1>3, CallsStayed, Zenon
<1>7. es \in Seq(Entries) /\ \A k \in DOMAIN es : es[k] = e
  <2> HIDE DEF e
  <2> QED
    BY <1>4, SMTT(60), Zenon
<1>8. CASE AppendWrites(es, {})
  <2>1. {} \in SUBSET {"plans", "overtaken"}
    OBVIOUS
  <2> HIDE DEF es
  <2>2. /\ base \in Seq(Entries) /\ log' = base \o es /\ KeptInv'
        /\ "skills" \in drift' <=> "skills" \in drift
        /\ "usage" \in drift' <=> "usage" \in drift
        /\ "skills" \notin drift => replaySkillEvents(base) = replaySkillEvents(log)
        /\ "usage" \notin drift => replayUsageEvents(base) = replayUsageEvents(log)
    BY <1>7, <1>8, <2>1, AgentWrites, Zenon
  <2> HIDE DEF base
  <2>3. log' = Append(base, e)
    <3> HIDE DEF e
    <3> QED
      BY <1>4, <2>2, SMTT(60), Zenon DEF es
  <2>4. replayUsageEvents(log') = replayUsageEvents(base) + 1
    BY <2>2, <2>3, UsageOne, Zenon
  <2> HIDE DEF e
  <2>5. replaySkillEvents(log') = replaySkillEvents(base)
    <3>1. e.kind \notin {"skill", "reference"}
      BY <1>4, SMTT(60), Zenon
    <3> QED
      BY <1>4, <2>2, <2>3, <3>1, OneMore, Zenon
  <2>6. SkillsInv'
    BY <1>1, <1>3, <2>2, <2>5, SkillsUnconcerned, Zenon
  <2>7. UsageInv'
    BY <1>2, <1>3, <1>5, <2>2, <2>4, Zenon, SMTT(60) DEF UsageInv
  <2>8. PlansInv'
    <3>1. \A k \in DOMAIN es : es[k].kind \notin {"attached", "dispatched"}
      BY <1>4, <1>7, SMTT(60), Zenon
    <3> QED
      BY <1>1, <1>3, <1>6, <1>7, <1>8, <3>1, PlansWritten, Zenon
  <2> QED
    BY <2>2, <2>6, <2>7, <2>8, Zenon DEF AgentInv
<1>9. CASE AppendFails(<< >>, es, {"usage"})
  <2> DEFINE d == drift \cup {"usage"}
  <2>1. {"usage"} \in SUBSET {"skills", "usage"} /\ "usage" \in d
    BY SMTT(60), Zenon
  <2> HIDE DEF d, e
  <2>2. << >> \in Seq(Keepable(d)) /\ es \in Seq(Keepable(d))
    <3>1. e \in Keepable(d)
      BY <1>4, <2>1, SMTT(60), Zenon DEF Keepable
    <3> QED
      BY <3>1, SMTT(60), Zenon
  <2> HIDE DEF es
  <2>3. /\ PlansInv' /\ KeptInv'
        /\ "skills" \in drift' <=> "skills" \in drift \/ "skills" \in {"usage"}
        /\ "usage" \in drift' <=> "usage" \in drift \/ "usage" \in {"usage"}
        /\ "skills" \notin drift' => replaySkillEvents(log') = replaySkillEvents(log)
    BY <1>3, <1>6, <1>9, <2>1, <2>2, AgentFails, Zenon DEF d
  <2>4. /\ "skills" \in drift' <=> "skills" \in drift
        /\ "usage" \in drift'
    BY <2>3, Zenon, SMTT(60)
  <2>5. SkillsInv'
    BY <1>1, <1>3, <2>3, <2>4, SkillsUnconcerned, Zenon
  <2>6. UsageInv'
    BY <1>5, <2>4, Zenon DEF UsageInv
  <2> QED
    BY <2>3, <2>5, <2>6, Zenon DEF AgentInv
<1> QED
  BY <1>3, <1>8, <1>9, Zenon

(* Reset and Resume *)
LEMMA AgentReset ==
    ASSUME AgentInv, Reset
    PROVE  AgentInv'
<1>1. PlansInv /\ SkillsInv /\ UsageInv /\ KeptInv
  BY Zenon DEF AgentInv
<1>2. PlansInv'
  BY <1>1, PlansReset, Zenon
<1>3. skills' = skills /\ system' = system /\ tracker' = 0
  BY Zenon DEF Reset
<1>4. CASE /\ log' = << >> /\ unwritten' = << >>
           /\ drift' = IF skills = NewActivationState THEN {} ELSE {"skills"}
  <2>1. "skills" \in drift' <=> skills # NewActivationState
    BY <1>4, SMTT(60), Zenon
  <2>2. SkillsInv'
    <3>1. skills \in ActiveStates /\ ("skills" \notin drift => system = Materialize(skills))
          /\ ("skills" \in drift => skills # NewActivationState)
      BY <1>1, Zenon DEF SkillsInv
    <3> QED
      BY <1>3, <1>4, <2>1, <3>1, SkillReplayNothing, SMTT(60), Zenon DEF SkillsInv
  <2>3. UsageInv'
    BY <1>3, <1>4, UsageReplayNothing, SMTT(60), Zenon DEF UsageInv
  <2>4. KeptInv'
    BY <1>4, KeptEmpty, Zenon
  <2> QED
    BY <1>2, <2>2, <2>3, <2>4, Zenon DEF AgentInv
<1>5. CASE /\ log' = log /\ unwritten' = unwritten
           /\ drift' = IF tracker > 0 THEN drift \cup {"usage"} ELSE drift
  <2>1. ("skills" \in drift' <=> "skills" \in drift) /\ drift \subseteq drift'
    BY <1>5, SMTT(60), Zenon
  <2>2. SkillsInv'
    BY <1>1, <1>3, <1>5, <2>1, SkillsUnconcerned, Zenon, SMTT(60)
  <2>3. UsageInv'
    <3>1. CASE tracker > 0
      BY <1>3, <1>5, <3>1, SMTT(60), Zenon DEF UsageInv
    <3>2. CASE ~(tracker > 0)
      <4>1. tracker = 0
        BY <1>1, <3>2, SMTT(60), Zenon DEF UsageInv
      <4> QED
        BY <1>1, <1>3, <1>5, <3>2, <4>1, SMTT(60), Zenon DEF UsageInv
    <3> QED
      BY <3>1, <3>2, Zenon
  <2>4. KeptInv'
    BY <1>1, <1>5, <2>1, KeepMore, Zenon DEF KeptInv
  <2> QED
    BY <1>2, <2>2, <2>3, <2>4, Zenon DEF AgentInv
<1> QED
  BY <1>4, <1>5, Zenon DEF Reset

LEMMA AgentResume ==
    ASSUME AgentInv, Resume
    PROVE  AgentInv'
<1>1. PlansInv /\ SkillsInv /\ UsageInv
  BY Zenon DEF AgentInv
<1>2. PlansInv' /\ log \in Seq(Entries)
  BY <1>1, PlansResume, Zenon DEF PlansInv, PlansTyped
<1>3. KeptInv'
  <2>1. unwritten' = << >>
    BY Zenon DEF Resume
  <2> QED
    BY <2>1, KeptEmpty, Zenon
<1>4. CASE /\ skills' = replaySkillEvents(log) /\ system' = Materialize(skills')
           /\ tracker' = replayUsageEvents(log) /\ drift' = drift \cap {"overtaken"} /\ log' = log
  <2>1. replaySkillEvents(log) \in ActiveStates
    <3>1. PICK g : /\ replaySkillEvents(log) = g[Len(log)]
                   /\ \A n \in 0..Len(log) : g[n] \in ActiveStates
      BY <1>2, SkillReplayIs, SMTT(60), Zenon
    <3>2. Len(log) \in 0..Len(log)
      BY <1>2, SMTT(60), Zenon
    <3> QED
      BY <3>1, <3>2, SMTT(60), Zenon
  <2>2. "skills" \notin drift' /\ "usage" \notin drift'
    BY <1>4, SMTT(60), Zenon
  <2>3. SkillsInv'
    BY <1>4, <2>1, <2>2, Zenon, SMTT(60) DEF SkillsInv
  <2>4. UsageInv'
    BY <1>2, <1>4, <2>2, UsedIs, Zenon, SMTT(60) DEF UsageInv
  <2> QED
    BY <1>2, <1>3, <2>3, <2>4, Zenon DEF AgentInv
<1>5. CASE UNCHANGED <<log, plans, skills, system, tracker, drift>>
  BY <1>1, <1>2, <1>3, <1>5, Zenon, SMTT(60) DEF AgentInv, SkillsInv, UsageInv
<1> QED
  BY <1>4, <1>5, ZenonT(60), SMTT(60) DEF Resume, refreshMaterializedSystem

LEMMA AgentNext ==
    ASSUME AgentInv, [Next]_vars
    PROVE  AgentInv'
<1>1. CASE UNCHANGED vars
  <2>1. PlansInv /\ SkillsInv
    BY Zenon DEF AgentInv
  <2>2. /\ log' = log /\ plans' = plans /\ call' = call /\ skills' = skills /\ system' = system
        /\ tracker' = tracker /\ drift' = drift /\ unwritten' = unwritten
    BY <1>1, SMTT(60), Zenon DEF vars
  <2>3. CallsStay
    BY <2>1, <2>2, CallsStayed, Zenon
  <2>4. PlansInv' /\ UsageInv' /\ KeptInv'
    BY <2>2, <2>3, ThreadUntouched, Zenon
  <2>5. SkillsInv'
    BY <2>1, <2>2, SkillsUnconcerned, Zenon, SMTT(60)
  <2> QED
    BY <2>4, <2>5, Zenon DEF AgentInv
<1>2. ASSUME NEW n \in SkillNames, NEW p \in Paths, skillReferenceActivateCommand(n, p)
      PROVE  AgentInv'
  <2>1. InstanceActivateSkillReferences(n, <<p>>, system)
    BY <1>2, Zenon DEF skillReferenceActivateCommand
  <2>2. <<p>> \in Seq({p})
    OBVIOUS
  <2> QED
    BY <2>1, <2>2, AgentReferences, Zenon
<1>3. ASSUME NEW n \in SkillNames, NEW p \in RefCalls, skillTool(n, p)
      PROVE  AgentInv'
  <2>1. CASE InstanceActivateSkill(n)
    BY <2>1, AgentSkill, Zenon
  <2>2. CASE InstanceActivateSkillReferences(n, p, Materialize(skills))
    <3>1. p \in Seq(Nat)
      BY AgentStateAssumption, SMTT(60), Zenon
    <3> QED
      BY <2>2, <3>1, AgentReferences, Zenon
  <2> QED
    BY <1>3, <2>1, <2>2, Zenon DEF skillTool, refreshMaterializedSystem
<1>4. ASSUME NEW n \in SkillNames, skillCommand(n)
      PROVE  AgentInv'
  BY <1>4, AgentSkill, Zenon DEF skillCommand
<1>5. CASE RecordUsage
  BY <1>5, AgentUsage, Zenon
<1>6. CASE newCommand
  BY <1>6, AgentReset, Zenon DEF newCommand
<1>7. CASE Resume
  BY <1>7, AgentResume, Zenon
<1>8. CASE OtherAppend
  BY <1>8, AgentOther, Zenon
<1>9. CASE \E i \in Instances : EnsureCapabilities(i)
  BY <1>9, AgentPlans, Zenon
<1>10. CASE \E c \in Callers : \/ \E i \in Instances, b \in Batches : ApplyActionsDraft(c, i, b)
                               \/ ApplyActionsAppend(c)
                               \/ ApplyActionsApply(c)
                               \/ ApplyActionsSet(c)
  BY <1>10, AgentPlans, Zenon
<1> QED
  BY <1>1, <1>2, <1>3, <1>4, <1>5, <1>6, <1>7, <1>8, <1>9, <1>10, Zenon DEF Next

-----------------------------------------------------------------------------
(* The theorems *)

(* AgentInv is inductive. *)
LEMMA AgentInvariant == Spec => []AgentInv
<1>1. Init => AgentInv
  BY AgentInit, SMTT(60), Zenon
<1>2. AgentInv /\ [Next]_vars => AgentInv'
  BY AgentNext, SMTT(60), Zenon
<1> QED
  BY <1>1, <1>2, PTL DEF Spec

(* The keys of a sound plan's fragments are distinct. *)
LEMMA FragmentsDistinct ==
    ASSUME NEW p, SoundPlan(p)
    PROVE  LET keys == PlanFragments(p) IN \A j, k \in DOMAIN keys : keys[j] = keys[k] => j = k
<1> DEFINE N == Len(p.steps)
           ids == [i \in DOMAIN p.steps |-> p.steps[i].id]
           keys == <<NoStep>> \o ids
<1>1. /\ p.steps \in Seq(Step) /\ Distinct(p.steps) /\ p.created \in BOOLEAN
      /\ N \in Nat /\ DOMAIN p.steps = 1..N
  BY DEF SoundPlan, InOrder, Plan
<1>2. CASE ~p.created
  <2>1. PlanFragments(p) = << >>
    BY <1>2, SMTT(60), Zenon DEF PlanFragments
  <2> QED
    BY <2>1
<1>3. CASE p.created
  <2>1. PlanFragments(p) = keys
    BY <1>3, SMTT(60), Zenon DEF PlanFragments
  <2>2. \A i \in 1..N : p.steps[i].id \in StepIDs
    <3>1. \A i \in 1..N : p.steps[i] \in Step
      BY <1>1, SMTT(60), Zenon
    <3>2. \A x \in Step : x.id \in StepIDs
      BY SMTT(60), Zenon DEF Step
    <3> QED
      BY <3>1, <3>2, SMTT(60), Zenon
  <2>3. ids = [i \in 1..N |-> p.steps[i].id]
    BY <1>1, SMTT(60), Zenon
  <2>4. ids \in [1..N -> StepIDs] /\ \A i \in 1..N : ids[i] = p.steps[i].id
    BY <2>2, <2>3, SMTT(60), Zenon
  <2> HIDE DEF ids
  <2>5. ids \in Seq(StepIDs) /\ Len(ids) = N
    BY <1>1, <2>4, SMTT(60), Zenon
  <2>6. <<NoStep>> \in Seq(StepIDs \cup {NoStep}) /\ ids \in Seq(StepIDs \cup {NoStep})
    BY <2>5, SMTT(60), Zenon
  <2>7. Len(keys) = N + 1 /\ DOMAIN keys = 1..(N + 1)
    BY <1>1, <2>5, <2>6, SMTT(60), Zenon
  <2>8. keys[1] = NoStep
    BY <2>5, <2>6, SMTT(60), Zenon
  <2>9. ASSUME NEW j \in 2..(N + 1)
        PROVE  j - 1 \in 1..N /\ keys[j] = ids[j - 1] /\ keys[j] \in StepIDs
    <3>1. j - 1 \in 1..N
      BY <1>1, SMTT(60), Zenon
    <3>2. keys[j] = ids[j - 1]
      BY <1>1, <2>5, <2>6, <3>1, SMTT(60), Zenon
    <3> QED
      BY <2>4, <3>1, <3>2, SMTT(60), Zenon
  <2> HIDE DEF keys, N
  <2>10. ASSUME NEW j \in DOMAIN keys, NEW k \in DOMAIN keys, keys[j] = keys[k]
         PROVE  j = k
    <3>1. j \in 1..(N + 1) /\ k \in 1..(N + 1)
      BY <2>7, SMTT(60), Zenon
    <3>2. CASE j = 1 \/ k = 1
      <4>1. NoStep \notin StepIDs
        BY PlannerAssumption, SMTT(60), Zenon
      <4>2. \A m \in 1..(N + 1) : m # 1 => m \in 2..(N + 1)
        BY <1>1, SMTT(60), Zenon
      <4> QED
        BY <2>8, <2>9, <2>10, <3>1, <3>2, <4>1, <4>2, Zenon, SMTT(60)
    <3>3. CASE j # 1 /\ k # 1
      <4>1. j \in 2..(N + 1) /\ k \in 2..(N + 1)
        BY <1>1, <3>1, <3>3, SMTT(60), Zenon
      <4>2. /\ j - 1 \in 1..N /\ k - 1 \in 1..N
            /\ p.steps[j - 1].id = p.steps[k - 1].id
        BY <2>4, <2>9, <2>10, <4>1, Zenon, SMTT(60)
      <4>3. j - 1 = k - 1
        BY <1>1, <4>2, SMTT(60), Zenon DEF Distinct
      <4> QED
        BY <1>1, <4>1, <4>3, SMTT(60), Zenon
    <3> QED
      BY <3>2, <3>3, SMTT(60), Zenon
  <2> QED
    BY <2>1, <2>10, SMTT(60), Zenon
<1> QED
  BY <1>1, <1>2, <1>3, SMTT(60), Zenon

(* Whatever calls ran, by however many callers, and however they failed or   *)
(* were cut short: the plans are in topological order with dependencies and  *)
(* parents among their steps, their contexts render, references are active   *)
(* only for active skills, and the prompt shows what is active               *)
(* (ApplyActions, applyEventTo, ActivateReferences, replaySkillEvents).      *)
THEOREM AgentStateSound == Spec => []AgentStateIsSound
<1>1. ASSUME AgentInv PROVE AgentStateIsSound
  <2>1. /\ log \in Seq(Entries) /\ plans \in [Instances -> SoundPlans \cup {Detached}]
        /\ drift \subseteq {"plans", "overtaken", "skills", "usage"}
        /\ "overtaken" \notin drift => Currents(plans)
    BY <1>1, SMTT(60), Zenon DEF AgentInv, PlansInv, PlansTyped
  <2>2. skills \in ActiveStates /\ ("skills" \notin drift => system = Materialize(skills))
    BY <1>1, Zenon, SMTT(60) DEF AgentInv, SkillsInv
  <2>3. \A k \in DOMAIN log : log[k].kind \in {"attached", "dispatched", "skill", "reference", "usage"}
    <3>1. \A k \in DOMAIN log : log[k] \in Entries
      BY <2>1, SMTT(60), Zenon
    <3> QED
      BY <3>1, EntryKinds, SMTT(60), Zenon
  <2>4. \A i \in Instances : plans[i] = Detached \/ (plans[i] \in Plan /\ SoundPlan(plans[i]))
    BY <2>1, SMTT(60), Zenon DEF SoundPlans
  <2>5. AgentStateTypeOK
    BY <2>1, <2>2, <2>3, <2>4, Zenon, SMTT(60) DEF AgentStateTypeOK, ActiveStates
  <2>6. \A i \in Instances : plans[i] # Detached => WellFormed(plans[i])
    BY <2>4, SMTT(60), Zenon DEF SoundPlan, InOrder, DepsFirst, WellFormed
  <2>7. ContextRenders
    <3> SUFFICES ASSUME NEW i \in Instances
                 PROVE  LET keys == AttachedFragments(i)
                        IN  \A j, k \in DOMAIN keys : keys[j] = keys[k] => j = k
      BY SMTT(60), Zenon DEF ContextRenders
    <3>1. CASE plans[i] = Detached
      <4>1. AttachedFragments(i) = << >>
        BY <3>1, SMTT(60), Zenon DEF AttachedFragments
      <4> QED
        BY <4>1, SMTT(60), Zenon
    <3>2. CASE plans[i] # Detached
      <4>1. AttachedFragments(i) = PlanFragments(plans[i])
        BY <3>2, SMTT(60), Zenon DEF AttachedFragments
      <4> QED
        BY <2>4, <3>2, <4>1, FragmentsDistinct, SMTT(60), Zenon
    <3> QED
      BY <3>1, <3>2, SMTT(60), Zenon
  <2>8. PlansAreWellFormed
    BY <2>1, <2>6, <2>7, SMTT(60), Zenon DEF PlansAreWellFormed, Currents
  <2>9. PromptShowsActiveSkills
    BY <2>2, Zenon, SMTT(60) DEF PromptShowsActiveSkills, ActiveStates
  <2> QED
    BY <2>5, <2>8, <2>9, ZenonT(60), SMTT(60) DEF AgentStateIsSound
<1> QED
  BY <1>1, AgentInvariant, PTL

(* A process that opens the session while no plan call is under way accepts  *)
(* the log and rebuilds the plans, the active skills and references and the  *)
(* usage count of the process before it, except for the parts that a failed  *)
(* or overtaken call left unexplained (Manager.Replay, replaySkillEvents,    *)
(* replayUsageEvents).                                                       *)
THEOREM AgentResumeRebuilds == Spec => []ResumeRebuildsAgent
<1>1. ASSUME AgentInv PROVE ResumeRebuildsAgent
  <2> SUFFICES ASSUME Quiet
               PROVE  /\ "plans" \notin drift => Replay(log) = [ok |-> TRUE, plans |-> plans]
                      /\ "skills" \notin drift => replaySkillEvents(log) = skills
                      /\ "usage" \notin drift => replayUsageEvents(log) = tracker
    BY ZenonT(60), SMTT(60) DEF ResumeRebuildsAgent
  <2>1. /\ log \in Seq(Entries) /\ plans \in [Instances -> SoundPlans \cup {Detached}]
        /\ "plans" \notin drift => Replay(log).ok /\ InStep(call, plans, Replay(log).plans)
    BY <1>1, SMTT(60), Zenon DEF AgentInv, PlansInv, PlansTyped
  <2>2. ASSUME "plans" \notin drift
        PROVE  Replay(log) = [ok |-> TRUE, plans |-> plans]
    <3>1. \A i \in Instances : ~Busy(call, i)
      BY IdleIs, SMTT(60), Zenon DEF Busy, Quiet
    <3>2. \A i \in Instances : Replay(log).plans[i] = plans[i]
      BY <2>1, <2>2, <3>1, SMTT(60), Zenon DEF InStep
    <3>3. Replay(log) \in Replays /\ Replay(log).ok
      BY <2>1, <2>2, ReplayTyped, SMTT(60), Zenon
    <3>4. /\ Replay(log).plans \in [Instances -> SoundPlans \cup {Detached}]
          /\ Replay(log) = [ok |-> TRUE, plans |-> Replay(log).plans]
      BY <3>3, SMTT(60), Zenon DEF Replays
    <3>5. Replay(log).plans = plans
      BY <2>1, <3>2, <3>4, SMTT(60), Zenon
    <3> QED
      BY <3>4, <3>5, SMTT(60), Zenon
  <2> QED
    BY <1>1, <2>2, SMTT(60), Zenon DEF AgentInv, SkillsInv, UsageInv
<1> QED
  BY <1>1, AgentInvariant, PTL

(* A removal of the log. *)
Removal(events, id) ==
    \E k \in DOMAIN events : /\ events[k].kind = "dispatched"
                             /\ events[k].event.name = "step_removed"
                             /\ events[k].event.id = id

LEMMA RemovalLogged ==
    ASSUME NEW events, NEW i, NEW e, Logged(events, i, e), NEW id, e.name = "step_removed", e.id = id
    PROVE  Removal(events, id)
<1>1. PICK m \in DOMAIN events : events[m] = DispatchEvent(i, e)
  BY Zenon DEF Logged
<1>2. events[m].kind = "dispatched" /\ events[m].event = e
  BY <1>1, SMTT(60), Zenon DEF DispatchEvent
<1> QED
  BY <1>1, <1>2, Zenon DEF Removal

(* What the copy of a caller lacks is removed in the log. *)
LEMMA TakenRemoves ==
    ASSUME PlansInv, Taken(call, plans, log), NEW c \in Callers, call[c].at = "applied",
           NEW id \in IDs(plans[call[c].inst].steps) \ IDs(call[c].base.steps)
    PROVE  Removal(log, id)
<1> DEFINE p == plans[call[c].inst]
           q == call[c].base
<1>1. call[c].at \in Applying /\ call[c] # Idle
  BY Places, IdleIs, Zenon
<1>2. SoundPlan(p)
  BY <1>1, CallPast, Zenon
<1>3. PICK e \in ValidEvents : Grants(p, e, q) /\ Logged(log, call[c].inst, e)
  BY Zenon DEF Taken
<1>4. id \in IDs(p.steps) \ IDs(q.steps) /\ e \in Actions
  BY <1>3, Zenon DEF ValidEvents
<1> HIDE DEF p, q
<1>5. \A x \in IDs(p.steps) \ IDs(q.steps) : e.name = "step_removed" /\ e.id = x
  BY <1>2, <1>3, <1>4, GrantsKeep, Zenon
<1>6. e.name = "step_removed" /\ e.id = id
  BY <1>4, <1>5, Zenon
<1> QED
  BY <1>3, <1>6, RemovalLogged, Zenon

(* So is what the rest of a caller's batch removes. *)
LEMMA RestRemoves ==
    ASSUME PlansInv, NEW c \in Callers, call[c].at \in Applying, NEW p, SoundPlan(p),
           NEW q, Leads(p, call[c].events, q), NEW id \in IDs(p.steps) \ IDs(q.steps)
    PROVE  Removal(log, id)
<1> DEFINE es == call[c].events
<1>1. call[c] # Idle
  BY IdleIs, Zenon
<1>2. es \in Seq(ValidEvents) /\ \A j \in DOMAIN es : Logged(log, call[c].inst, es[j])
  BY <1>1, CallPast, Zenon
<1>3. es \in Seq(Actions)
  <2>1. ValidEvents \subseteq Actions
    BY Zenon DEF ValidEvents
  <2> HIDE DEF es
  <2> QED
    BY <1>2, <2>1, SMTT(60), Zenon
<1>4. Leads(p, es, q)
  OBVIOUS
<1> HIDE DEF es
<1>5. \A x \in IDs(p.steps) \ IDs(q.steps) : \E j \in DOMAIN es : es[j].name = "step_removed" /\ es[j].id = x
  BY <1>3, <1>4, LeadsKeeps, SMTT(60), Zenon
<1>6. PICK j \in DOMAIN es : es[j].name = "step_removed" /\ es[j].id = id
  BY <1>5, Zenon
<1> QED
  BY <1>2, <1>6, RemovalLogged, Zenon

(* A step leaves a plan only through a removal that the log holds, whether   *)
(* the plan changes event by event or is rebuilt by a resume, as long as no  *)
(* caller overtook another one and no batch of a failed append has reached   *)
(* the file (RemoveStep, topoSortSteps, ApplyEvent, Manager.Replay).         *)
THEOREM StepsLeaveOnlyByRemoval == Spec => StepsLeaveByRemoval
<1>1. ASSUME AgentInv, Next, NEW i \in Instances, plans[i] # Detached, plans'[i] # Detached,
             "plans" \notin drift \cup drift', NEW id \in IDs(plans[i].steps) \ IDs(plans'[i].steps)
      PROVE  Removal(log', id)
  <2>1. /\ PlansInv /\ plans \in [Instances -> SoundPlans \cup {Detached}]
        /\ "plans" \notin drift => /\ Taken(call, plans, log)
                                   /\ InStep(call, plans, Replay(log).plans)
    BY <1>1, Zenon DEF AgentInv, PlansInv, PlansTyped
  <2>2. Taken(call, plans, log) /\ InStep(call, plans, Replay(log).plans)
    BY <1>1, <2>1, Zenon
  <2>3. plans'[i] # plans[i] /\ plans' # plans
    BY <1>1, Zenon
  <2>4. ASSUME NEW c \in Callers, ApplyActionsSet(c)
        PROVE  Removal(log', id)
    <3>1. /\ call[c].at = "applied" /\ log' = log /\ plans' = [plans EXCEPT ![call[c].inst] = call[c].base]
      BY <2>4, Zenon DEF ApplyActionsSet
    <3>2. call[c].inst = i /\ plans'[i] = call[c].base
      BY <2>1, <2>3, <3>1, SMTT(60), Zenon
    <3>3. id \in IDs(plans[call[c].inst].steps) \ IDs(call[c].base.steps)
      BY <1>1, <3>2, Zenon
    <3> QED
      BY <2>1, <2>2, <3>1, <3>3, TakenRemoves, Zenon
  <2>5. CASE Resume
    <3>1. log' = log /\ plans' = Replay(log).plans
      BY <2>3, <2>5, ZenonT(60), SMTT(60) DEF Resume, ResumeThreadRuntime
    <3>2. Busy(call, i)
      BY <2>2, <2>3, <3>1, Zenon, SMTT(60) DEF InStep
    <3>3. PICK c \in Callers : call[c].at \in Applying /\ call[c].inst = i
      BY <3>2, Zenon DEF Busy
    <3> DEFINE p == From(call[c], plans[i])
    <3>4. Leads(p, call[c].events, plans'[i])
      BY <2>2, <3>1, <3>3, Zenon, SMTT(60) DEF InStep
    <3>5. call[c] # Idle
      BY <3>3, IdleIs, Zenon
    <3>6. SoundPlan(call[c].base) /\ SoundPlan(plans[call[c].inst])
      BY <2>1, <3>5, CallPast, Zenon
    <3>7. SoundPlan(p)
      BY <3>3, <3>6, Zenon, SMTT(60) DEF From
    <3>8. CASE id \in IDs(p.steps)
      <4> HIDE DEF p
      <4>1. id \in IDs(p.steps) \ IDs(plans'[i].steps)
        BY <1>1, <3>8, Zenon
      <4> QED
        BY <2>1, <3>1, <3>3, <3>4, <3>7, <4>1, RestRemoves, Zenon
    <3>9. CASE id \notin IDs(p.steps)
      <4>1. call[c].at = "applied" /\ p = call[c].base
        BY <1>1, <3>9, Zenon, SMTT(60) DEF From
      <4>2. id \in IDs(plans[call[c].inst].steps) \ IDs(call[c].base.steps)
        BY <1>1, <3>3, <3>9, <4>1, Zenon
      <4> QED
        BY <2>1, <2>2, <3>1, <4>1, <4>2, TakenRemoves, Zenon
    <3> QED
      BY <3>8, <3>9, Zenon
  <2>6. ASSUME NEW j \in Instances, EnsureCapabilities(j)
        PROVE  FALSE
    <3>1. /\ plans[j] = Detached
          /\ plans' = [plans EXCEPT ![j] = NewPlanner] \/ plans' = plans
      BY <2>6, Zenon DEF EnsureCapabilities, Attach
    <3>2. plans' = [plans EXCEPT ![j] = NewPlanner] /\ i # j
      BY <1>1, <2>3, <3>1, Zenon
    <3> QED
      BY <2>1, <2>3, <3>2, SMTT(60), Zenon
  <2>7. CASE newCommand
    <3>1. plans' = NoPlans \/ plans' = plans
      BY <2>7, Zenon DEF newCommand, Reset
    <3> QED
      BY <1>1, <2>3, <3>1, Zenon, SMTT(60) DEF NoPlans
  <2>8. ASSUME \/ \E c \in Callers : \/ \E j \in Instances, b \in Batches : ApplyActionsDraft(c, j, b)
                                     \/ ApplyActionsAppend(c)
                                     \/ ApplyActionsApply(c)
               \/ \E n \in SkillNames : \/ skillCommand(n)
                                        \/ \E p \in Paths : skillReferenceActivateCommand(n, p)
                                        \/ \E p \in RefCalls : skillTool(n, p)
               \/ RecordUsage \/ OtherAppend \/ UNCHANGED vars
        PROVE  plans' = plans
    BY <2>8, ZenonT(60), SMTT(60)
       DEF ApplyActionsDraft, ApplyActionsAppend, ApplyActionsApply, skillCommand, skillReferenceActivateCommand,
           skillTool, InstanceActivateSkill, InstanceActivateSkillReferences, RecordUsage, OtherAppend, vars
  <2> QED
    BY <1>1, <2>3, <2>4, <2>5, <2>6, <2>7, <2>8, ZenonT(60), SMTT(60) DEF Next
<1>2. AgentInv /\ [Next]_vars =>
        [\A i \in Instances :
           (plans[i] # Detached /\ plans'[i] # Detached /\ "plans" \notin drift \cup drift')
             => \A id \in IDs(plans[i].steps) \ IDs(plans'[i].steps) :
                  \E k \in DOMAIN log' : /\ log'[k].kind = "dispatched"
                                         /\ log'[k].event.name = "step_removed"
                                         /\ log'[k].event.id = id]_vars
  BY <1>1 DEF Removal
<1> QED
  BY <1>2, AgentInvariant, PTL DEF Spec, StepsLeaveByRemoval

=============================================================================
