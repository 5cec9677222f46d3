----------------------------- MODULE ToolProofs -----------------------------
(***************************************************************************)
(* Proofs about the tools that hold on to something for the agent between  *)
(* calls.  The session manager of the browser tool: for any number of      *)
(* calls, sessions and operations, no browser is lost, and the limit holds *)
(* as long as no two calls are inside Create at once.  The registry of the *)
(* phone tool: for any number of tool calls, lists of operations and       *)
(* established calls, no call and no user agent is lost.                   *)
(***************************************************************************)
EXTENDS Browser, FiniteSetTheorems, TLAPS

CONSTANTS Users, Lists, SIPAddr, HasDevice

VARIABLES dialog, agent, calls, seq, user

P == INSTANCE Phone

-----------------------------------------------------------------------------
(* The browser *)

Live == {"running", "crashed"}

Points == {"idle", "dispatch", "start", "insert", "capture", "run", "stop", "done"}

BatchType == [pc : Points, ops : Seq(Operations), session : SUBSET Ids, on : SUBSET Ids]

Typed ==
  /\ sessions \subseteq Ids /\ IsFiniteSet(sessions)
  /\ browser \in [Ids -> {"unused", "running", "crashed", "stopped"}]
  /\ idle \subseteq Ids
  /\ batch \in [Batches -> BatchType]
  /\ reaper \in [expired : SUBSET Ids, stop : SUBSET Ids]
  /\ closer \in [pc : {"idle", "swap", "stop"}, stop : SUBSET Ids]
  /\ closer.pc # "stop" => closer.stop = {}
  /\ \A c \in Batches : batch[c].pc \notin {"idle", "done"} => batch[c].ops # <<>>

(* Somebody is about to stop the browser of i, which nobody else can find. *)
Stopping(i) == \/ i \in reaper.stop \cup closer.stop
               \/ \E c \in Batches : batch[c].pc = "stop" /\ i \in batch[c].on

MapIsAlive == \A i \in sessions : browser[i] \in Live /\ ~Stopping(i)

StoppingWasStarted == \A i \in Ids : Stopping(i) => browser[i] # "unused"

(* A session that is being created belongs to one call and nobody else. *)
InsertsAreOwned ==
  \A c \in Batches : batch[c].pc = "insert" =>
    /\ \E i \in Ids : batch[c].on = {i}
    /\ \A i \in batch[c].on :
         /\ browser[i] \in Live
         /\ i \notin sessions /\ ~Stopping(i)
         /\ \A d \in Batches \ {c} : batch[d].pc = "insert" => i \notin batch[d].on

RunningIsHeld ==
  \A i \in Ids : browser[i] = "running" =>
    \/ i \in sessions \/ Stopping(i)
    \/ \E c \in Batches : batch[c].pc = "insert" /\ i \in batch[c].on

(* One call at most is inside Create, and it has a place reserved. *)
PlaceIsFree ==
  racers = {} /\ MaxSessions > 0 =>
    /\ Cardinality(sessions) <= MaxSessions
    /\ \A c \in Batches : InsideCreate(c) =>
         /\ Cardinality(sessions) < MaxSessions
         /\ \A d \in Batches : InsideCreate(d) => d = c

Held == MapIsAlive /\ StoppingWasStarted /\ InsertsAreOwned /\ RunningIsHeld

IInv == Typed /\ Held /\ PlaceIsFree

-----------------------------------------------------------------------------
(* The limit is not exceeded by taking sessions out of the map. *)
LEMMA FewerSessions ==
  ASSUME NEW S, IsFiniteSet(S), NEW T, T \subseteq S
  PROVE  IsFiniteSet(T) /\ Cardinality(T) \in Nat /\ Cardinality(S) \in Nat
         /\ Cardinality(T) <= Cardinality(S)
  BY FS_Subset, FS_CardinalityType

(* One session more. *)
LEMMA OneMoreSession ==
  ASSUME NEW S, IsFiniteSet(S), NEW i
  PROVE  IsFiniteSet(S \cup {i}) /\ Cardinality(S \cup {i}) \in Nat
         /\ Cardinality(S) \in Nat /\ Cardinality(S \cup {i}) <= Cardinality(S) + 1
  <1>1. Cardinality(S) \in Nat
    BY FS_CardinalityType
  <1>2. /\ IsFiniteSet(S \cup {i})
        /\ Cardinality(S \cup {i}) = IF i \in S THEN Cardinality(S) ELSE Cardinality(S) + 1
    BY FS_AddElement
  <1> QED
    BY <1>1, <1>2

(* The manager starts without sessions, and nothing runs. *)
LEMMA InitInv == Init => IInv
  <1> SUFFICES ASSUME Init PROVE IInv
    OBVIOUS
  <1>1. Typed
    <2>1. NotMade \in BatchType
      BY DEF NotMade, BatchType, Points
    <2>2. \A c \in Batches : batch[c].pc = "idle"
      BY DEF Init, NotMade
    <2>3. IsFiniteSet(sessions)
      BY FS_EmptySet DEF Init
    <2> QED
      BY <2>1, <2>2, <2>3 DEF Init, Typed
  <1>2. \A c \in Batches : batch[c].pc = "idle"
    BY DEF Init, NotMade
  <1>3. \A i \in Ids : ~Stopping(i)
    BY <1>2 DEF Init, Stopping
  <1>4. PlaceIsFree
    BY <1>2, FS_EmptySet, BrowserAssumption DEF Init, PlaceIsFree, InsideCreate
  <1> QED
    BY <1>1, <1>2, <1>3, <1>4
    DEF Init, IInv, Held, MapIsAlive, StoppingWasStarted, InsertsAreOwned, RunningIsHeld

(* What Step does to the calls. *)
LEMMA StepShape ==
  ASSUME Typed, NEW c \in Batches, NEW pc \in Points, NEW on \in SUBSET Ids,
         batch[c].pc \notin {"idle", "done"}, Step(c, pc, on)
  PROVE  /\ batch' \in [Batches -> BatchType]
         /\ \A d \in Batches : batch'[d].pc \notin {"idle", "done"} => batch'[d].ops # <<>>
         /\ \A d \in Batches \ {c} : batch'[d] = batch[d]
         /\ batch'[c].pc = pc /\ batch'[c].on = on
  <1>1. batch[c] \in BatchType /\ batch[c].ops # <<>>
    BY DEF Typed
  <1>2. batch' = [batch EXCEPT ![c] = [batch[c] EXCEPT !.pc = pc, !.on = on]]
    BY <1>1, Zenon DEF Step, Typed, BatchType
  <1>3. /\ [batch[c] EXCEPT !.pc = pc, !.on = on] \in BatchType
        /\ [batch[c] EXCEPT !.pc = pc, !.on = on].ops # <<>>
        /\ [batch[c] EXCEPT !.pc = pc, !.on = on].pc = pc
        /\ [batch[c] EXCEPT !.pc = pc, !.on = on].on = on
    BY <1>1, Zenon DEF BatchType
  <1> QED
    BY <1>2, <1>3 DEF Typed

(* What Succeed does to the calls. *)
LEMMA SucceedShape ==
  ASSUME Typed, NEW c \in Batches, NEW session \in SUBSET Ids,
         batch[c].pc \notin {"idle", "done"}, Succeed(c, session)
  PROVE  /\ batch' \in [Batches -> BatchType]
         /\ \A d \in Batches : batch'[d].pc \notin {"idle", "done"} => batch'[d].ops # <<>>
         /\ \A d \in Batches \ {c} : batch'[d] = batch[d]
         /\ batch'[c].pc \in {"dispatch", "done"}
  <1> DEFINE rest == Tail(batch[c].ops)
             next == [pc |-> IF rest = <<>> THEN "done" ELSE "dispatch",
                      ops |-> rest, session |-> session, on |-> {}]
  <1>1. batch[c].ops \in Seq(Operations) /\ batch[c].ops # <<>>
    BY DEF Typed, BatchType
  <1>2. rest \in Seq(Operations)
    BY <1>1
  <1>3. next \in BatchType /\ next.pc \in {"dispatch", "done"}
        /\ (next.pc # "done" => next.ops # <<>>)
    BY <1>2 DEF BatchType, Points
  <1>4. batch' = [batch EXCEPT ![c] = next]
    BY DEF Succeed
  <1> HIDE DEF next
  <1> QED
    BY <1>3, <1>4 DEF Typed

(* Sessions leave the map for somebody who will stop their browsers; no    *)
(* other hold changes.                                                     *)
LEMMA RemovalHolds ==
  ASSUME Typed, Held, browser' = browser,
         NEW gone, gone \subseteq sessions, sessions' = sessions \ gone,
         \A i \in Ids : Stopping(i)' <=> Stopping(i) \/ i \in gone,
         \A d \in Batches : /\ batch'[d].pc = "insert" <=> batch[d].pc = "insert"
                            /\ batch'[d].pc = "insert" => batch'[d].on = batch[d].on
  PROVE  Held'
  <1>1. MapIsAlive' /\ StoppingWasStarted'
    BY DEF Held, Typed, MapIsAlive, StoppingWasStarted, Live
  <1>2. InsertsAreOwned'
    <2> SUFFICES ASSUME NEW d \in Batches, batch'[d].pc = "insert"
                 PROVE  /\ \E i \in Ids : batch'[d].on = {i}
                        /\ \A i \in batch'[d].on :
                             /\ browser'[i] \in Live
                             /\ i \notin sessions' /\ ~Stopping(i)'
                             /\ \A e \in Batches \ {d} :
                                  batch'[e].pc = "insert" => i \notin batch'[e].on
      BY DEF InsertsAreOwned
    <2>1. batch[d].pc = "insert" /\ batch'[d].on = batch[d].on /\ batch[d].on \subseteq Ids
      BY DEF Typed, BatchType
    <2> QED
      BY <2>1 DEF Held, InsertsAreOwned
  <1>3. RunningIsHeld'
    BY DEF Held, RunningIsHeld
  <1> QED
    BY <1>1, <1>2, <1>3 DEF Held

(* A place stays free where sessions only leave the map and no call enters *)
(* Create.                                                                 *)
LEMMA PlaceStaysFree ==
  ASSUME Typed, PlaceIsFree, racers' = racers, sessions' \subseteq sessions,
         \A d \in Batches : batch'[d].pc \in {"start", "insert"} => batch[d].pc \in {"start", "insert"}
  PROVE  PlaceIsFree'
  <1>1. /\ Cardinality(sessions') \in Nat /\ Cardinality(sessions) \in Nat
        /\ Cardinality(sessions') <= Cardinality(sessions)
    BY FewerSessions DEF Typed
  <1> SUFFICES ASSUME racers = {}, MaxSessions > 0
               PROVE  /\ Cardinality(sessions') <= MaxSessions
                      /\ \A c \in Batches : batch'[c].pc \in {"start", "insert"} =>
                           /\ Cardinality(sessions') < MaxSessions
                           /\ \A d \in Batches : batch'[d].pc \in {"start", "insert"} => d = c
    BY DEF PlaceIsFree, InsideCreate
  <1>2. /\ Cardinality(sessions) <= MaxSessions
        /\ \A c \in Batches : batch[c].pc \in {"start", "insert"} =>
             /\ Cardinality(sessions) < MaxSessions
             /\ \A d \in Batches : batch[d].pc \in {"start", "insert"} => d = c
    BY DEF PlaceIsFree, InsideCreate
  <1>3. Cardinality(sessions') <= MaxSessions
        /\ (Cardinality(sessions) < MaxSessions => Cardinality(sessions') < MaxSessions)
    BY <1>1, <1>2, BrowserAssumption
  <1> QED
    BY <1>2, <1>3

(* The two together. *)
LEMMA Removal ==
  ASSUME IInv, Typed', browser' = browser, racers' = racers,
         NEW gone, gone \subseteq sessions, sessions' = sessions \ gone,
         \A i \in Ids : Stopping(i)' <=> Stopping(i) \/ i \in gone,
         \A d \in Batches : batch'[d].pc \in {"start", "insert"} => batch[d].pc \in {"start", "insert"},
         \A d \in Batches : /\ batch'[d].pc = "insert" <=> batch[d].pc = "insert"
                            /\ batch'[d].pc = "insert" => batch'[d].on = batch[d].on
  PROVE  IInv'
  <1>1. Held'
    BY RemovalHolds DEF IInv
  <1>2. PlaceIsFree'
    BY PlaceStaysFree DEF IInv
  <1> QED
    BY <1>1, <1>2 DEF IInv

(* Browsers that somebody was about to stop are stopped. *)
LEMMA Halting ==
  ASSUME IInv, Typed', sessions' = sessions, racers' = racers,
         NEW halted, \A i \in halted : i \in Ids /\ Stopping(i),
         Stop(halted),
         \A i \in Ids : Stopping(i)' => Stopping(i),
         \A i \in Ids : Stopping(i) => Stopping(i)' \/ i \in halted,
         \A d \in Batches : batch'[d].pc \in {"start", "insert"} => batch[d].pc \in {"start", "insert"},
         \A d \in Batches : /\ batch'[d].pc = "insert" <=> batch[d].pc = "insert"
                            /\ batch'[d].pc = "insert" => batch'[d].on = batch[d].on
  PROVE  IInv'
  <1>0. \A i \in Ids : browser'[i] = IF i \in halted THEN "stopped" ELSE browser[i]
    BY DEF Stop
  <1>1. MapIsAlive'
    BY <1>0 DEF IInv, Typed, Held, MapIsAlive
  <1>2. StoppingWasStarted'
    BY <1>0 DEF IInv, Held, StoppingWasStarted
  <1>3. InsertsAreOwned'
    <2> SUFFICES ASSUME NEW d \in Batches, batch'[d].pc = "insert"
                 PROVE  /\ \E i \in Ids : batch'[d].on = {i}
                        /\ \A i \in batch'[d].on :
                             /\ browser'[i] \in Live
                             /\ i \notin sessions' /\ ~Stopping(i)'
                             /\ \A e \in Batches \ {d} :
                                  batch'[e].pc = "insert" => i \notin batch'[e].on
      BY DEF InsertsAreOwned
    <2>1. batch[d].pc = "insert" /\ batch'[d].on = batch[d].on /\ batch[d].on \subseteq Ids
      BY DEF IInv, Typed, BatchType
    <2>2. \A i \in batch[d].on : i \notin halted
      BY <2>1 DEF IInv, Held, InsertsAreOwned
    <2> QED
      BY <1>0, <2>1, <2>2 DEF IInv, Held, InsertsAreOwned
  <1>4. RunningIsHeld'
    BY <1>0 DEF IInv, Held, RunningIsHeld
  <1>5. PlaceIsFree'
    BY PlaceStaysFree DEF IInv
  <1> QED
    BY <1>1, <1>2, <1>3, <1>4, <1>5 DEF IInv, Held

(* A call moves between points where it neither holds a browser nor is     *)
(* inside Create, and nothing else that matters changes.                   *)
LEMMA BatchMoves ==
  ASSUME IInv, Typed', NEW c \in Batches,
         UNCHANGED <<sessions, browser, reaper, closer, racers>>,
         \A d \in Batches \ {c} : batch'[d] = batch[d],
         batch[c].pc \notin {"start", "insert", "stop"},
         batch'[c].pc \notin {"start", "insert", "stop"}
  PROVE  IInv'
  <1>0. PICK none : none = {}
    BY Zenon
  <1>1. \A i \in Ids : Stopping(i)' <=> Stopping(i) \/ i \in none
    BY <1>0 DEF Stopping
  <1>2. \A d \in Batches : batch'[d].pc \in {"start", "insert"} => batch[d].pc \in {"start", "insert"}
    OBVIOUS
  <1>3. \A d \in Batches : /\ batch'[d].pc = "insert" <=> batch[d].pc = "insert"
                           /\ batch'[d].pc = "insert" => batch'[d].on = batch[d].on
    OBVIOUS
  <1>4. browser' = browser /\ racers' = racers /\ none \subseteq sessions /\ sessions' = sessions \ none
    BY <1>0
  <1> QED
    BY <1>1, <1>2, <1>3, <1>4, Removal

(* A step that leaves the map, the browsers and everybody's hold alone. *)
LEMMA QuietStep ==
  ASSUME IInv, Typed', UNCHANGED <<sessions, browser, batch, racers>>,
         reaper'.stop = reaper.stop, closer'.stop = closer.stop
  PROVE  IInv'
  <1>0. PICK none : none = {}
    BY Zenon
  <1>1. \A i \in Ids : Stopping(i)' <=> Stopping(i) \/ i \in none
    BY <1>0 DEF Stopping
  <1>2. \A d \in Batches : batch'[d].pc \in {"start", "insert"} => batch[d].pc \in {"start", "insert"}
    OBVIOUS
  <1>3. \A d \in Batches : /\ batch'[d].pc = "insert" <=> batch[d].pc = "insert"
                           /\ batch'[d].pc = "insert" => batch'[d].on = batch[d].on
    OBVIOUS
  <1>4. browser' = browser /\ racers' = racers /\ none \subseteq sessions /\ sessions' = sessions \ none
    BY <1>0
  <1> QED
    BY <1>1, <1>2, <1>3, <1>4, Removal

-----------------------------------------------------------------------------
(* The steps of a call *)

(* A call goes on, or breaks off, without a browser in hand. *)
LEMMA CallGoesOn ==
  ASSUME IInv, NEW c \in Batches,
         batch[c].pc \in {"dispatch", "capture", "run"},
         \/ \E pc \in Points \ {"start", "insert", "stop"}, on \in SUBSET Ids : Step(c, pc, on)
         \/ \E session \in SUBSET Ids : Succeed(c, session),
         idle' \subseteq idle,
         UNCHANGED <<sessions, browser, reaper, closer, racers>>
  PROVE  IInv'
  <1>1. Typed
    BY DEF IInv
  <1>2. /\ batch' \in [Batches -> BatchType]
        /\ \A d \in Batches : batch'[d].pc \notin {"idle", "done"} => batch'[d].ops # <<>>
        /\ \A d \in Batches \ {c} : batch'[d] = batch[d]
        /\ batch'[c].pc \notin {"start", "insert", "stop"}
    <2>1. CASE \E pc \in Points \ {"start", "insert", "stop"}, on \in SUBSET Ids : Step(c, pc, on)
      <3>1. PICK pc \in Points \ {"start", "insert", "stop"}, on \in SUBSET Ids : Step(c, pc, on)
        BY <2>1
      <3> QED
        BY <1>1, <3>1, StepShape
    <2>2. CASE \E session \in SUBSET Ids : Succeed(c, session)
      BY <1>1, <2>2, SucceedShape
    <2> QED
      BY <2>1, <2>2
  <1>3. Typed'
    BY <1>1, <1>2, SMTT(60), Zenon DEF Typed
  <1> QED
    BY <1>2, <1>3, BatchMoves

(* The call is turned away or gets its session. *)
LEMMA ExecuteStep ==
  ASSUME IInv, NEW c \in Batches, executeBrowser(c)
  PROVE  IInv'
  <1>0. Typed
    BY DEF IInv
  <1>1. PICK ops \in Scripts, given \in {{}} \cup {{i} : i \in {j \in Ids : browser[j] # "unused"}} :
          LET got == IF Valid(ops) THEN Resolve(given, ops) ELSE [ok |-> FALSE, session |-> {}]
          IN /\ batch' = [batch EXCEPT ![c] = IF got.ok
                       THEN [pc |-> "dispatch", ops |-> ops, session |-> got.session, on |-> {}]
                       ELSE Refused]
             /\ touch(got.session)
    BY Zenon DEF executeBrowser
  <1> DEFINE got == IF Valid(ops) THEN Resolve(given, ops) ELSE [ok |-> FALSE, session |-> {}]
             next == IF got.ok
                       THEN [pc |-> "dispatch", ops |-> ops, session |-> got.session, on |-> {}]
                       ELSE Refused
  <1>2. got.session \in SUBSET Ids
    BY <1>0 DEF Resolve, Found, Typed
  <1>3. ops \in Seq(Operations)
    BY BrowserAssumption
  <1>4. got.ok => ops # <<>>
    BY DEF Valid
  <1>5. batch' = [batch EXCEPT ![c] = next] /\ idle' = idle \ got.session
    BY <1>1 DEF touch
  <1> HIDE DEF got
  <1>6. next \in BatchType /\ next.pc \in {"dispatch", "done"} /\ (next.pc = "dispatch" => next.ops # <<>>)
    <2>1. CASE got.ok
      BY <1>2, <1>3, <1>4, <2>1 DEF BatchType, Points
    <2>2. CASE ~got.ok
      BY <2>2 DEF BatchType, Points, Refused
    <2> QED
      BY <2>1, <2>2
  <1> HIDE DEF next
  <1>7. /\ batch' \in [Batches -> BatchType] /\ batch'[c] = next
        /\ \A d \in Batches \ {c} : batch'[d] = batch[d]
    BY <1>0, <1>5, <1>6, SMTT(60), Zenon DEF Typed
  <1>8. Typed'
    BY <1>0, <1>5, <1>6, <1>7 DEF Typed, executeBrowser
  <1> QED
    BY <1>6, <1>7, <1>8, BatchMoves DEF executeBrowser, At

(* Past the limit check: a place is free, and it is this call's. *)
LEMMA CreateCheckStep ==
  ASSUME IInv, NEW c \in Batches, CreateCheck(c)
  PROVE  IInv'
  <1>0. Typed /\ Held /\ PlaceIsFree /\ batch[c].pc = "dispatch"
        /\ UNCHANGED <<sessions, browser, idle, reaper, done, closer>>
    BY DEF IInv, CreateCheck, At
  <1>1. CASE AtLimit
    <2>1. Step(c, "done", {}) /\ racers' = racers
      BY <1>1 DEF CreateCheck, Break
    <2> QED
      BY <1>0, <2>1, CallGoesOn DEF Points
  <1>2. CASE ~AtLimit
    <2>1. /\ Step(c, "start", {})
          /\ racers' = IF \E d \in Batches : InsideCreate(d) THEN racers \cup {c} ELSE racers
      BY <1>2 DEF CreateCheck
    <2>2. /\ batch' \in [Batches -> BatchType]
          /\ \A d \in Batches : batch'[d].pc \notin {"idle", "done"} => batch'[d].ops # <<>>
          /\ \A d \in Batches \ {c} : batch'[d] = batch[d]
          /\ batch'[c].pc = "start"
      BY <1>0, <2>1, StepShape DEF Points
    <2>3. Typed'
      BY <1>0, <2>2 DEF Typed
    <2>4. Held'
      <3>0. PICK none : none = {}
        BY Zenon
      <3>1. \A i \in Ids : Stopping(i)' <=> Stopping(i) \/ i \in none
        BY <1>0, <2>2, <3>0 DEF Stopping
      <3>2. \A d \in Batches : /\ batch'[d].pc = "insert" <=> batch[d].pc = "insert"
                               /\ batch'[d].pc = "insert" => batch'[d].on = batch[d].on
        BY <1>0, <2>2
      <3>3. browser' = browser /\ none \subseteq sessions /\ sessions' = sessions \ none
        BY <1>0, <3>0
      <3> QED
        BY <1>0, <3>1, <3>2, <3>3, RemovalHolds, Zenon
    <2>5. PlaceIsFree'
      <3> SUFFICES ASSUME racers' = {}, MaxSessions > 0
                   PROVE  /\ Cardinality(sessions') <= MaxSessions
                          /\ Cardinality(sessions') < MaxSessions
                          /\ \A e, d \in Batches :
                               (batch'[e].pc \in {"start", "insert"} /\ batch'[d].pc \in {"start", "insert"})
                               => d = e
        BY DEF PlaceIsFree, InsideCreate
      <3>1. Cardinality(sessions) \in Nat
        BY <1>0, FewerSessions DEF Typed
      <3>2. Cardinality(sessions) < MaxSessions
        BY <1>2, <3>1, BrowserAssumption DEF AtLimit
      <3>3. \A d \in Batches : batch[d].pc \notin {"start", "insert"}
        BY <2>1 DEF InsideCreate
      <3> QED
        BY <1>0, <2>2, <3>1, <3>2, <3>3, BrowserAssumption
    <2> QED
      BY <2>3, <2>4, <2>5 DEF IInv
  <1> QED
    BY <1>1, <1>2

(* The browser starts, in the hands of this call alone, or it does not. *)
LEMMA CreateStartStep ==
  ASSUME IInv, NEW c \in Batches, CreateStart(c)
  PROVE  IInv'
  <1>0. Typed /\ Held /\ PlaceIsFree /\ batch[c].pc = "start"
        /\ UNCHANGED <<sessions, idle, reaper, done, closer, racers>>
    BY DEF IInv, CreateStart, At
  <1>1. CASE Break(c) /\ UNCHANGED browser
    <2>1. Step(c, "done", {}) /\ browser' = browser
      BY <1>1 DEF Break
    <2>2. /\ batch' \in [Batches -> BatchType]
          /\ \A d \in Batches : batch'[d].pc \notin {"idle", "done"} => batch'[d].ops # <<>>
          /\ \A d \in Batches \ {c} : batch'[d] = batch[d]
          /\ batch'[c].pc = "done"
      BY <1>0, <2>1, StepShape DEF Points
    <2>3. Typed'
      BY <1>0, <2>1, <2>2 DEF Typed
    <2>4. PICK none : none = {}
      BY Zenon
    <2>5. \A i \in Ids : Stopping(i)' <=> Stopping(i) \/ i \in none
      BY <1>0, <2>2, <2>4 DEF Stopping
    <2>6. \A d \in Batches : /\ batch'[d].pc = "insert" <=> batch[d].pc = "insert"
                             /\ batch'[d].pc = "insert" => batch'[d].on = batch[d].on
      BY <1>0, <2>2
    <2>7. \A d \in Batches : batch'[d].pc \in {"start", "insert"} => batch[d].pc \in {"start", "insert"}
      BY <1>0, <2>2
    <2>8. none \subseteq sessions /\ sessions' = sessions \ none /\ racers' = racers
      BY <1>0, <2>4
    <2> QED
      BY <2>1, <2>3, <2>5, <2>6, <2>7, <2>8, Removal
  <1>2. ASSUME NEW i \in Ids, browser[i] = "unused",
               browser' = [browser EXCEPT ![i] = "running"], Step(c, "insert", {i})
        PROVE  IInv'
    <2>1. /\ batch' \in [Batches -> BatchType]
          /\ \A d \in Batches : batch'[d].pc \notin {"idle", "done"} => batch'[d].ops # <<>>
          /\ \A d \in Batches \ {c} : batch'[d] = batch[d]
          /\ batch'[c].pc = "insert" /\ batch'[c].on = {i}
      BY <1>0, <1>2, StepShape, SMTT(60), Zenon DEF Points
    <2>2. Typed'
      BY <1>0, <1>2, <2>1 DEF Typed
    <2>3. \A j \in Ids : Stopping(j)' <=> Stopping(j)
      BY <1>0, <2>1 DEF Stopping
    <2>4. /\ \A j \in Ids \ {i} : browser'[j] = browser[j]
          /\ browser'[i] = "running"
      BY <1>0, <1>2 DEF Typed
    <2>5. i \notin sessions /\ ~Stopping(i)
      BY <1>0, <1>2 DEF Held, MapIsAlive, StoppingWasStarted, Live
    <2>6. \A d \in Batches : batch[d].pc = "insert" => i \notin batch[d].on
      BY <1>0, <1>2 DEF Held, InsertsAreOwned, Live
    <2>7. MapIsAlive' /\ StoppingWasStarted'
      BY <1>0, <2>3, <2>4, <2>5, SMTT(60), Zenon DEF Held, Typed, MapIsAlive, StoppingWasStarted
    <2>8. InsertsAreOwned'
      <3> SUFFICES ASSUME NEW d \in Batches, batch'[d].pc = "insert"
                   PROVE  /\ \E j \in Ids : batch'[d].on = {j}
                          /\ \A j \in batch'[d].on :
                               /\ browser'[j] \in Live
                               /\ j \notin sessions' /\ ~Stopping(j)'
                               /\ \A e \in Batches \ {d} :
                                    batch'[e].pc = "insert" => j \notin batch'[e].on
        BY DEF InsertsAreOwned
      <3>1. CASE d = c
        BY <1>0, <2>1, <2>3, <2>4, <2>5, <2>6, <3>1, SMTT(60), Zenon DEF Live
      <3>2. CASE d # c
        <4>1. batch'[d] = batch[d] /\ batch[d].on \subseteq Ids
          BY <1>0, <2>1, <3>2, SMTT(60), Zenon DEF Typed, BatchType
        <4> QED
          BY <1>0, <2>1, <2>3, <2>4, <2>6, <3>2, <4>1, SMTT(60), Zenon DEF Held, InsertsAreOwned
      <3> QED
        BY <3>1, <3>2
    <2>9. RunningIsHeld'
      BY <1>0, <2>1, <2>3, <2>4 DEF Held, RunningIsHeld
    <2>10. \A d \in Batches : batch'[d].pc \in {"start", "insert"} => batch[d].pc \in {"start", "insert"}
      BY <1>0, <2>1
    <2>11. PlaceIsFree'
      BY <1>0, <2>10, PlaceStaysFree, SMTT(60), Zenon
    <2> QED
      BY <2>2, <2>7, <2>8, <2>9, <2>11, SMTT(60), Zenon DEF IInv, Held
  <1> QED
    BY <1>1, <1>2, Zenon DEF CreateStart

(* The session goes into the map, into the place that was free. *)
LEMMA CreateInsertStep ==
  ASSUME IInv, NEW c \in Batches, CreateInsert(c)
  PROVE  IInv'
  <1>0. Typed /\ Held /\ PlaceIsFree /\ batch[c].pc = "insert"
        /\ UNCHANGED <<browser, idle, reaper, done, closer, racers>>
    BY DEF IInv, CreateInsert, At
  <1>1. PICK i \in Ids : batch[c].on = {i}
    BY <1>0 DEF Held, InsertsAreOwned
  <1>2. sessions' = sessions \cup {i} /\ Step(c, "capture", {i})
    BY <1>1 DEF CreateInsert
  <1>3. /\ batch' \in [Batches -> BatchType]
        /\ \A d \in Batches : batch'[d].pc \notin {"idle", "done"} => batch'[d].ops # <<>>
        /\ \A d \in Batches \ {c} : batch'[d] = batch[d]
        /\ batch'[c].pc = "capture"
    BY <1>0, <1>2, StepShape DEF Points
  <1>4. /\ IsFiniteSet(sessions') /\ Cardinality(sessions') \in Nat
        /\ Cardinality(sessions) \in Nat /\ Cardinality(sessions') <= Cardinality(sessions) + 1
    BY <1>0, <1>2, OneMoreSession, Zenon DEF Typed
  <1>5. Typed'
    BY <1>0, <1>2, <1>3, <1>4, SMTT(60), Zenon DEF Typed
  <1>6. \A j \in Ids : Stopping(j)' <=> Stopping(j)
    BY <1>0, <1>3 DEF Stopping
  <1>7. browser[i] \in Live /\ ~Stopping(i)
        /\ \A d \in Batches \ {c} : batch[d].pc = "insert" => i \notin batch[d].on
    BY <1>0, <1>1, SMTT(60), Zenon DEF Held, InsertsAreOwned
  <1>8. MapIsAlive' /\ StoppingWasStarted'
    BY <1>0, <1>2, <1>6, <1>7, SMTT(60), Zenon DEF Held, Typed, MapIsAlive, StoppingWasStarted
  <1>9. InsertsAreOwned'
    <2> SUFFICES ASSUME NEW d \in Batches, batch'[d].pc = "insert"
                 PROVE  /\ \E j \in Ids : batch'[d].on = {j}
                        /\ \A j \in batch'[d].on :
                             /\ browser'[j] \in Live
                             /\ j \notin sessions' /\ ~Stopping(j)'
                             /\ \A e \in Batches \ {d} :
                                  batch'[e].pc = "insert" => j \notin batch'[e].on
      BY DEF InsertsAreOwned
    <2>1. d # c /\ batch'[d] = batch[d] /\ batch[d].on \subseteq Ids
      BY <1>0, <1>3, SMTT(60), Zenon DEF Typed, BatchType
    <2> QED
      BY <1>0, <1>2, <1>3, <1>6, <1>7, <2>1, SMTT(60), Zenon DEF Held, InsertsAreOwned
  <1>10. RunningIsHeld'
    BY <1>0, <1>1, <1>2, <1>3, <1>6 DEF Held, RunningIsHeld
  <1>11. PlaceIsFree'
    <2> SUFFICES ASSUME racers = {}, MaxSessions > 0
                 PROVE  /\ Cardinality(sessions') <= MaxSessions
                        /\ \A d \in Batches : batch'[d].pc \notin {"start", "insert"}
      BY <1>0 DEF PlaceIsFree, InsideCreate
    <2>1. /\ Cardinality(sessions) < MaxSessions
          /\ \A d \in Batches : batch[d].pc \in {"start", "insert"} => d = c
      BY <1>0 DEF PlaceIsFree, InsideCreate
    <2>2. Cardinality(sessions') <= MaxSessions
      BY <1>4, <2>1, BrowserAssumption
    <2> QED
      BY <1>3, <2>1, <2>2
  <1> QED
    BY <1>5, <1>8, <1>9, <1>10, <1>11 DEF IInv, Held

(* Close takes the session out of the map and into its own hands. *)
LEMMA CloseRemoveStep ==
  ASSUME IInv, NEW c \in Batches, CloseRemove(c)
  PROVE  IInv'
  <1> DEFINE found == Found(batch[c].session)
  <1>0. Typed /\ batch[c].pc = "dispatch" /\ found \subseteq sessions /\ found \subseteq Ids
        /\ sessions' = sessions \ found
        /\ UNCHANGED <<browser, idle, reaper, done, closer, racers>>
    BY SMTT(60), Zenon DEF IInv, Typed, CloseRemove, At, Found
  <1> HIDE DEF found
  <1>1. CASE found = {}
    <2>1. Step(c, "done", {}) /\ sessions' = sessions
      BY <1>0, <1>1, SMTT(60), Zenon DEF CloseRemove, Break, found
    <2> QED
      BY <1>0, <2>1, CallGoesOn DEF Points
  <1>2. CASE found # {}
    <2>1. Step(c, "stop", found)
      BY <1>2 DEF CloseRemove, found
    <2>2. /\ batch' \in [Batches -> BatchType]
          /\ \A d \in Batches : batch'[d].pc \notin {"idle", "done"} => batch'[d].ops # <<>>
          /\ \A d \in Batches \ {c} : batch'[d] = batch[d]
          /\ batch'[c].pc = "stop" /\ batch'[c].on = found
      BY <1>0, <2>1, StepShape DEF Points
    <2>3. IsFiniteSet(sessions') /\ sessions' \subseteq Ids
      BY <1>0, FewerSessions DEF Typed
    <2>4. Typed'
      BY <1>0, <2>2, <2>3, SMTT(60), Zenon DEF Typed
    <2>5. \A i \in Ids : Stopping(i)' <=> Stopping(i) \/ i \in found
      BY <1>0, <2>2 DEF Stopping
    <2>6. \A d \in Batches : batch'[d].pc \in {"start", "insert"} => batch[d].pc \in {"start", "insert"}
      BY <2>2, SMTT(60), Zenon
    <2>7. \A d \in Batches : /\ batch'[d].pc = "insert" <=> batch[d].pc = "insert"
                             /\ batch'[d].pc = "insert" => batch'[d].on = batch[d].on
      BY <1>0, <2>2, SMTT(60), Zenon
    <2>8. browser' = browser /\ racers' = racers
      BY <1>0, SMTT(60), Zenon
    <2> QED
      BY <1>0, <2>4, <2>5, <2>6, <2>7, <2>8, Removal, SMTT(60), Zenon
  <1> QED
    BY <1>1, <1>2, SMTT(60), Zenon

(* ... and stops the browser. *)
LEMMA CloseStopStep ==
  ASSUME IInv, NEW c \in Batches, CloseStop(c)
  PROVE  IInv'
  <1>0. Typed /\ batch[c].pc = "stop" /\ batch[c].on \subseteq Ids /\ batch[c].session \subseteq Ids
        /\ Stop(batch[c].on) /\ Succeed(c, batch[c].session)
        /\ UNCHANGED <<sessions, idle, reaper, done, closer, racers>>
    BY DEF IInv, Typed, BatchType, CloseStop, At
  <1>1. /\ batch' \in [Batches -> BatchType]
        /\ \A d \in Batches : batch'[d].pc \notin {"idle", "done"} => batch'[d].ops # <<>>
        /\ \A d \in Batches \ {c} : batch'[d] = batch[d]
        /\ batch'[c].pc \in {"dispatch", "done"}
    BY <1>0, SucceedShape, SMTT(60), Zenon
  <1>2. browser' \in [Ids -> {"unused", "running", "crashed", "stopped"}]
    BY <1>0, SMTT(60), Zenon DEF Stop, Typed
  <1>3. Typed'
    BY <1>0, <1>1, <1>2, SMTT(60), Zenon DEF Typed
  <1>4. \A i \in batch[c].on : i \in Ids /\ Stopping(i)
    BY <1>0 DEF Stopping
  <1>5. /\ \A i \in Ids : Stopping(i)' => Stopping(i)
        /\ \A i \in Ids : Stopping(i) => Stopping(i)' \/ i \in batch[c].on
    BY <1>0, <1>1 DEF Stopping
  <1>6. \A d \in Batches : batch'[d].pc \in {"start", "insert"} => batch[d].pc \in {"start", "insert"}
    BY <1>1
  <1>7. \A d \in Batches : /\ batch'[d].pc = "insert" <=> batch[d].pc = "insert"
                           /\ batch'[d].pc = "insert" => batch'[d].on = batch[d].on
    BY <1>0, <1>1
  <1>8. sessions' = sessions /\ racers' = racers
    BY <1>0
  <1> QED
    BY <1>0, <1>3, <1>4, <1>5, <1>6, <1>7, <1>8, Halting, SMTT(60), Zenon

(* Every step of a call. *)
LEMMA CallStep ==
  ASSUME IInv, NEW c \in Batches, executeBrowser(c) \/ BatchStep(c)
  PROVE  IInv'
  <1>0. Typed /\ batch[c].on \subseteq Ids /\ batch[c].session \subseteq Ids
    BY DEF IInv, Typed, BatchType
  <1>1. CASE executeBrowser(c)
    BY <1>1, ExecuteStep
  <1>2. CASE CreateCheck(c)
    BY <1>2, CreateCheckStep
  <1>3. CASE CreateStart(c)
    BY <1>3, CreateStartStep, SMTT(60), Zenon
  <1>4. CASE CreateInsert(c)
    BY <1>4, CreateInsertStep
  <1>5. CASE Capture(c)
    <2>1. batch[c].pc = "capture" /\ idle' \subseteq idle
          /\ UNCHANGED <<sessions, browser, reaper, closer, racers>>
          /\ Succeed(c, Found(batch[c].on)) /\ Found(batch[c].on) \in SUBSET Ids
      BY <1>0, <1>5 DEF Capture, At, touch, Found
    <2> QED
      BY <2>1, CallGoesOn, SMTT(60), Zenon
  <1>6. CASE PageLookup(c)
    <2> DEFINE found == Found(batch[c].session)
    <2>1. batch[c].pc = "dispatch" /\ idle' \subseteq idle
          /\ UNCHANGED <<sessions, browser, reaper, closer, racers>>
          /\ (Step(c, "run", found) \/ Step(c, "done", {}))
          /\ found \in SUBSET Ids
      BY <1>0, <1>6, SMTT(60), Zenon DEF PageLookup, At, touch, Found, Break
    <2> HIDE DEF found
    <2>2. \E pc \in Points \ {"start", "insert", "stop"}, on \in SUBSET Ids : Step(c, pc, on)
      BY <2>1 DEF Points
    <2> QED
      BY <2>1, <2>2, CallGoesOn, SMTT(60), Zenon
  <1>7. CASE PageRun(c)
    <2>1. batch[c].pc = "run" /\ idle' = idle
          /\ UNCHANGED <<sessions, browser, reaper, closer, racers>>
          /\ (Succeed(c, batch[c].session) \/ Step(c, "done", {}))
      BY <1>7 DEF PageRun, At, Break
    <2>2. \/ \E pc \in Points \ {"start", "insert", "stop"}, on \in SUBSET Ids : Step(c, pc, on)
          \/ \E session \in SUBSET Ids : Succeed(c, session)
      BY <1>0, <2>1, SMTT(60), Zenon DEF Points
    <2> QED
      BY <2>1, <2>2, CallGoesOn, SMTT(60), Zenon
  <1>8. CASE CloseRemove(c)
    BY <1>8, CloseRemoveStep
  <1>9. CASE CloseStop(c)
    BY <1>9, CloseStopStep
  <1> QED
    BY <1>1, <1>2, <1>3, <1>4, <1>5, <1>6, <1>7, <1>8, <1>9, SMTT(60), Zenon DEF BatchStep

-----------------------------------------------------------------------------
(* The reaper, the shutdown and the world outside *)

(* The reaper removes a session and keeps it until it is stopped. *)
LEMMA ReapRemoveStep ==
  ASSUME IInv, NEW i \in Ids, ReapRemove(i)
  PROVE  IInv'
  <1> DEFINE found == Found({i})
  <1>0. /\ Typed /\ found \subseteq sessions /\ found \subseteq {i}
        /\ reaper.stop = {} /\ sessions' = sessions \ found
        /\ reaper' = [expired |-> reaper.expired \ {i}, stop |-> found]
        /\ UNCHANGED <<browser, idle, batch, done, closer, racers>>
    BY SMTT(60), Zenon DEF IInv, ReapRemove, Found
  <1>1. reaper'.stop = found /\ reaper' \in [expired : SUBSET Ids, stop : SUBSET Ids]
    BY <1>0, Zenon DEF Typed
  <1> HIDE DEF found
  <1>2. IsFiniteSet(sessions') /\ sessions' \subseteq Ids
    BY <1>0, FewerSessions, SMTT(60), Zenon DEF Typed
  <1>3. Typed'
    BY <1>0, <1>1, <1>2, SMTT(60), Zenon DEF Typed
  <1>4. \A j \in Ids : Stopping(j)' <=> Stopping(j) \/ j \in found
    BY <1>0, <1>1, SMTT(60), Zenon DEF Stopping
  <1>5. browser' = browser /\ racers' = racers /\ batch' = batch
    BY <1>0
  <1> QED
    BY <1>0, <1>3, <1>4, <1>5, Removal, SMTT(60), Zenon

(* The reaper stops what it removed. *)
LEMMA ReapStopStep ==
  ASSUME IInv, NEW i \in Ids, ReapStop(i)
  PROVE  IInv'
  <1>0. /\ Typed /\ i \in reaper.stop
        /\ reaper' = [reaper EXCEPT !.stop = @ \ {i}] /\ Stop({i})
        /\ UNCHANGED <<sessions, idle, batch, closer, racers>>
    BY DEF IInv, ReapStop
  <1>1. reaper'.stop = reaper.stop \ {i} /\ reaper' \in [expired : SUBSET Ids, stop : SUBSET Ids]
    BY <1>0 DEF Typed
  <1>2. browser' \in [Ids -> {"unused", "running", "crashed", "stopped"}]
    BY <1>0 DEF Stop, Typed
  <1>3. Typed'
    BY <1>0, <1>1, <1>2 DEF Typed
  <1>4. PICK halted : halted = {i}
    BY Zenon
  <1>5. \A j \in halted : j \in Ids /\ Stopping(j)
    BY <1>0, <1>4 DEF Stopping
  <1>6. /\ \A j \in Ids : Stopping(j)' => Stopping(j)
        /\ \A j \in Ids : Stopping(j) => Stopping(j)' \/ j \in halted
    BY <1>0, <1>1, <1>4 DEF Stopping
  <1>7. sessions' = sessions /\ racers' = racers /\ batch' = batch /\ Stop(halted)
    BY <1>0, <1>4
  <1> QED
    BY <1>3, <1>5, <1>6, <1>7, Halting

(* The shutdown takes the whole map. *)
LEMMA CloseAllSwapStep ==
  ASSUME IInv, CloseAllSwap
  PROVE  IInv'
  <1>0. /\ Typed /\ closer.stop = {} /\ closer' = [pc |-> "stop", stop |-> sessions] /\ sessions' = {}
        /\ UNCHANGED <<browser, idle, batch, reaper, done, racers>>
    BY SMTT(60), Zenon DEF IInv, Typed, CloseAllSwap
  <1>1. /\ closer'.stop = sessions /\ closer'.pc = "stop"
        /\ closer' \in [pc : {"idle", "swap", "stop"}, stop : SUBSET Ids]
    BY <1>0, SMTT(60), Zenon DEF Typed
  <1>2. Typed'
    BY <1>0, <1>1, FS_EmptySet, SMTT(60), Zenon DEF Typed
  <1>3. \A j \in Ids : Stopping(j)' <=> Stopping(j) \/ j \in sessions
    BY <1>0, <1>1, SMTT(60), Zenon DEF Stopping
  <1>4. sessions' = sessions \ sessions /\ browser' = browser /\ racers' = racers /\ batch' = batch
    BY <1>0, SMTT(60), Zenon
  <1> QED
    BY <1>2, <1>3, <1>4, Removal, SMTT(60), Zenon

(* ... and stops its browsers one by one. *)
LEMMA CloseAllStopStep ==
  ASSUME IInv, NEW i \in Ids, CloseAllStop(i)
  PROVE  IInv'
  <1>0. /\ Typed /\ i \in closer.stop
        /\ closer' = [closer EXCEPT !.stop = @ \ {i}] /\ Stop({i})
        /\ UNCHANGED <<sessions, idle, batch, reaper, racers>>
    BY DEF IInv, CloseAllStop
  <1>1. closer'.stop = closer.stop \ {i} /\ closer' \in [pc : {"idle", "swap", "stop"}, stop : SUBSET Ids]
    BY <1>0 DEF Typed
  <1>2. browser' \in [Ids -> {"unused", "running", "crashed", "stopped"}]
    BY <1>0 DEF Stop, Typed
  <1>3. Typed'
    BY <1>0, <1>1, <1>2 DEF Typed
  <1>4. PICK halted : halted = {i}
    BY Zenon
  <1>5. \A j \in halted : j \in Ids /\ Stopping(j)
    BY <1>0, <1>4 DEF Stopping
  <1>6. /\ \A j \in Ids : Stopping(j)' => Stopping(j)
        /\ \A j \in Ids : Stopping(j) => Stopping(j)' \/ j \in halted
    BY <1>0, <1>1, <1>4, SMTT(60), Zenon DEF Stopping
  <1>7. sessions' = sessions /\ racers' = racers /\ batch' = batch /\ Stop(halted)
    BY <1>0, <1>4
  <1> QED
    BY <1>3, <1>5, <1>6, <1>7, Halting

(* A browser that dies stays in somebody's hands. *)
LEMMA CrashStep ==
  ASSUME IInv, NEW i \in Ids, Crash(i)
  PROVE  IInv'
  <1>0. /\ Typed /\ Held /\ PlaceIsFree /\ browser[i] = "running"
        /\ browser' = [browser EXCEPT ![i] = "crashed"]
        /\ UNCHANGED <<sessions, idle, batch, reaper, done, closer, racers>>
    BY SMTT(60), Zenon DEF IInv, Crash
  <1>1. Typed'
    BY <1>0 DEF Typed
  <1>2. \A j \in Ids : Stopping(j)' <=> Stopping(j)
    BY <1>0 DEF Stopping
  <1>3. \A j \in Ids : browser'[j] = IF j = i THEN "crashed" ELSE browser[j]
    BY <1>0, SMTT(60), Zenon DEF Typed
  <1>4. MapIsAlive' /\ StoppingWasStarted'
    BY <1>0, <1>2, <1>3, SMTT(60), Zenon DEF Held, Typed, MapIsAlive, StoppingWasStarted, Live
  <1>5. InsertsAreOwned'
    <2> SUFFICES ASSUME NEW d \in Batches, batch[d].pc = "insert", NEW j \in batch[d].on
                 PROVE  browser'[j] \in Live /\ ~Stopping(j)'
      BY <1>0 DEF Held, InsertsAreOwned
    <2>1. j \in Ids
      BY <1>0, SMTT(60), Zenon DEF Typed, BatchType
    <2> QED
      BY <1>0, <1>2, <1>3, <2>1, SMTT(60), Zenon DEF Held, InsertsAreOwned, Live
  <1>6. RunningIsHeld'
    BY <1>0, <1>2, <1>3, SMTT(60), Zenon DEF Held, RunningIsHeld
  <1>7. PlaceIsFree'
    BY <1>0 DEF PlaceIsFree, InsideCreate
  <1> QED
    BY <1>1, <1>4, <1>5, <1>6, <1>7, SMTT(60), Zenon DEF IInv, Held

-----------------------------------------------------------------------------
(* Every step keeps the invariant. *)
LEMMA StepInv == IInv /\ [Next]_vars => IInv'
  <1> SUFFICES ASSUME IInv, [Next]_vars PROVE IInv'
    OBVIOUS
  <1>0. Typed
    BY DEF IInv
  <1>1. ASSUME NEW c \in Batches, executeBrowser(c) \/ BatchStep(c) PROVE IInv'
    BY <1>1, CallStep
  <1>2. CASE reapIdle
    <2>1. reaper'.stop = reaper.stop /\ reaper' \in [expired : SUBSET Ids, stop : SUBSET Ids]
      BY <1>0, <1>2 DEF Typed, reapIdle
    <2>2. Typed'
      BY <1>0, <1>2, <2>1 DEF Typed, reapIdle
    <2> QED
      BY <1>2, <2>1, <2>2, QuietStep DEF reapIdle
  <1>3. ASSUME NEW i \in Ids, ReapRemove(i) \/ ReapStop(i) PROVE IInv'
    BY <1>3, ReapRemoveStep, ReapStopStep
  <1>4. CASE CloseAll
    <2>1. /\ closer'.stop = closer.stop /\ closer'.pc = "swap" /\ closer.pc = "idle"
          /\ closer' \in [pc : {"idle", "swap", "stop"}, stop : SUBSET Ids]
      BY <1>0, <1>4 DEF Typed, CloseAll
    <2>2. Typed'
      BY <1>0, <1>4, <2>1 DEF Typed, CloseAll
    <2> QED
      BY <1>4, <2>1, <2>2, QuietStep DEF CloseAll
  <1>5. CASE CloseAllSwap
    BY <1>5, CloseAllSwapStep
  <1>6. ASSUME NEW i \in Ids, CloseAllStop(i) PROVE IInv'
    BY <1>6, CloseAllStopStep
  <1>7. ASSUME NEW i \in Ids, IdleTimeout(i) PROVE IInv'
    <2>1. Typed'
      BY <1>0, <1>7, SMTT(60), Zenon DEF Typed, IdleTimeout
    <2> QED
      BY <1>7, <2>1, QuietStep, SMTT(60), Zenon DEF IdleTimeout
  <1>8. ASSUME NEW i \in Ids, Crash(i) PROVE IInv'
    BY <1>8, CrashStep
  <1>9. CASE UNCHANGED vars
    <2>1. Typed'
      BY <1>0, <1>9 DEF Typed, vars
    <2> QED
      BY <1>9, <2>1, QuietStep, SMTT(60), Zenon DEF vars
  <1> QED
    BY <1>1, <1>2, <1>3, <1>4, <1>5, <1>6, <1>7, <1>8, <1>9, SMTT(60), Zenon DEF Next, Reap

(* The invariant says what is promised. *)
LEMMA InvSuffices == IInv => BrowsersAccountedFor /\ LimitHoldsWithoutRaces
  <1> SUFFICES ASSUME IInv PROVE BrowsersAccountedFor /\ LimitHoldsWithoutRaces
    BY SMTT(60), Zenon
  <1>1. BrowsersAccountedFor
    BY DEF IInv, Held, Typed, RunningIsHeld, MapIsAlive, Stopping, Live, BrowsersAccountedFor
  <1>2. LimitHoldsWithoutRaces
    BY BrowserAssumption DEF IInv, PlaceIsFree, LimitHoldsWithoutRaces
  <1> QED
    BY <1>1, <1>2

(* For any number of calls, sessions and operations, through crashes of the  *)
(* browser, reaping and shutdown: every browser that runs is in the map of   *)
(* the manager or in the hands of somebody who will put it there or stop it, *)
(* and no session in the map has been stopped (Create, Close, reapIdle,      *)
(* CloseAll).                                                                *)
THEOREM NoBrowserIsLost == Spec => []BrowsersAccountedFor
  <1>1. IInv => BrowsersAccountedFor
    BY InvSuffices
  <1> QED
    BY InitInv, StepInv, <1>1, PTL DEF Spec

(* MaxSessions holds for any limit as long as no two calls are inside Create *)
(* at the same time: what is missing is only that the check and the          *)
(* insertion are one step (Create).                                          *)
THEOREM LimitIsKept == Spec => []LimitHoldsWithoutRaces
  <1>1. IInv => LimitHoldsWithoutRaces
    BY InvSuffices
  <1> QED
    BY InitInv, StepInv, <1>1, PTL DEF Spec

-----------------------------------------------------------------------------
(* The phone *)

(* P!CallsAccountedFor does not say who has a call in hand.  InHand adds     *)
(* that this is a tool call between its dial and the registry, or between    *)
(* the registry and the end of the call, that it has exactly one, and that   *)
(* nobody else has it: no entry and no other tool call.                      *)

CallEntries == [call : Nat, state : {"active", "ended"}]

CallsTyped ==
  /\ dialog \in Seq({"up", "over", "left"}) /\ agent \subseteq 1..Len(dialog)
  /\ seq \in Nat /\ DOMAIN calls \subseteq 1..seq /\ calls \in [DOMAIN calls -> CallEntries]
  /\ user = [u \in Users |-> user[u]]
  /\ \A u \in Users : "pc" \in DOMAIN user[u] /\ "on" \in DOMAIN user[u]

(* Nobody but u has the call k. *)
OnlyHolder(cs, us, u, k) ==
  /\ \A id \in DOMAIN cs : cs[id].call # k
  /\ \A v \in Users \ {u} : k \notin us[v].on

InHand ==
  \A u \in Users :
    \/ user[u].pc \notin {"add", "hangup"} /\ user[u].on = {}
    \/ user[u].pc \in {"add", "hangup"} /\ \E k \in agent : user[u].on = {k} /\ OnlyHolder(calls, user, u, k)

CallsInv == CallsTyped /\ InHand /\ P!CallsAccountedFor

(* The lists of the tool calls are changed with their points, nothing else. *)
LEMMA UserMoves ==
  ASSUME CallsTyped, NEW u \in Users, NEW pc, NEW on, NEW ops,
         \/ P!Step(u, pc, on)
         \/ user' = [user EXCEPT ![u] = [pc |-> pc, ops |-> ops, on |-> on]]
  PROVE  /\ user' = [v \in Users |-> user'[v]]
         /\ \A v \in Users : "pc" \in DOMAIN user'[v] /\ "on" \in DOMAIN user'[v]
         /\ user'[u].pc = pc /\ user'[u].on = on
         /\ \A v \in Users \ {u} : user'[v] = user[v]
<1>1. user = [v \in Users |-> user[v]] /\ \A v \in Users : "pc" \in DOMAIN user[v] /\ "on" \in DOMAIN user[v]
  BY DEF CallsTyped
<1>2. CASE P!Step(u, pc, on)
  <2>1. user' = [user EXCEPT ![u] = [user[u] EXCEPT !.pc = pc, !.on = on]]
    BY <1>2, Zenon DEF P!Step
  <2> DEFINE r == [user[u] EXCEPT !.pc = pc, !.on = on]
  <2>2. "pc" \in DOMAIN r /\ "on" \in DOMAIN r /\ r.pc = pc /\ r.on = on
    BY <1>1
  <2> HIDE DEF r
  <2> QED
    BY <1>1, <2>1, <2>2, Zenon DEF r
<1>3. CASE user' = [user EXCEPT ![u] = [pc |-> pc, ops |-> ops, on |-> on]]
  BY <1>1, <1>3
<1> QED
  BY <1>2, <1>3

(* A tool call that has nothing in hand goes on with nothing in hand. *)
LEMMA UserPasses ==
  ASSUME CallsInv, NEW u \in Users, user[u].pc \notin {"add", "hangup"},
         NEW pc, NEW ops, pc \notin {"add", "hangup"},
         \/ P!Step(u, pc, {})
         \/ user' = [user EXCEPT ![u] = [pc |-> pc, ops |-> ops, on |-> {}]],
         dialog' = dialog, agent' = agent, calls' = calls, seq' = seq
  PROVE  CallsInv'
<1>1. /\ user' = [v \in Users |-> user'[v]]
      /\ \A v \in Users : "pc" \in DOMAIN user'[v] /\ "on" \in DOMAIN user'[v]
      /\ user'[u].pc = pc /\ user'[u].on = {}
      /\ \A v \in Users \ {u} : user'[v] = user[v]
  BY UserMoves, Zenon DEF CallsInv
<1>2. user[u].on = {}
  BY DEF CallsInv, InHand
<1>3. CallsTyped'
  BY <1>1, Zenon DEF CallsInv, CallsTyped
<1>4. \A v \in Users : user'[v].on = user[v].on
  BY <1>1, <1>2, Zenon
<1>5. InHand'
  BY <1>1, <1>4, SMTT(60), Zenon DEF CallsInv, InHand, OnlyHolder
<1>6. P!CallsAccountedFor'
  BY <1>4 DEF CallsInv, P!CallsAccountedFor
<1> QED
  BY <1>3, <1>5, <1>6 DEF CallsInv

(* An answered dial has its call in hand. *)
LEMMA DialStep ==
  ASSUME CallsInv, NEW u \in Users, P!Dial(u)
  PROVE  CallsInv'
<1> DEFINE k == Len(dialog) + 1
<1>1. /\ user[u].pc = "dial" /\ dialog' = Append(dialog, "up")
      /\ agent' = agent \cup {Len(dialog')} /\ P!Step(u, "add", {Len(dialog')}) /\ calls' = calls /\ seq' = seq
  BY DEF P!Dial
<1>2. dialog \in Seq({"up", "over", "left"}) /\ agent \subseteq 1..Len(dialog)
  BY DEF CallsInv, CallsTyped
<1>3. /\ dialog' \in Seq({"up", "over", "left"}) /\ Len(dialog') = k /\ DOMAIN dialog = 1..Len(dialog)
      /\ DOMAIN dialog' = DOMAIN dialog \cup {k} /\ \A i \in DOMAIN dialog : dialog'[i] = dialog[i]
      /\ k \notin agent /\ agent \subseteq 1..k
  BY <1>1, <1>2
<1> HIDE DEF k
<1>4. agent' = agent \cup {k} /\ P!Step(u, "add", {k})
  BY <1>1, <1>3, Zenon
<1>5. /\ user' = [v \in Users |-> user'[v]]
      /\ \A v \in Users : "pc" \in DOMAIN user'[v] /\ "on" \in DOMAIN user'[v]
      /\ user'[u].pc = "add" /\ user'[u].on = {k}
      /\ \A v \in Users \ {u} : user'[v] = user[v]
  BY <1>4, UserMoves, Zenon DEF CallsInv
<1>6. \A id \in DOMAIN calls : calls[id].call \in agent
  BY DEF CallsInv, P!CallsAccountedFor
<1>7. user[u].on = {} /\ \A v \in Users : user[v].on \subseteq agent
  BY <1>1 DEF CallsInv, InHand
<1>8. CallsTyped'
  <2>1. agent' \subseteq 1..Len(dialog')
    <3>1. k \in 1..k
      BY <1>2 DEF k
    <3> QED
      BY <1>3, <1>4, <3>1, Zenon
  <2> QED
    BY <1>1, <1>3, <1>5, <2>1 DEF CallsInv, CallsTyped
<1>9. OnlyHolder(calls', user', u, k)
  BY <1>1, <1>3, <1>5, <1>6, <1>7, SMTT(60), Zenon DEF OnlyHolder
<1>10. InHand'
  <2> SUFFICES ASSUME NEW v \in Users
               PROVE  \/ user'[v].pc \notin {"add", "hangup"} /\ user'[v].on = {}
                      \/ user'[v].pc \in {"add", "hangup"} /\ \E j \in agent' : user'[v].on = {j} /\ OnlyHolder(calls', user', v, j)
    BY DEF InHand
  <2>1. CASE v = u
    BY <1>4, <1>5, <1>9, <2>1, SMTT(60), Zenon
  <2>2. CASE v # u
    <3>1. user'[v] = user[v]
      BY <1>5, <2>2
    <3>2. ASSUME NEW j \in agent, OnlyHolder(calls, user, v, j)
          PROVE  OnlyHolder(calls', user', v, j)
      BY <1>1, <1>3, <1>5, <3>2, SMTT(60), Zenon DEF OnlyHolder
    <3> QED
      BY <1>4, <3>1, <3>2 DEF CallsInv, InHand
  <2> QED
    BY <2>1, <2>2, SMTT(60), Zenon
<1>11. P!CallsAccountedFor'
  <2>1. \A i \in DOMAIN dialog' : /\ dialog'[i] = "up" => i \in agent'
                                /\ dialog'[i] = "left" => i \notin agent'
    <3>1. \A i \in DOMAIN dialog : /\ dialog[i] = "up" => i \in agent
                                  /\ dialog[i] = "left" => i \notin agent
      BY Zenon DEF CallsInv, P!CallsAccountedFor
    <3>2. dialog'[k] = "up" /\ k \notin DOMAIN dialog
      BY <1>1, <1>2, SMTT(60), Zenon DEF k
    <3> QED
      BY <1>3, <1>4, <3>1, <3>2, SMTT(60), Zenon
  <2>2. \A i \in agent' : \/ \E id \in DOMAIN calls' : calls'[id].call = i
                         \/ \E v \in Users : i \in user'[v].on
    <3>1. \A v \in Users : user[v].on \subseteq user'[v].on
      BY <1>5, <1>7
    <3> QED
      BY <1>1, <1>4, <1>5, <3>1, SMTT(60), Zenon DEF CallsInv, P!CallsAccountedFor
  <2>3. \A id \in DOMAIN calls : calls[id].call \in DOMAIN dialog
    BY <1>2, <1>3, <1>6, Zenon
  <2>4. \A id \in DOMAIN calls' :
          /\ calls'[id].call \in agent'
          /\ calls'[id].state = "ended" => dialog'[calls'[id].call] = "over"
          /\ \A other \in DOMAIN calls' \ {id} : calls'[other].call # calls'[id].call
    BY <1>1, <1>3, <1>4, <2>3 DEF CallsInv, P!CallsAccountedFor
  <2> QED
    BY <2>1, <2>2, <2>4, SMTT(60), Zenon DEF P!CallsAccountedFor
<1> QED
  BY <1>8, <1>10, <1>11 DEF CallsInv

(* A call in hand goes into the registry. *)
LEMMA AddStep ==
  ASSUME CallsInv, NEW u \in Users, P!add(u)
  PROVE  CallsInv'
<1>1. user[u].pc = "add" /\ seq' = seq + 1 /\ dialog' = dialog /\ agent' = agent /\ P!Continue(u)
  BY DEF P!add
<1>2. PICK k \in agent : user[u].on = {k} /\ OnlyHolder(calls, user, u, k)
  BY <1>1 DEF CallsInv, InHand
<1>3. /\ seq \in Nat /\ DOMAIN calls \subseteq 1..seq /\ calls \in [DOMAIN calls -> CallEntries]
      /\ dialog \in Seq({"up", "over", "left"}) /\ agent \subseteq 1..Len(dialog)
  BY SMTT(60), Zenon DEF CallsInv, CallsTyped
<1> DEFINE n == seq + 1
           entry == [call |-> k, state |-> "active"]
<1>4. calls' = [id \in DOMAIN calls \cup {n} |-> IF id = n THEN entry ELSE calls[id]]
  BY <1>1, <1>2 DEF P!add
<1>5. n \notin DOMAIN calls /\ k \in Nat /\ n \in Nat /\ DOMAIN calls \cup {n} \subseteq 1..n
  BY <1>3
<1>6. entry \in CallEntries /\ entry.call = k /\ entry.state = "active"
  BY <1>5 DEF CallEntries
<1> HIDE DEF n, entry
<1>7. /\ DOMAIN calls' = DOMAIN calls \cup {n} /\ calls'[n] = entry /\ calls' \in [DOMAIN calls' -> CallEntries]
      /\ \A id \in DOMAIN calls : calls'[id] = calls[id] /\ id # n
  BY <1>3, <1>4, <1>5, <1>6
<1>8. user' = [user EXCEPT ![u] = [pc |-> "next", ops |-> Tail(user[u].ops), on |-> {}]]
  BY <1>1, Zenon DEF P!Continue
<1>9. /\ user' = [v \in Users |-> user'[v]]
      /\ \A v \in Users : "pc" \in DOMAIN user'[v] /\ "on" \in DOMAIN user'[v]
      /\ user'[u].pc = "next" /\ user'[u].on = {}
      /\ \A v \in Users \ {u} : user'[v] = user[v]
  BY <1>8, UserMoves, Zenon DEF CallsInv
<1>10. CallsTyped'
  <2>1. seq' = n
    BY <1>1, SMTT(60), Zenon DEF n
  <2> QED
    BY <1>1, <1>3, <1>5, <1>7, <1>9, <2>1, SMTT(60), Zenon DEF CallsTyped
<1>11. InHand'
  <2> SUFFICES ASSUME NEW v \in Users
               PROVE  \/ user'[v].pc \notin {"add", "hangup"} /\ user'[v].on = {}
                      \/ user'[v].pc \in {"add", "hangup"}
                         /\ \E j \in agent' : user'[v].on = {j} /\ OnlyHolder(calls', user', v, j)
    BY DEF InHand
  <2>1. CASE v = u
    BY <1>9, <2>1, SMTT(60), Zenon
  <2>2. CASE v # u
    <3>1. user'[v] = user[v]
      BY <1>9, <2>2
    <3>2. ASSUME NEW j \in agent, user[v].on = {j}, OnlyHolder(calls, user, v, j)
          PROVE  OnlyHolder(calls', user', v, j)
      <4>1. j # k
        BY <1>2, <2>2, <3>2 DEF OnlyHolder
      <4>2. \A id \in DOMAIN calls' : calls'[id].call # j
        BY <1>6, <1>7, <3>2, <4>1, SMTT(60), Zenon DEF OnlyHolder
      <4>3. \A w \in Users \ {v} : j \notin user'[w].on
        BY <1>9, <3>2, SMTT(60), Zenon DEF OnlyHolder
      <4> QED
        BY <4>2, <4>3 DEF OnlyHolder
    <3> QED
      BY <1>1, <3>1, <3>2 DEF CallsInv, InHand
  <2> QED
    BY <2>1, <2>2, SMTT(60), Zenon
<1>12. P!CallsAccountedFor'
  <2>1. \A i \in DOMAIN dialog' : /\ dialog'[i] = "up" => i \in agent'
                                /\ dialog'[i] = "left" => i \notin agent'
    BY <1>1, SMTT(60), Zenon DEF CallsInv, P!CallsAccountedFor
  <2>2. ASSUME NEW i \in agent'
        PROVE  \/ \E id \in DOMAIN calls' : calls'[id].call = i
               \/ \E v \in Users : i \in user'[v].on
    <3>1. CASE i = k
      BY <1>6, <1>7, <3>1
    <3>2. CASE \E id \in DOMAIN calls : calls[id].call = i
      BY <1>7, <3>2
    <3>3. CASE i # k /\ \E v \in Users : i \in user[v].on
      BY <1>2, <1>9, <3>3, SMTT(60), Zenon
    <3> QED
      BY <1>1, <3>1, <3>2, <3>3, SMTT(60), Zenon DEF CallsInv, P!CallsAccountedFor
  <2>3. ASSUME NEW id \in DOMAIN calls'
        PROVE  /\ calls'[id].call \in agent'
               /\ calls'[id].state = "ended" => dialog'[calls'[id].call] = "over"
               /\ \A other \in DOMAIN calls' \ {id} : calls'[other].call # calls'[id].call
    <3>1. CASE id = n
      <4>1. \A other \in DOMAIN calls : calls'[other].call # k
        BY <1>2, <1>7, SMTT(60), Zenon DEF OnlyHolder
      <4> QED
        BY <1>1, <1>6, <1>7, <3>1, <4>1, SMTT(60), Zenon
    <3>2. CASE id \in DOMAIN calls
      <4>1. calls'[id] = calls[id] /\ calls[id].call # k
        BY <1>2, <1>7, <3>2, SMTT(60), Zenon DEF OnlyHolder
      <4>2. \A other \in DOMAIN calls \ {id} : calls'[other].call # calls[id].call
        BY <1>7, <3>2 DEF CallsInv, P!CallsAccountedFor
      <4>3. calls'[n].call = k
        BY <1>6, <1>7
      <4> QED
        BY <1>1, <1>7, <3>2, <4>1, <4>2, <4>3, SMTT(60), Zenon DEF CallsInv, P!CallsAccountedFor
    <3> QED
      BY <1>7, <3>1, <3>2
  <2> QED
    BY <2>1, <2>2, <2>3, SMTT(60), Zenon DEF P!CallsAccountedFor
<1> QED
  BY <1>10, <1>11, <1>12, SMTT(60), Zenon DEF CallsInv

(* Only an entry leaves the registry, and its call comes into hand. *)
LEMMA TakeStep ==
  ASSUME CallsInv, NEW u \in Users, user[u].pc \notin {"add", "hangup"}, NEW id \in DOMAIN calls,
         calls' = [i \in DOMAIN calls \ {id} |-> calls[i]], P!Step(u, "hangup", {calls[id].call}),
         dialog' = dialog, agent' = agent, seq' = seq
  PROVE  CallsInv'
<1> DEFINE k == calls[id].call
<1>1. k \in agent /\ \A other \in DOMAIN calls \ {id} : calls[other].call # k
  BY DEF CallsInv, P!CallsAccountedFor
<1>2. P!Step(u, "hangup", {k})
  OBVIOUS
<1>3. user[u].on = {} /\ \A v \in Users : k \notin user[v].on
  BY DEF CallsInv, InHand, OnlyHolder
<1>4. /\ DOMAIN calls' = DOMAIN calls \ {id}
      /\ \A i \in DOMAIN calls' : calls'[i] = calls[i] /\ calls[i].call # k
  BY <1>1
<1>5. calls' \in [DOMAIN calls' -> CallEntries]
  BY <1>4, SMTT(60), Zenon DEF CallsInv, CallsTyped
<1>0. \A i \in agent : i # k /\ (\E c \in DOMAIN calls : calls[c].call = i) => \E c \in DOMAIN calls' : calls'[c].call = i
  BY <1>4
<1> HIDE DEF k
<1>6. /\ user' = [v \in Users |-> user'[v]]
      /\ \A v \in Users : "pc" \in DOMAIN user'[v] /\ "on" \in DOMAIN user'[v]
      /\ user'[u].pc = "hangup" /\ user'[u].on = {k}
      /\ \A v \in Users \ {u} : user'[v] = user[v]
  BY <1>2, UserMoves, Zenon DEF CallsInv
<1>7. CallsTyped'
  BY <1>4, <1>5, <1>6, SMTT(60), Zenon DEF CallsInv, CallsTyped
<1>8. OnlyHolder(calls', user', u, k)
  BY <1>3, <1>4, <1>6, SMTT(60), Zenon DEF OnlyHolder
<1>9. InHand'
  <2> SUFFICES ASSUME NEW v \in Users
               PROVE  \/ user'[v].pc \notin {"add", "hangup"} /\ user'[v].on = {}
                      \/ user'[v].pc \in {"add", "hangup"}
                         /\ \E j \in agent' : user'[v].on = {j} /\ OnlyHolder(calls', user', v, j)
    BY DEF InHand
  <2>1. CASE v = u
    BY <1>1, <1>6, <1>8, <2>1, SMTT(60), Zenon
  <2>2. CASE v # u
    <3>1. user'[v] = user[v]
      BY <1>6, <2>2
    <3>2. ASSUME NEW j \in agent, user[v].on = {j}, OnlyHolder(calls, user, v, j)
          PROVE  OnlyHolder(calls', user', v, j)
      <4>1. j # k
        BY <1>3, <3>2
      <4>2. \A i \in DOMAIN calls' : calls'[i].call # j
        BY <1>4, <3>2 DEF OnlyHolder
      <4>3. \A w \in Users \ {v} : j \notin user'[w].on
        BY <1>6, <3>2, <4>1 DEF OnlyHolder
      <4> QED
        BY <4>2, <4>3 DEF OnlyHolder
    <3> QED
      BY <3>1, <3>2, Zenon DEF CallsInv, InHand
  <2> QED
    BY <2>1, <2>2, SMTT(60), Zenon
<1>10. P!CallsAccountedFor'
  <2>1. \A i \in DOMAIN dialog' : /\ dialog'[i] = "up" => i \in agent'
                                /\ dialog'[i] = "left" => i \notin agent'
    BY SMTT(60), Zenon DEF CallsInv, P!CallsAccountedFor
  <2>2. ASSUME NEW i \in agent'
        PROVE  \/ \E c \in DOMAIN calls' : calls'[c].call = i
               \/ \E v \in Users : i \in user'[v].on
    <3>1. CASE i = k
      BY <1>6, <3>1, SMTT(60), Zenon
    <3>2. CASE i # k /\ \E c \in DOMAIN calls : calls[c].call = i
      BY <1>0, <3>2, SMTT(60), Zenon
    <3>3. CASE \E v \in Users : i \in user[v].on
      BY <1>3, <1>6, <3>3, SMTT(60), Zenon
    <3> QED
      BY <3>1, <3>2, <3>3 DEF CallsInv, P!CallsAccountedFor
  <2>3. \A c \in DOMAIN calls' :
          /\ calls'[c].call \in agent'
          /\ calls'[c].state = "ended" => dialog'[calls'[c].call] = "over"
          /\ \A other \in DOMAIN calls' \ {c} : calls'[other].call # calls'[c].call
    BY <1>4, SMTT(60), Zenon DEF CallsInv, P!CallsAccountedFor
  <2> QED
    BY <2>1, <2>2, <2>3, SMTT(60), Zenon DEF P!CallsAccountedFor
<1> QED
  BY <1>7, <1>9, <1>10, SMTT(60), Zenon DEF CallsInv

(* The call in hand is ended and its user agent closed. *)
LEMMA HangupStep ==
  ASSUME CallsInv, NEW u \in Users, P!Hangup(u)
  PROVE  CallsInv'
<1>1. user[u].pc = "hangup" /\ calls' = calls /\ seq' = seq /\ P!Continue(u)
  BY SMTT(60), Zenon DEF P!Hangup
<1>2. PICK k \in agent : user[u].on = {k} /\ OnlyHolder(calls, user, u, k)
  BY <1>1, SMTT(60), Zenon DEF CallsInv, InHand
<1>3. PICK end \in {"over", "left"} :
        /\ dialog' = [i \in DOMAIN dialog |-> IF i = k /\ dialog[i] = "up" THEN end ELSE dialog[i]]
        /\ agent' = agent \ {k}
  BY <1>2 DEF P!Hangup
<1>4. dialog \in Seq({"up", "over", "left"}) /\ agent \subseteq 1..Len(dialog)
  BY DEF CallsInv, CallsTyped
<1>5. /\ dialog' \in Seq({"up", "over", "left"}) /\ Len(dialog') = Len(dialog) /\ DOMAIN dialog' = DOMAIN dialog
      /\ DOMAIN dialog = 1..Len(dialog)
      /\ \A i \in DOMAIN dialog : dialog'[i] = IF i = k /\ dialog[i] = "up" THEN end ELSE dialog[i]
  BY <1>3, <1>4
<1>6. user' = [user EXCEPT ![u] = [pc |-> "next", ops |-> Tail(user[u].ops), on |-> {}]]
  BY <1>1, Zenon DEF P!Continue
<1>7. /\ user' = [v \in Users |-> user'[v]]
      /\ \A v \in Users : "pc" \in DOMAIN user'[v] /\ "on" \in DOMAIN user'[v]
      /\ user'[u].pc = "next" /\ user'[u].on = {}
      /\ \A v \in Users \ {u} : user'[v] = user[v]
  BY <1>6, UserMoves, Zenon DEF CallsInv
<1>8. CallsTyped'
  BY <1>1, <1>3, <1>4, <1>5, <1>7, Zenon, SMTT(60) DEF CallsInv, CallsTyped
<1>9. InHand'
  <2> SUFFICES ASSUME NEW v \in Users
               PROVE  \/ user'[v].pc \notin {"add", "hangup"} /\ user'[v].on = {}
                      \/ user'[v].pc \in {"add", "hangup"}
                         /\ \E j \in agent' : user'[v].on = {j} /\ OnlyHolder(calls', user', v, j)
    BY DEF InHand
  <2>1. CASE v = u
    BY <1>7, <2>1
  <2>2. CASE v # u
    <3>1. user'[v] = user[v]
      BY <1>7, <2>2
    <3>2. ASSUME NEW j \in agent, user[v].on = {j}, OnlyHolder(calls, user, v, j)
          PROVE  j \in agent' /\ OnlyHolder(calls', user', v, j)
      <4>1. j # k
        BY <1>2, <2>2, <3>2 DEF OnlyHolder
      <4>2. \A w \in Users \ {v} : j \notin user'[w].on
        BY <1>7, <3>2 DEF OnlyHolder
      <4> QED
        BY <1>1, <1>3, <3>2, <4>1, <4>2, Zenon, SMTT(60) DEF OnlyHolder
    <3> QED
      BY <3>1, <3>2, SMTT(60), Zenon DEF CallsInv, InHand
  <2> QED
    BY <2>1, <2>2
<1>10. P!CallsAccountedFor'
  <2>1. \A i \in DOMAIN dialog' : /\ dialog'[i] = "up" => i \in agent'
                                /\ dialog'[i] = "left" => i \notin agent'
    BY <1>3, <1>5, SMTT(60), Zenon DEF CallsInv, P!CallsAccountedFor
  <2>2. ASSUME NEW i \in agent'
        PROVE  \/ \E c \in DOMAIN calls' : calls'[c].call = i
               \/ \E v \in Users : i \in user'[v].on
    <3>1. i \in agent /\ i # k
      BY <1>3
    <3>2. CASE \E v \in Users : i \in user[v].on
      BY <1>2, <1>7, <3>1, <3>2, SMTT(60), Zenon
    <3> QED
      BY <1>1, <3>1, <3>2 DEF CallsInv, P!CallsAccountedFor
  <2>3. ASSUME NEW c \in DOMAIN calls'
        PROVE  /\ calls'[c].call \in agent'
               /\ calls'[c].state = "ended" => dialog'[calls'[c].call] = "over"
               /\ \A other \in DOMAIN calls' \ {c} : calls'[other].call # calls'[c].call
    <3>1. calls[c].call \in agent /\ calls[c].call # k
      BY <1>1, <1>2 DEF CallsInv, P!CallsAccountedFor, OnlyHolder
    <3>2. dialog'[calls[c].call] = dialog[calls[c].call]
      BY <1>4, <1>5, <3>1, Zenon
    <3> QED
      BY <1>1, <1>3, <3>1, <3>2, SMTT(60), Zenon DEF CallsInv, P!CallsAccountedFor
  <2> QED
    BY <2>1, <2>2, <2>3 DEF P!CallsAccountedFor
<1> QED
  BY <1>8, <1>9, <1>10 DEF CallsInv

(* The far end ends a call, whoever has it. *)
LEMMA RemoteStep ==
  ASSUME CallsInv, NEW k \in DOMAIN dialog, P!RemoteHangup(k)
  PROVE  CallsInv'
<1>1. /\ dialog' = [dialog EXCEPT ![k] = "over"]
      /\ agent' = agent /\ calls' = calls /\ seq' = seq /\ user' = user
  BY DEF P!RemoteHangup
<1>2. dialog \in Seq({"up", "over", "left"}) /\ agent \subseteq 1..Len(dialog)
  BY DEF CallsInv, CallsTyped
<1>3. /\ dialog' \in Seq({"up", "over", "left"}) /\ Len(dialog') = Len(dialog) /\ DOMAIN dialog' = DOMAIN dialog
      /\ DOMAIN dialog = 1..Len(dialog)
      /\ \A i \in DOMAIN dialog : dialog'[i] = "over" \/ dialog'[i] = dialog[i]
  BY <1>1, <1>2, SMTT(60), Zenon
<1>4. CallsTyped' /\ InHand'
  BY <1>1, <1>2, <1>3, SMTT(60), Zenon DEF CallsInv, CallsTyped, InHand
<1>5. P!CallsAccountedFor'
  <2>1. \A id \in DOMAIN calls : calls[id].call \in DOMAIN dialog
    BY <1>2, <1>3, Zenon DEF CallsInv, P!CallsAccountedFor
  <2> QED
    BY <1>1, <1>3, <2>1 DEF CallsInv, P!CallsAccountedFor
<1> QED
  BY <1>4, <1>5 DEF CallsInv

(* The registry notes that a call is over. *)
LEMMA WatchStep ==
  ASSUME CallsInv, NEW id \in DOMAIN calls, P!Watch(id)
  PROVE  CallsInv'
<1>1. /\ dialog[calls[id].call] = "over" /\ calls' = [calls EXCEPT ![id].state = "ended"]
      /\ dialog' = dialog /\ agent' = agent /\ seq' = seq /\ user' = user
  BY DEF P!Watch
<1>2. calls \in [DOMAIN calls -> CallEntries]
  BY DEF CallsInv, CallsTyped
<1>3. /\ DOMAIN calls' = DOMAIN calls /\ calls' \in [DOMAIN calls -> CallEntries]
      /\ \A c \in DOMAIN calls : /\ calls'[c].call = calls[c].call
                                /\ calls'[c].state = IF c = id THEN "ended" ELSE calls[c].state
  BY <1>1, <1>2 DEF CallEntries
<1>4. CallsTyped' /\ InHand'
  BY <1>1, <1>3, SMTT(60), Zenon DEF CallsInv, CallsTyped, InHand, OnlyHolder
<1>5. P!CallsAccountedFor'
  BY <1>1, <1>3 DEF CallsInv, P!CallsAccountedFor
<1> QED
  BY <1>4, <1>5 DEF CallsInv

(* Whatever the interleaving of dials, hangups and the far end, no user      *)
(* agent is lost, and no call but one whose own hangup failed to send its    *)
(* BYE (callRegistry.add, remove; sipCall.Hangup).                           *)
THEOREM CallsAreKept == P!Spec => []P!CallsAccountedFor
<1>1. P!Init => CallsInv
  BY DEF P!Init, CallsInv, CallsTyped, InHand, P!CallsAccountedFor, CallEntries
<1>2. CallsInv /\ [P!Next]_(P!vars) => CallsInv'
  <2> SUFFICES ASSUME CallsInv, [P!Next]_(P!vars)
               PROVE  CallsInv'
    OBVIOUS
  <2>1. ASSUME NEW u \in Users, P!executeOps(u)
        PROVE  CallsInv'
    <3>1. PICK ops \in Lists : user' = [user EXCEPT ![u] = [pc |-> "next", ops |-> ops, on |-> {}]]
      BY <2>1, Zenon DEF P!executeOps
    <3>2. /\ user[u].pc \notin {"add", "hangup"} /\ "next" \notin {"add", "hangup"}
          /\ dialog' = dialog /\ agent' = agent /\ calls' = calls /\ seq' = seq
      BY <2>1 DEF P!executeOps
    <3> QED
      BY <3>1, <3>2, UserPasses, Zenon
  <2>2. ASSUME NEW u \in Users, user[u].pc \notin {"add", "hangup"}, P!Continue(u),
               UNCHANGED <<dialog, agent, calls, seq>>
        PROVE  CallsInv'
    <3>1. user' = [user EXCEPT ![u] = [pc |-> "next", ops |-> Tail(user[u].ops), on |-> {}]]
      BY <2>2, Zenon DEF P!Continue
    <3> QED
      BY <2>2, <3>1, UserPasses, Zenon
  <2>3. ASSUME NEW u \in Users, P!executeDial(u)
        PROVE  CallsInv'
    <3>1. user[u].pc = "next" /\ UNCHANGED <<dialog, agent, calls, seq>>
      BY <2>3 DEF P!executeDial, P!Doing
    <3>2. CASE P!Step(u, "dial", {})
      <4>1. /\ user[u].pc \notin {"add", "hangup"} /\ "dial" \notin {"add", "hangup"}
            /\ dialog' = dialog /\ agent' = agent /\ calls' = calls /\ seq' = seq
        BY <3>1
      <4> QED
        BY <3>2, <4>1, UserPasses, Zenon
    <3>3. CASE P!Continue(u)
      BY <2>2, <3>1, <3>3, SMTT(60), Zenon
    <3> QED
      BY <2>3, <3>2, <3>3, SMTT(60), Zenon DEF P!executeDial
  <2>4. ASSUME NEW u \in Users, P!executeHangup(u)
        PROVE  CallsInv'
    <3> DEFINE id == Head(user[u].ops).id
    <3>1. user[u].pc = "next" /\ dialog' = dialog /\ agent' = agent /\ seq' = seq
      BY <2>4, SMTT(60), Zenon DEF P!executeHangup, P!Doing
    <3>2. CASE id \in DOMAIN calls
      <4>1. calls' = [i \in DOMAIN calls \ {id} |-> calls[i]] /\ P!Step(u, "hangup", {calls[id].call})
        BY <2>4, <3>2, SMTT(60), Zenon DEF P!executeHangup
      <4> QED
        BY <3>1, <3>2, <4>1, TakeStep, SMTT(60), Zenon
    <3>3. CASE id \notin DOMAIN calls
      <4>1. P!Continue(u) /\ calls' = calls
        BY <2>4, <3>3, SMTT(60), Zenon DEF P!executeHangup
      <4> QED
        BY <2>2, <3>1, <4>1
    <3> QED
      BY <3>2, <3>3
  <2>5. ASSUME NEW u \in Users, P!DialFails(u) \/ P!executeStatus(u)
        PROVE  CallsInv'
    BY <2>2, <2>5, SMTT(60), Zenon DEF P!DialFails, P!executeStatus, P!Doing
  <2>6. CASE UNCHANGED P!vars
    BY <2>6, SMTT(60), Zenon DEF P!vars, CallsInv, CallsTyped, InHand, OnlyHolder, P!CallsAccountedFor
  <2> QED
    BY <2>1, <2>3, <2>4, <2>5, <2>6, DialStep, AddStep, HangupStep, RemoteStep, WatchStep DEF P!Next
<1>3. CallsInv => P!CallsAccountedFor
  BY DEF CallsInv
<1> QED
  BY <1>1, <1>2, <1>3, PTL DEF P!Spec

=============================================================================
