------------------------------ MODULE Browser ------------------------------
(***************************************************************************)
(* The browser tool (plugins/browserplugin): a manager of browser          *)
(* sessions, calls that carry out a batch of operations each, the idle     *)
(* reaper and the plugin's shutdown.  The manager's mutex is held for one  *)
(* look or one change at a time; starting and stopping a browser happens   *)
(* outside it, so these are steps of their own.                            *)
(*                                                                         *)
(* A session is its id.  An operation other than open and close works on   *)
(* the page of a session that was looked up before: all thirteen of them   *)
(* have the same shape and differ in the arguments they require.  What the *)
(* page answers is a free choice.                                          *)
(***************************************************************************)
EXTENDS Integers, Sequences, FiniteSets

CONSTANTS Batches,      \* the calls of the tool, each made once
          Ids,          \* the ids that generateSessionID can return
          Scripts,      \* the operations a call may list
          MaxSessions   \* 0: no limit

VARIABLES sessions, \* the manager's map: the ids in it
          browser,  \* id -> what became of its browser
          idle,     \* ids not used for longer than the idle timeout
          batch,    \* call -> its state
          reaper,   \* the reaper's state
          done,     \* the manager's done channel is closed
          closer,   \* the state of CloseAll
          racers    \* calls that found another inside Create (history)

vars == <<sessions, browser, idle, batch, reaper, done, closer, racers>>

PageOperations == {"navigate", "click", "type", "select", "read", "screenshot", "evaluate",
                   "wait", "scroll", "hover", "pdf", "back", "forward"}

(* The arguments an operation cannot do without; text is not needed to *)
(* clear a field.                                                      *)
Requires(op) ==
  CASE op.do = "navigate" -> {"url"}
    [] op.do \in {"click", "wait", "hover"} -> {"selector"}
    [] op.do = "type" -> {"selector"} \cup (IF "clear" \in op.with THEN {} ELSE {"text"})
    [] op.do = "select" -> {"selector", "values"}
    [] op.do = "evaluate" -> {"expression"}
    [] OTHER -> {}

(* An operation and the arguments it is given. *)
Operations == [do : STRING, with : SUBSET STRING]

ASSUME BrowserAssumption == MaxSessions \in Nat /\ Scripts \subseteq Seq(Operations)

-----------------------------------------------------------------------------
(* A call: where it is, the operations that are left, its session if it *)
(* has one, and the session it creates, uses or closes just now.        *)

NotMade == [pc |-> "idle", ops |-> <<>>, session |-> {}, on |-> {}]
Refused == [pc |-> "done", ops |-> <<>>, session |-> {}, on |-> {}]

Init == /\ sessions = {}
        /\ browser = [i \in Ids |-> "unused"]
        /\ idle = {}
        /\ batch = [c \in Batches |-> NotMade]
        /\ reaper = [expired |-> {}, stop |-> {}]
        /\ done = FALSE
        /\ closer = [pc |-> "idle", stop |-> {}]
        /\ racers = {}

At(c, pc) == batch[c].pc = pc
Op(c) == Head(batch[c].ops)

(* Get: the lookup and the touch after it. *)
Found(given) == given \cap sessions
touch(found) == idle' = idle \ found

Step(c, pc, on) == batch' = [batch EXCEPT ![c].pc = pc, ![c].on = on]

(* A batch ends with its first failure, or after its last operation. *)
Break(c) == Step(c, "done", {})

Succeed(c, session) ==
  LET rest == Tail(batch[c].ops)
  IN batch' = [batch EXCEPT ![c] = [pc |-> IF rest = <<>> THEN "done" ELSE "dispatch",
                                    ops |-> rest, session |-> session, on |-> {}]]

Stop(which) == browser' = [i \in Ids |-> IF i \in which THEN "stopped" ELSE browser[i]]

-----------------------------------------------------------------------------
(* The steps of a call. *)

(* An operation sets exactly one field: a list with another one is turned *)
(* away as a whole, before anything is done.                              *)
Valid(ops) == ops # <<>> /\ \A n \in DOMAIN ops : ops[n].do # "malformed"

(* The session of the call: none if it begins with open and names none. *)
Resolve(given, ops) ==
  IF given = {} THEN [ok |-> ops[1].do = "open", session |-> {}]
                ELSE [ok |-> Found(given) # {}, session |-> Found(given)]

executeBrowser(c) ==
  /\ At(c, "idle")
  /\ \E ops \in Scripts, given \in {{}} \cup {{i} : i \in {j \in Ids : browser[j] # "unused"}} :
       LET got == IF Valid(ops) THEN Resolve(given, ops) ELSE [ok |-> FALSE, session |-> {}]
       IN /\ batch' = [batch EXCEPT ![c] = IF got.ok
                         THEN [pc |-> "dispatch", ops |-> ops, session |-> got.session, on |-> {}]
                         ELSE Refused]
          /\ touch(got.session)
  /\ UNCHANGED <<sessions, browser, reaper, done, closer, racers>>

InsideCreate(c) == batch[c].pc \in {"start", "insert"}

(* Mutant: the limit is one too high. *)
AtLimitLate == MaxSessions > 0 /\ Cardinality(sessions) > MaxSessions

AtLimit == MaxSessions > 0 /\ Cardinality(sessions) >= MaxSessions

(* Create: the limit is looked at, the browser is started without the lock, *)
(* and only then the session is put into the map.                           *)
CreateCheck(c) ==
  /\ At(c, "dispatch") /\ Op(c).do = "open"
  /\ IF AtLimit THEN Break(c) /\ UNCHANGED racers
                ELSE /\ Step(c, "start", {})
                     /\ racers' = IF \E d \in Batches : InsideCreate(d) THEN racers \cup {c} ELSE racers
  /\ UNCHANGED <<sessions, browser, idle, reaper, done, closer>>

CreateStart(c) ==
  /\ At(c, "start")
  /\ \/ \E i \in Ids : /\ browser[i] = "unused"
                       /\ browser' = [browser EXCEPT ![i] = "running"]
                       /\ Step(c, "insert", {i})
     \/ Break(c) /\ UNCHANGED browser
  /\ UNCHANGED <<sessions, idle, reaper, done, closer, racers>>

CreateInsert(c) ==
  /\ At(c, "insert")
  /\ sessions' = sessions \cup batch[c].on
  /\ Step(c, "capture", batch[c].on)
  /\ UNCHANGED <<browser, idle, reaper, done, closer, racers>>

(* The new session is looked up for the operations that follow; it may be *)
(* gone already, and then they find none.                                 *)
Capture(c) ==
  /\ At(c, "capture")
  /\ touch(Found(batch[c].on))
  /\ Succeed(c, Found(batch[c].on))
  /\ UNCHANGED <<sessions, browser, reaper, done, closer, racers>>

(* A page operation looks its session up, checks its arguments and works *)
(* on the page.                                                          *)
PageLookup(c) ==
  /\ At(c, "dispatch") /\ Op(c).do \in PageOperations
  /\ LET found == Found(batch[c].session)
     IN /\ touch(found)
        /\ IF found # {} /\ Requires(Op(c)) \subseteq Op(c).with
           THEN Step(c, "run", found) ELSE Break(c)
  /\ UNCHANGED <<sessions, browser, reaper, done, closer, racers>>

PageRun(c) ==
  /\ At(c, "run")
  /\ \/ (\A i \in batch[c].on : browser[i] = "running") /\ Succeed(c, batch[c].session)
     \/ Break(c)
  /\ UNCHANGED <<sessions, browser, idle, reaper, done, closer, racers>>

(* Close: out of the map under the lock, stopped after it. *)
CloseRemove(c) ==
  /\ At(c, "dispatch") /\ Op(c).do = "close"
  /\ LET found == Found(batch[c].session)
     IN /\ sessions' = sessions \ found
        /\ IF found # {} THEN Step(c, "stop", found) ELSE Break(c)
  /\ UNCHANGED <<browser, idle, reaper, done, closer, racers>>

CloseStop(c) ==
  /\ At(c, "stop")
  /\ Stop(batch[c].on)
  /\ Succeed(c, batch[c].session)
  /\ UNCHANGED <<sessions, idle, reaper, done, closer, racers>>

-----------------------------------------------------------------------------
(* The reaper, the shutdown and the world outside. *)

Reaping == reaper.expired # {} \/ reaper.stop # {}

(* Mutant: the look ends at a session that is in use. *)
reapIdleAllOrNone ==
  /\ ~Reaping /\ sessions \cap idle # {}
  /\ reaper' = [reaper EXCEPT !.expired = IF sessions \subseteq idle THEN sessions ELSE {}]
  /\ UNCHANGED <<sessions, browser, idle, batch, done, closer, racers>>

(* One look at the map; the sessions found idle are closed one by one    *)
(* afterwards, used again in the meantime or not.  A tick may still be   *)
(* served after done was closed: select chooses.                         *)
reapIdle ==
  /\ ~Reaping /\ sessions \cap idle # {}
  /\ reaper' = [reaper EXCEPT !.expired = sessions \cap idle]
  /\ UNCHANGED <<sessions, browser, idle, batch, done, closer, racers>>

ReapRemove(i) ==
  /\ i \in reaper.expired /\ reaper.stop = {}
  /\ reaper' = [expired |-> reaper.expired \ {i}, stop |-> Found({i})]
  /\ sessions' = sessions \ {i}
  /\ UNCHANGED <<browser, idle, batch, done, closer, racers>>

ReapStop(i) ==
  /\ i \in reaper.stop
  /\ reaper' = [reaper EXCEPT !.stop = @ \ {i}]
  /\ Stop({i})
  /\ UNCHANGED <<sessions, idle, batch, done, closer, racers>>

CloseAll ==
  /\ closer.pc = "idle"
  /\ done' = TRUE
  /\ closer' = [closer EXCEPT !.pc = "swap"]
  /\ UNCHANGED <<sessions, browser, idle, batch, reaper, racers>>

(* Mutant: the map is replaced without its sessions being kept. *)
CloseAllForgets ==
  /\ closer.pc = "swap"
  /\ closer' = [pc |-> "stop", stop |-> {}]
  /\ sessions' = {}
  /\ UNCHANGED <<browser, idle, batch, reaper, done, racers>>

CloseAllSwap ==
  /\ closer.pc = "swap"
  /\ closer' = [pc |-> "stop", stop |-> sessions]
  /\ sessions' = {}
  /\ UNCHANGED <<browser, idle, batch, reaper, done, racers>>

CloseAllStop(i) ==
  /\ i \in closer.stop
  /\ closer' = [closer EXCEPT !.stop = @ \ {i}]
  /\ Stop({i})
  /\ UNCHANGED <<sessions, idle, batch, reaper, done, racers>>

(* The idle timeout passes since the last touch of a session.  An operation *)
(* under way does not touch it again.                                       *)
IdleTimeout(i) ==
  /\ i \in sessions \ idle
  /\ idle' = idle \cup {i}
  /\ UNCHANGED <<sessions, browser, batch, reaper, done, closer, racers>>

Crash(i) ==
  /\ browser[i] = "running"
  /\ browser' = [browser EXCEPT ![i] = "crashed"]
  /\ UNCHANGED <<sessions, idle, batch, reaper, done, closer, racers>>

BatchStep(c) ==
  \/ CreateCheck(c) \/ CreateStart(c) \/ CreateInsert(c) \/ Capture(c)
  \/ PageLookup(c) \/ PageRun(c) \/ CloseRemove(c) \/ CloseStop(c)

Reap == reapIdle \/ \E i \in Ids : ReapRemove(i) \/ ReapStop(i)

Next ==
  \/ \E c \in Batches : executeBrowser(c) \/ BatchStep(c)
  \/ Reap
  \/ CloseAll \/ CloseAllSwap
  \/ \E i \in Ids : CloseAllStop(i) \/ IdleTimeout(i) \/ Crash(i)

(* The reaper's goroutine and its ticker run on their own. *)
Fairness == WF_vars(Reap)

Spec == Init /\ [][Next]_vars /\ Fairness

-----------------------------------------------------------------------------
(* No browser runs that nobody can stop: it is in the map, or a Create, a    *)
(* Close, the reaper or CloseAll has it in hand (Create, Close, reapIdle,    *)
(* CloseAll).  And nobody finds a session in the map whose browser has been  *)
(* stopped, since every way out of it removes before it stops.               *)
BrowsersAccountedFor ==
  /\ \A i \in Ids : browser[i] = "running" =>
       \/ i \in sessions \cup reaper.stop \cup closer.stop
       \/ \E c \in Batches : batch[c].pc \in {"insert", "stop"} /\ i \in batch[c].on
  /\ \A i \in sessions : browser[i] \in {"running", "crashed"}

(* MaxSessions is exceeded only where two calls were inside Create at the    *)
(* same time: the limit is looked at before the browser starts and not again *)
(* when the session goes into the map.                                       *)
LimitHoldsWithoutRaces ==
  racers # {} \/ MaxSessions = 0 \/ Cardinality(sessions) <= MaxSessions

(* A session that stays unused is closed by the reaper (reapLoop), whatever *)
(* calls, crashes of the browser and other sessions do meanwhile, unless    *)
(* the plugin is shut down.                                                 *)
IdleSessionsAreClosed ==
  \A i \in Ids : []<>(done \/ i \notin sessions \/ i \notin idle)
=============================================================================
