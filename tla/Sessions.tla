------------------------------- MODULE Sessions -------------------------------
(***************************************************************************)
(* harness.Service and the life of its sessions: OpenSession tests the     *)
(* service, builds the agent outside every lock and attaches the session   *)
(* to the registry; Service.Close empties the registry and closes what it  *)
(* found there; Session.Close takes the subscribers, leaves the registry   *)
(* and closes their channels, each under its own lock.                     *)
(*                                                                         *)
(* Events: publish copies the list of channels under the session's lock    *)
(* and sends without it. A send on a channel closed meanwhile is a panic,  *)
(* which ends the process.                                                 *)
(***************************************************************************)
EXTENDS Integers, FiniteSets

CONSTANTS Names,        \* session names in use
          SessionIDs,   \* sessions; an unnamed one is registered under its id
          Openers,      \* goroutines that call OpenSession
          Subscribers,  \* channels handed out by Subscribe
          NoSession,    \* no entry in the registry
          NoName        \* the empty name

ASSUME SessionsAssumption ==
    /\ NoSession \notin SessionIDs
    /\ NoName \notin Names
    /\ Names \cap SessionIDs = {}

VARIABLES registry,       \* Service.sessions: name -> session
          serviceClosed,  \* Service.closed
          doomed,         \* sessions Service.Close has still to close
          current,        \* the session whose Close it waits for
          sess,           \* session -> its state
          opening,        \* opener -> its OpenSession call
          stored,         \* names with a thread in the sessions directory
          chans,          \* subscriber -> its channel
          panicked        \* a goroutine sent on a closed channel

sessionVars == <<registry, serviceClosed, doomed, current, sess, opening, stored, chans, panicked>>

(* closing: closed is set and subs are taken; leaving: also unregistered. *)
Stages == {"unborn", "open", "closing", "leaving", "closed"}

SessionRecords == [stage: Stages, name: Names \cup SessionIDs \cup {NoName},
                   subs: SUBSET Subscribers, sending: SUBSET Subscribers]

Calls == [open: BOOLEAN, name: Names \cup {NoName}]
NoCall == [open |-> FALSE, name |-> NoName]

SessionsTypeOK ==
    /\ registry \in [Names \cup SessionIDs -> SessionIDs \cup {NoSession}]
    /\ serviceClosed \in BOOLEAN
    /\ doomed \subseteq SessionIDs
    /\ current \in SessionIDs \cup {NoSession}
    /\ sess \in [SessionIDs -> SessionRecords]
    /\ opening \in [Openers -> Calls]
    /\ stored \subseteq Names
    /\ chans \in [Subscribers -> {"none", "open", "closed"}]
    /\ panicked \in BOOLEAN

SessionsInit ==
    /\ registry = [n \in Names \cup SessionIDs |-> NoSession]
    /\ serviceClosed = FALSE
    /\ doomed = {}
    /\ current = NoSession
    /\ sess = [s \in SessionIDs |-> [stage |-> "unborn", name |-> NoName, subs |-> {}, sending |-> {}]]
    /\ opening = [p \in Openers |-> NoCall]
    /\ stored \in SUBSET Names
    /\ chans = [u \in Subscribers |-> "none"]
    /\ panicked = FALSE

-----------------------------------------------------------------------------
(* OpenSession *)

(* The first test of Service.closed; the agent is then built without a lock. *)
OpenStart(p, n) ==
    /\ opening[p] = NoCall
    /\ ~serviceClosed
    /\ opening' = [opening EXCEPT ![p] = [open |-> TRUE, name |-> n]]
    /\ UNCHANGED <<registry, serviceClosed, doomed, current, sess, stored, chans, panicked>>

(* The agent cannot be built, or attachSession refuses it. *)
OpenFail(p) ==
    /\ opening[p].open
    /\ opening' = [opening EXCEPT ![p] = NoCall]
    /\ UNCHANGED <<registry, serviceClosed, doomed, current, sess, stored, chans, panicked>>

Fresh(s) == sess[s].stage = "unborn"

(* Mutant: attachSession trusts the test made before the agent was built. *)
AttachLate(p, resume) ==
    LET s == CHOOSE t \in SessionIDs : Fresh(t)
        name == IF opening[p].name = NoName THEN s ELSE opening[p].name
    IN  /\ opening[p].open
        /\ resume => opening[p].name \in stored
        /\ \E t \in SessionIDs : Fresh(t)
        /\ registry' = [registry EXCEPT ![name] = s]
        /\ sess' = [sess EXCEPT ![s].stage = "open", ![s].name = name]
        /\ opening' = [opening EXCEPT ![p] = NoCall]
        /\ UNCHANGED <<serviceClosed, doomed, current, stored, chans, panicked>>

(* The agent is built, where one that resumes needs a stored thread, and     *)
(* attachSession tests the service again under its lock and registers the    *)
(* session. One registered under the same name is replaced.                  *)
Attach(p, resume) ==
    LET s == CHOOSE t \in SessionIDs : Fresh(t)
        name == IF opening[p].name = NoName THEN s ELSE opening[p].name
    IN  /\ opening[p].open
        /\ resume => opening[p].name \in stored
        /\ ~serviceClosed
        /\ \E t \in SessionIDs : Fresh(t)
        /\ registry' = [registry EXCEPT ![name] = s]
        /\ sess' = [sess EXCEPT ![s].stage = "open", ![s].name = name]
        /\ opening' = [opening EXCEPT ![p] = NoCall]
        /\ UNCHANGED <<serviceClosed, doomed, current, stored, chans, panicked>>

-----------------------------------------------------------------------------
(* Closing *)

(* Session.Close, first lock *)
CloseStart(s) ==
    /\ sess[s].stage = "open"
    /\ sess' = [sess EXCEPT ![s].stage = "closing"]
    /\ UNCHANGED <<registry, serviceClosed, doomed, current, opening, stored, chans, panicked>>

(* Mutant: the name is dropped even if another session has it by now. *)
CloseLeaveAny(s) ==
    /\ sess[s].stage = "closing"
    /\ sess' = [sess EXCEPT ![s].stage = "leaving"]
    /\ registry' = [registry EXCEPT ![sess[s].name] = NoSession]
    /\ UNCHANGED <<serviceClosed, doomed, current, opening, stored, chans, panicked>>

(* Session.Close, the service's lock *)
CloseLeave(s) ==
    /\ sess[s].stage = "closing"
    /\ sess' = [sess EXCEPT ![s].stage = "leaving"]
    /\ registry' = [n \in DOMAIN registry |-> IF n = sess[s].name /\ registry[n] = s
                                              THEN NoSession ELSE registry[n]]
    /\ UNCHANGED <<serviceClosed, doomed, current, opening, stored, chans, panicked>>

(* Session.Close sends the closed event and closes the channels it took. *)
CloseChannels(s) ==
    /\ sess[s].stage = "leaving"
    /\ sess' = [sess EXCEPT ![s] = [@ EXCEPT !.stage = "closed", !.name = NoName, !.subs = {}]]
    /\ chans' = [u \in Subscribers |-> IF u \in sess[s].subs THEN "closed" ELSE chans[u]]
    /\ UNCHANGED <<registry, serviceClosed, doomed, current, opening, stored, panicked>>

(* Service.Close empties the registry ... *)
ServiceClose ==
    /\ doomed' = {registry[n] : n \in DOMAIN registry} \ {NoSession}
    /\ registry' = [n \in DOMAIN registry |-> NoSession]
    /\ serviceClosed' = TRUE
    /\ UNCHANGED <<current, sess, opening, stored, chans, panicked>>

(* ... and calls Close on each session it found there, which does nothing if *)
(* another call is at it ...                                                 *)
ServiceCloseNext(s) ==
    /\ current = NoSession
    /\ s \in doomed
    /\ doomed' = doomed \ {s}
    /\ \/ /\ sess[s].stage = "open"
          /\ sess' = [sess EXCEPT ![s].stage = "closing"]
          /\ current' = s
       \/ /\ sess[s].stage # "open"
          /\ UNCHANGED <<sess, current>>
    /\ UNCHANGED <<registry, serviceClosed, opening, stored, chans, panicked>>

(* ... and waits for its own. *)
ServiceCloseReturns ==
    /\ current # NoSession
    /\ sess[current].stage = "closed"
    /\ current' = NoSession
    /\ UNCHANGED <<registry, serviceClosed, doomed, sess, opening, stored, chans, panicked>>

-----------------------------------------------------------------------------
(* Subscriptions *)

Subscribe(s, u) ==
    /\ sess[s].stage = "open"
    /\ chans[u] = "none"
    /\ sess' = [sess EXCEPT ![s].subs = @ \cup {u}]
    /\ chans' = [chans EXCEPT ![u] = "open"]
    /\ UNCHANGED <<registry, serviceClosed, doomed, current, opening, stored, panicked>>

(* The cancel function of Subscribe; after Close there is nothing to cancel. *)
Unsubscribe(s, u) ==
    /\ sess[s].stage = "open"
    /\ u \in sess[s].subs
    /\ sess' = [sess EXCEPT ![s].subs = @ \ {u}]
    /\ chans' = [chans EXCEPT ![u] = "closed"]
    /\ UNCHANGED <<registry, serviceClosed, doomed, current, opening, stored, panicked>>

(* publish copies the channels of an open session ... *)
Publish(s) ==
    /\ sess[s].stage = "open"
    /\ sess[s].sending = {}
    /\ sess[s].subs # {}
    /\ sess' = [sess EXCEPT ![s].sending = sess[s].subs]
    /\ UNCHANGED <<registry, serviceClosed, doomed, current, opening, stored, chans, panicked>>

(* ... and sends to each, or drops the event if the channel is full. *)
Send(s, u) ==
    /\ u \in sess[s].sending
    /\ sess' = [sess EXCEPT ![s].sending = @ \ {u}]
    /\ panicked' = (panicked \/ chans[u] = "closed")
    /\ UNCHANGED <<registry, serviceClosed, doomed, current, opening, stored, chans>>

-----------------------------------------------------------------------------
(* The service on its own. A panic ends the process. *)

SessionsNext ==
    /\ ~panicked
    /\ \/ ~serviceClosed /\ ServiceClose
       \/ ServiceCloseReturns
       \/ \E p \in Openers :
             \/ OpenFail(p) \/ Attach(p, FALSE)
             \/ \E n \in Names \cup {NoName} : OpenStart(p, n)
       \/ \E s \in SessionIDs :
             \/ CloseStart(s) \/ CloseLeave(s) \/ CloseChannels(s)
             \/ ServiceCloseNext(s) \/ Publish(s)
             \/ \E u \in Subscribers : Subscribe(s, u) \/ Unsubscribe(s, u) \/ Send(s, u)

SessionsSpec == SessionsInit /\ [][SessionsNext]_sessionVars

-----------------------------------------------------------------------------
(* Properties *)

(* A closed service has no session, and none appears in it again: an open    *)
(* that passed its first test before Close does not slip in after it.        *)
ClosedServiceIsEmpty ==
    serviceClosed => \A n \in DOMAIN registry : registry[n] = NoSession

(* The registry names living sessions under their own name, and a session is *)
(* dropped from it only by its own Close, never by that of a predecessor     *)
(* with the same name.                                                       *)
RegistryIsCurrent ==
    [][\A n \in DOMAIN registry : registry[n] # NoSession =>
           /\ sess[registry[n]].name = n
           /\ sess[registry[n]].stage \in {"open", "closing"}
           /\ registry'[n] = NoSession => \/ sess[registry[n]].stage = "closing"
                                          \/ serviceClosed']_sessionVars

(* publish delivers an event or drops it; it never sends on a channel that   *)
(* Unsubscribe or Close has closed.                                          *)
PublishDeliversOrDrops == ~panicked

=============================================================================
