------------------------------- MODULE Phone -------------------------------
(***************************************************************************)
(* The phone tool (tools/phone): the registry of calls behind it, dials    *)
(* and hangups of concurrent tool calls, and the far end.  A dial takes    *)
(* its time outside the registry's mutex; a hangup takes the entry out of  *)
(* the registry first and ends the call afterwards.  A call owns a SIP     *)
(* user agent, which only Hangup closes: also a call that the far end has  *)
(* ended keeps it, and its entry, until it is hung up.  Hangup closes it   *)
(* too when the BYE it sends first fails.                                  *)
(*                                                                         *)
(* A call is numbered by when it was established, which need not be the    *)
(* order of the ids that the registry hands out.  What the SIP stack does  *)
(* is left to the environment: an INVITE succeeds or fails.                *)
(***************************************************************************)
EXTENDS Integers, Sequences, FiniteSets

CONSTANTS Users,     \* the calls of the tool, each made once
          Lists,     \* the lists of operations they may carry out
          SIPAddr,   \* the tool's own endpoint, "" for none
          HasDevice  \* an audio device is configured

VARIABLES dialog,  \* the calls established so far: "up", "over", or "left" up by a failed BYE
          agent,   \* the calls whose user agent is open
          calls,   \* the registry: id -> [call, state]
          seq,     \* the registry's counter
          user     \* tool call -> its state

vars == <<dialog, agent, calls, seq, user>>

forbiddenCustomSIPHeaders == {"from", "to", "via", "contact", "call-id", "cseq",
                              "content-length", "content-type"}

parseAudioMode(audio) == audio \in {"", "none", "echo", "device"}

(* Credentials are the parts around a colon, nothing if none are given. *)
parseCredentials(parts) == parts = <<>> \/ (Len(parts) >= 2 /\ parts[1] # "")

(* Headers without a name or a value are passed over; one that the tool *)
(* manages itself is refused.                                           *)
cleanSIPHeaders(headers) ==
  \A h \in headers : (h.name # "" /\ h.value # "") => h.name \notin forbiddenCustomSIPHeaders

(* What is asked of a dial before anything is sent. *)
Dialable(op) ==
  /\ op.number # ""
  /\ SIPAddr # "" \/ op.endpoint # ""
  /\ parseAudioMode(op.audio)
  /\ op.audio = "device" => HasDevice
  /\ parseCredentials(op.credentials)
  /\ cleanSIPHeaders(op.headers)

Init == /\ dialog = <<>>
        /\ agent = {}
        /\ calls = <<>>
        /\ seq = 0
        /\ user = [u \in Users |-> [pc |-> "idle", ops |-> <<>>, on |-> {}]]

-----------------------------------------------------------------------------
(* The steps of a tool call: it works through its list, and an operation *)
(* that fails does not end it.                                           *)

executeOps(u) ==
  /\ user[u].pc = "idle"
  /\ \E ops \in Lists : user' = [user EXCEPT ![u] = [pc |-> "next", ops |-> ops, on |-> {}]]
  /\ UNCHANGED <<dialog, agent, calls, seq>>

Doing(u, do) == user[u].pc = "next" /\ user[u].ops # <<>> /\ Head(user[u].ops).do = do

Step(u, pc, on) == user' = [user EXCEPT ![u].pc = pc, ![u].on = on]

Continue(u) == user' = [user EXCEPT ![u] = [pc |-> "next", ops |-> Tail(@.ops), on |-> {}]]

executeDial(u) ==
  /\ Doing(u, "dial")
  /\ IF Dialable(Head(user[u].ops)) THEN Step(u, "dial", {}) ELSE Continue(u)
  /\ UNCHANGED <<dialog, agent, calls, seq>>

(* The INVITE is refused, times out or cannot be sent. *)
DialFails(u) ==
  /\ user[u].pc = "dial"
  /\ Continue(u)
  /\ UNCHANGED <<dialog, agent, calls, seq>>

Dial(u) ==
  /\ user[u].pc = "dial"
  /\ dialog' = Append(dialog, "up")
  /\ agent' = agent \cup {Len(dialog')}
  /\ Step(u, "add", {Len(dialog')})
  /\ UNCHANGED <<calls, seq>>

(* Mutant: ids are counted from the calls in the registry. *)
addByLength(u) ==
  /\ user[u].pc = "add"
  /\ seq' = Cardinality(DOMAIN calls) + 1
  /\ \E k \in user[u].on :
       calls' = [id \in DOMAIN calls \cup {seq'} |->
                   IF id = seq' THEN [call |-> k, state |-> "active"] ELSE calls[id]]
  /\ Continue(u)
  /\ UNCHANGED <<dialog, agent>>

add(u) ==
  /\ user[u].pc = "add"
  /\ seq' = seq + 1
  /\ \E k \in user[u].on :
       calls' = [id \in DOMAIN calls \cup {seq'} |->
                   IF id = seq' THEN [call |-> k, state |-> "active"] ELSE calls[id]]
  /\ Continue(u)
  /\ UNCHANGED <<dialog, agent>>

(* The entry leaves the registry before the call is ended; of two hangups *)
(* of one call the second finds nothing.                                  *)
executeHangup(u) ==
  /\ Doing(u, "hangup")
  /\ LET id == Head(user[u].ops).id
     IN IF id \in DOMAIN calls
        THEN /\ calls' = [i \in DOMAIN calls \ {id} |-> calls[i]]
             /\ Step(u, "hangup", {calls[id].call})
        ELSE Continue(u) /\ UNCHANGED calls
  /\ UNCHANGED <<dialog, agent, seq>>

(* sipCall.Hangup sends a BYE, whose error nobody sees, and closes the *)
(* user agent, which no other call has.                                *)
Hangup(u) ==
  /\ user[u].pc = "hangup"
  /\ \E end \in {"over", "left"} :
       dialog' = [k \in DOMAIN dialog |-> IF k \in user[u].on /\ dialog[k] = "up" THEN end ELSE dialog[k]]
  /\ agent' = agent \ user[u].on
  /\ Continue(u)
  /\ UNCHANGED <<calls, seq>>

(* A look at the registry, or an operation with no field set. *)
executeStatus(u) ==
  /\ Doing(u, "status") \/ Doing(u, "malformed")
  /\ Continue(u)
  /\ UNCHANGED <<dialog, agent, calls, seq>>

-----------------------------------------------------------------------------
(* The far end hangs up; the goroutine started by add notices. *)

RemoteHangup(k) ==
  /\ dialog[k] # "over"
  /\ dialog' = [dialog EXCEPT ![k] = "over"]
  /\ UNCHANGED <<agent, calls, seq, user>>

(* Mutant: only the latest call is watched. *)
WatchLatest(id) ==
  /\ id = seq /\ dialog[calls[id].call] = "over" /\ calls[id].state = "active"
  /\ calls' = [calls EXCEPT ![id].state = "ended"]
  /\ UNCHANGED <<dialog, agent, seq, user>>

Watch(id) ==
  /\ dialog[calls[id].call] = "over" /\ calls[id].state = "active"
  /\ calls' = [calls EXCEPT ![id].state = "ended"]
  /\ UNCHANGED <<dialog, agent, seq, user>>

Next ==
  \/ \E u \in Users : \/ executeOps(u) \/ executeDial(u) \/ DialFails(u) \/ Dial(u)
                      \/ add(u) \/ executeHangup(u) \/ Hangup(u) \/ executeStatus(u)
  \/ \E k \in DOMAIN dialog : RemoteHangup(k)
  \/ \E id \in DOMAIN calls : Watch(id)

(* A watcher is a goroutine that waits for the call alone. *)
Fairness == WF_vars(\E id \in DOMAIN calls : Watch(id))

Spec == Init /\ [][Next]_vars /\ Fairness

-----------------------------------------------------------------------------
(* No user agent is lost, and no call but one whose own hangup failed to     *)
(* send the BYE: whatever is open has its own entry in the registry, by       *)
(* which it can be hung up, or a dial or hangup has it in hand; no entry is   *)
(* without its user agent, and none says "ended" of a call that is up (add,   *)
(* remove).  A failed BYE leaves a call up that nothing here can end any      *)
(* more: its entry is gone and its user agent closed (sipCall.Hangup).        *)
CallsAccountedFor ==
  /\ \A k \in DOMAIN dialog : /\ dialog[k] = "up" => k \in agent
                             /\ dialog[k] = "left" => k \notin agent
  /\ \A k \in agent : \/ \E id \in DOMAIN calls : calls[id].call = k
                      \/ \E u \in Users : k \in user[u].on
  /\ \A id \in DOMAIN calls :
       /\ calls[id].call \in agent
       /\ calls[id].state = "ended" => dialog[calls[id].call] = "over"
       /\ \A other \in DOMAIN calls \ {id} : calls[other].call # calls[id].call

(* What the registry shows catches up with the calls again and again: one    *)
(* that the far end has ended is shown as ended or is out of the registry,   *)
(* whatever the order of answer, registration and hangup (add's goroutine).  *)
EndedIsShown ==
  []<>(\A id \in DOMAIN calls :
         calls[id].state = "ended" \/ dialog[calls[id].call] = "up")
=============================================================================
