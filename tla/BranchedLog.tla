----------------------------- MODULE BranchedLog -----------------------------
(***************************************************************************)
(* What a thread store promises about branches, with no sequence numbers   *)
(* and no windows: every branch of every thread has a log of its own. A    *)
(* new thread starts one branch with one event, appending extends exactly  *)
(* one branch, forking copies the parent's log into a new branch and marks *)
(* the fork with one event of the new branch. Nothing ever rewrites a log. *)
(***************************************************************************)
EXTENDS Integers, Sequences

VARIABLE hist   \* <<thread, branch>> -> sequence of events

Init == DOMAIN hist = {}

(* The steps, as relations between the logs before and after. *)

Continued(log, longer) == Len(log) < Len(longer) /\ SubSeq(longer, 1, Len(log)) = log

Keeps(old, new, pairs) == \A p \in pairs : new[p] = old[p]

Create(old, new, t, b) ==
    /\ \A p \in DOMAIN old : p[1] # t
    /\ DOMAIN new = DOMAIN old \cup {<<t, b>>}
    /\ Len(new[<<t, b>>]) = 1
    /\ Keeps(old, new, DOMAIN old)

Extend(old, new, t, b) ==
    /\ DOMAIN new = DOMAIN old
    /\ Continued(old[<<t, b>>], new[<<t, b>>])
    /\ Keeps(old, new, DOMAIN old \ {<<t, b>>})

Fork(old, new, t, from, to) ==
    /\ <<t, to>> \notin DOMAIN old
    /\ DOMAIN new = DOMAIN old \cup {<<t, to>>}
    /\ Len(new[<<t, to>>]) = Len(old[<<t, from>>]) + 1
    /\ Continued(old[<<t, from>>], new[<<t, to>>])
    /\ Keeps(old, new, DOMAIN old)

Discard(old, new, t) ==
    /\ DOMAIN new = {p \in DOMAIN old : p[1] # t}
    /\ Keeps(old, new, DOMAIN new)

Step(old, new) ==
    /\ new # old
    /\ \/ \E p \in DOMAIN new : Create(old, new, p[1], p[2])
       \/ \E p \in DOMAIN old : Extend(old, new, p[1], p[2])
       \/ \E p \in DOMAIN old, q \in DOMAIN new : p[1] = q[1] /\ Fork(old, new, p[1], p[2], q[2])
       \/ \E p \in DOMAIN old : Discard(old, new, p[1])

Next == Step(hist, hist')

Spec == Init /\ [][Next]_hist

=============================================================================
