------------------------------- MODULE MCDaemon -------------------------------
(***************************************************************************)
(* One rule with a named session and one job; the run it starts and one    *)
(* client open, replace and close two sessions of that name. A second run  *)
(* id would only be used by a job that overlaps with itself.               *)
(***************************************************************************)
EXTENDS Daemon

CONSTANTS r, j, x1, x2, s1, s2, c, n

MCRules == {r}
MCJobIDs == {j}
MCRunIDs == {x1, x2}
MCSessionIDs == {s1, s2}
MCClients == {c}
MCOpeners == MCRunIDs \cup MCClients
MCNames == {n}
MCSubscribers == {}
MCShared == [rule \in MCRules |-> "shared"]
MCResumeOrCreate == [rule \in MCRules |-> "resume_or_create"]
MCNameOf == [rule \in MCRules |-> n]

=============================================================================
