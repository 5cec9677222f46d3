------------------------------ MODULE MCSessions ------------------------------
(***************************************************************************)
(* The service on its own: one opener, two sessions, one subscriber.       *)
(***************************************************************************)
EXTENDS Sessions

CONSTANTS p, s1, s2, n, u

MCOpeners == {p}
MCSessionIDs == {s1, s2}
MCNames == {n}
MCSubscribers == {u}

=============================================================================
