---------------------------- MODULE MCThreadStore ----------------------------
(* One thread, three branches (so that a fork of a fork exists) and two      *)
(* handles; five events are enough for create, two forks and a batch of two  *)
(* in every order.                                                           *)
EXTENDS ThreadStore, TLC

CONSTANTS t1, b1, b2, b3, h1, h2, p1

MCThreadIDs == {t1}
MCBranchIDs == {b1, b2, b3}
MCHandles == {h1, h2}
MCPayloads == {p1}

Symm == Permutations(MCBranchIDs) \cup Permutations(MCHandles)
=============================================================================
