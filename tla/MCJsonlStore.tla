----------------------------- MODULE MCJsonlStore -----------------------------
(* Sessions on a store directory with two threads. Three numbers and four    *)
(* lines let a batch be written in part, fail, and be written again by the   *)
(* next Append.                                                              *)
EXTENDS JsonlStore, TLC

CONSTANTS t1, t2, b1, b2, h1, h2, c1, p1

MCThreadIDs == {t1, t2}
MCBranchIDs == {b1, b2}
MCHandles == {h1}
MCTwoHandles == {h1, h2}
MCClients == {c1}
MCPayloads == {p1}

Symm == Permutations(MCThreadIDs) \cup Permutations(MCBranchIDs)
=============================================================================
