------------------------------ MODULE ThreadLog ------------------------------
(***************************************************************************)
(* One durable thread as thread.MemoryStore keeps it, and the pure         *)
(* operations on it: appendLocked, the thread part of Create, Fork,        *)
(* Archive and Unarchive, the replay that Import performs, and the branch  *)
(* view of Stored.EventsForBranch.                                         *)
(*                                                                         *)
(* The data of an event is abstracted to what the store itself looks at:   *)
(* its sequence number, its branch, its kind, the fork point carried by a  *)
(* branch.created payload, and an opaque payload for everything else.      *)
(***************************************************************************)
EXTENDS Integers, Sequences

CONSTANTS BranchIDs,    \* thread.BranchID values
          NoBranch,     \* the empty BranchID (no parent); also "key not in the map"
          Payloads,     \* opaque payloads of user events
          NoPayload     \* payload of the store's own events

Kinds == {"thread.created", "branch.created", "thread.archived", "thread.unarchived", "user"}

(* Event before the store stamps seq and branch on it. *)
NewEvents == [kind: Kinds, from: BranchIDs \cup {NoBranch}, forkSeq: Nat, payload: Payloads \cup {NoPayload}]

Events == [seq: Nat, branch: BranchIDs, kind: Kinds, from: BranchIDs \cup {NoBranch},
           forkSeq: Nat, payload: Payloads \cup {NoPayload}]

Branches == [parent: BranchIDs \cup {NoBranch}, forkSeq: Nat]

ASSUME ThreadLogAssumption ==
    /\ NoBranch \notin BranchIDs \cup Branches
    /\ NoPayload \notin Payloads

(* memoryThread. The branches map is a function on all branch ids, NoBranch  *)
(* where the map has no entry.                                               *)
Threads == [branchID: BranchIDs,
            branches: [BranchIDs -> Branches \cup {NoBranch}],
            archived: BOOLEAN,
            nextSeq: Nat,
            events: Seq(Events)]

CoreEvent(kind) == [kind |-> kind, from |-> NoBranch, forkSeq |-> 0, payload |-> NoPayload]
UserEvent(p) == [kind |-> "user", from |-> NoBranch, forkSeq |-> 0, payload |-> p]
BranchCreatedEvent(from, forkSeq) ==
    [kind |-> "branch.created", from |-> from, forkSeq |-> forkSeq, payload |-> NoPayload]

RootBranch == [parent |-> NoBranch, forkSeq |-> 0]

(* The keys of the branches map, and a map with a single root branch. *)
BranchesOf(th) == {b \in BranchIDs : th.branches[b] # NoBranch}
OnlyRoot(branch) == [b \in BranchIDs |-> IF b = branch THEN RootBranch ELSE NoBranch]

Stamp(e, seq, branch) ==
    [seq |-> seq, branch |-> branch, kind |-> e.kind, from |-> e.from,
     forkSeq |-> e.forkSeq, payload |-> e.payload]

-----------------------------------------------------------------------------
(* Operations on one thread *)

(* Mutant: the batch is stamped with one number. *)
AppendLockedSameSeq(th, branch, batch) ==
    [th EXCEPT !.events = @ \o [i \in 1..Len(batch) |-> Stamp(batch[i], th.nextSeq, branch)],
               !.nextSeq = @ + 1]

(* memoryThread.appendLocked: stamp each event of the batch with the next    *)
(* sequence numbers and append it.                                           *)
AppendLocked(th, branch, batch) ==
    [th EXCEPT !.events = @ \o [i \in 1..Len(batch) |-> Stamp(batch[i], th.nextSeq + i - 1, branch)],
               !.nextSeq = @ + Len(batch)]

(* The memoryThread built by MemoryStore.Create, its thread.created event    *)
(* included.                                                                 *)
NewThread(branch) ==
    [branchID |-> branch,
     branches |-> OnlyRoot(branch),
     archived |-> FALSE,
     nextSeq |-> 2,
     events |-> << Stamp(CoreEvent("thread.created"), 1, branch) >>]

(* Mutant: the fork point is one event too late. *)
ForkThreadLate(th, from, to) ==
    AppendLocked([th EXCEPT !.branches[to] = [parent |-> from, forkSeq |-> th.nextSeq]],
                 to, << BranchCreatedEvent(from, th.nextSeq) >>)

(* The thread part of MemoryStore.Fork: the new branch sees its parent up to *)
(* the last event written so far, and branch.created is its first own event. *)
ForkThread(th, from, to) ==
    AppendLocked([th EXCEPT !.branches[to] = [parent |-> from, forkSeq |-> th.nextSeq - 1]],
                 to, << BranchCreatedEvent(from, th.nextSeq - 1) >>)

(* The thread part of MemoryStore.setArchived. *)
ArchiveThread(th, archived) ==
    AppendLocked([th EXCEPT !.archived = archived], th.branchID,
                 << CoreEvent(IF archived THEN "thread.archived" ELSE "thread.unarchived") >>)

-----------------------------------------------------------------------------
(* Replay *)

(* MemoryStore.Import replays a log event by event. What its loop leaves in  *)
(* each field is decided by the last event that assigns the field.           *)
LatestAt(is) == CHOOSE i \in is : \A j \in is : j <= i

OfKind(log, kinds) == {i \in DOMAIN log : log[i].kind \in kinds}

MaxSeqOf(log) == LET seqs == {log[i].seq : i \in DOMAIN log} \cup {0}
                 IN  CHOOSE n \in seqs : \A m \in seqs : m <= n

(* The default branch is that of the latest thread.created event; a log      *)
(* without one keeps the branch of its first event.                          *)
ImportDefault(log) ==
    LET created == OfKind(log, {"thread.created"})
    IN  IF created = {} THEN log[1].branch ELSE log[LatestAt(created)].branch

(* Mutant: a branch.created event no longer restores the fork point. *)
ImportBranchForgetFork(log, b) ==
    IF \E i \in DOMAIN log : log[i].branch = b THEN RootBranch ELSE NoBranch

(* A branch is entered as a root by its first event and given its parent and *)
(* fork point by branch.created, which is stored on the branch it creates.   *)
ImportBranch(log, b) ==
    LET created == {i \in OfKind(log, {"branch.created"}) : log[i].branch = b}
    IN  IF created # {}
        THEN [parent |-> log[LatestAt(created)].from, forkSeq |-> log[LatestAt(created)].forkSeq]
        ELSE IF \E i \in DOMAIN log : log[i].branch = b THEN RootBranch ELSE NoBranch

ImportArchived(log) ==
    LET changes == OfKind(log, {"thread.archived", "thread.unarchived"})
    IN  changes # {} /\ log[LatestAt(changes)].kind = "thread.archived"

(* Mutant: the next number is the length of the log. *)
ImportNextSeqLen(log) == Len(log)

ImportNextSeq(log) == MaxSeqOf(log) + 1

(* The thread Import builds from a non-empty log. *)
Import(log) ==
    [branchID |-> ImportDefault(log),
     branches |-> [b \in BranchIDs |-> ImportBranch(log, b)],
     archived |-> ImportArchived(log),
     nextSeq |-> ImportNextSeq(log),
     events |-> log]

-----------------------------------------------------------------------------
(* Branch views *)

(* The path from the root branch to b: the two loops of branchWindows. *)
BranchPath(th, b) ==
    LET path[c \in BranchesOf(th)] ==
            IF th.branches[c].parent = NoBranch THEN << c >>
            ELSE Append(path[th.branches[c].parent], c)
    IN  path[b]

(* branchWindow: an ancestor is visible after its own fork point and until   *)
(* the fork point of the next branch on the path; 0 is no upper bound.       *)
InWindow(th, path, i, e) ==
    LET until == IF i < Len(path) THEN th.branches[path[i + 1]].forkSeq ELSE 0
    IN  /\ e.branch = path[i]
        /\ e.seq > th.branches[path[i]].forkSeq
        /\ until > 0 => e.seq <= until

(* Mutant: the windows of the ancestors have no upper bound. *)
EventsForBranchNoUntil(th, b) ==
    LET path == BranchPath(th, b)
        out[n \in 0..Len(th.events)] ==
            IF n = 0 THEN << >>
            ELSE IF \E i \in DOMAIN path : /\ th.events[n].branch = path[i]
                                           /\ th.events[n].seq > th.branches[path[i]].forkSeq
            THEN Append(out[n - 1], th.events[n])
            ELSE out[n - 1]
    IN  out[Len(th.events)]

(* Stored.EventsForBranch for a branch the thread has. *)
EventsForBranch(th, b) ==
    LET path == BranchPath(th, b)
        out[n \in 0..Len(th.events)] ==
            IF n = 0 THEN << >>
            ELSE IF \E i \in DOMAIN path : InWindow(th, path, i, th.events[n])
            THEN Append(out[n - 1], th.events[n])
            ELSE out[n - 1]
    IN  out[Len(th.events)]

=============================================================================
