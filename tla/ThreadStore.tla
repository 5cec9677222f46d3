----------------------------- MODULE ThreadStore -----------------------------
(***************************************************************************)
(* thread.MemoryStore: the map of threads and the live handles the store   *)
(* has handed out. Every operation runs under the store mutex, so each is  *)
(* one action. An operation that returns an error before it changes        *)
(* anything (cancelled context, unknown thread or branch, duplicate, a     *)
(* batch with an invalid event) leaves the state alone and is no action.   *)
(*                                                                         *)
(* Fork and setArchived validate the event of their own after they have    *)
(* changed the thread (memorystore.go:251 before 262, 322 before 324).     *)
(* MemoryEventRegistry, the repository's one EventRegistry, accepts those  *)
(* events under CoreEventDefinitions: the payload of Fork has the fields   *)
(* of BranchCreatedPayload and the archive kinds are empty events. The     *)
(* model is of a store whose registry accepts them; with a caller's own    *)
(* EventRegistry that refuses one, the branch or the flag would stay       *)
(* without its event. An event that arrives with a BranchID keeps it       *)
(* (memorystore.go:351, 406); every event the repository appends through a *)
(* Live has none or the branch of that Live, and LiveAppend models those.  *)
(***************************************************************************)
EXTENDS ThreadLog

CONSTANTS ThreadIDs,   \* thread.ID values callers use
          Handles,     \* names for the thread.Live values callers hold
          NoThread,    \* no entry in the thread map
          NoLive,      \* a handle that was never opened
          MaxSeq,      \* bound: last sequence number a thread may reach
          MaxBatch     \* bound: events in one Append call

Lives == [thread: ThreadIDs, branch: BranchIDs, closed: BOOLEAN]

ASSUME ThreadStoreAssumption ==
    /\ NoThread \notin Threads
    /\ NoLive \notin Lives
    /\ MaxSeq \in Nat
    /\ MaxBatch \in Nat \ {0}

VARIABLES threads,     \* MemoryStore.threads
          lives        \* handle -> memoryLive

vars == <<threads, lives>>

Stored == {t \in ThreadIDs : threads[t] # NoThread}

(* The one type invariant: the thread map, its records and the handles have  *)
(* the shape of memoryThread and memoryLive.                                 *)
TypeOK ==
    /\ threads \in [ThreadIDs -> Threads \cup {NoThread}]
    /\ lives \in [Handles -> Lives \cup {NoLive}]

Init ==
    /\ threads = [t \in ThreadIDs |-> NoThread]
    /\ lives = [h \in Handles |-> NoLive]

(* A caller's variable for a Live is assigned again once its Live is closed. *)
Free(h) == lives[h] # NoLive => lives[h].closed

Opened(t, b) == [thread |-> t, branch |-> b, closed |-> FALSE]

(* Room for n more events under the bound. *)
Room(t, n) == threads[t].nextSeq + n - 1 <= MaxSeq

-----------------------------------------------------------------------------
(* Mutant: the empty branch id is not replaced by MainBranch in the handle. *)
CreateNoDefault(h, t, b) ==
    /\ Free(h)
    /\ t \notin Stored
    /\ threads' = [threads EXCEPT ![t] = NewThread(b)]
    /\ lives' = [lives EXCEPT ![h] = Opened(t, NoBranch)]

(* MemoryStore.Create *)
Create(h, t, b) ==
    /\ Free(h)
    /\ t \notin Stored
    /\ threads' = [threads EXCEPT ![t] = NewThread(b)]
    /\ lives' = [lives EXCEPT ![h] = Opened(t, b)]

(* MemoryStore.Resume; archived threads can be resumed. *)
Resume(h, t, b) ==
    /\ Free(h)
    /\ t \in Stored
    /\ b \in BranchesOf(threads[t])
    /\ lives' = [lives EXCEPT ![h] = Opened(t, b)]
    /\ UNCHANGED threads

(* Mutant: forking to a branch that exists is not refused. *)
ForkAgain(h, t, from, to) ==
    /\ Free(h)
    /\ t \in Stored
    /\ from \in BranchesOf(threads[t])
    /\ Room(t, 1)
    /\ threads' = [threads EXCEPT ![t] = ForkThread(@, from, to)]
    /\ lives' = [lives EXCEPT ![h] = Opened(t, to)]

(* MemoryStore.Fork *)
Fork(h, t, from, to) ==
    /\ Free(h)
    /\ t \in Stored
    /\ from \in BranchesOf(threads[t])
    /\ to \notin BranchesOf(threads[t])
    /\ Room(t, 1)
    /\ threads' = [threads EXCEPT ![t] = ForkThread(@, from, to)]
    /\ lives' = [lives EXCEPT ![h] = Opened(t, to)]

(* MemoryStore.Archive and MemoryStore.Unarchive *)
SetArchived(t, archived) ==
    /\ t \in Stored
    /\ Room(t, 1)
    /\ threads' = [threads EXCEPT ![t] = ArchiveThread(@, archived)]
    /\ UNCHANGED lives

(* memoryLive.Append: the handle must be open and its thread must still be   *)
(* in the map; the branch is the handle's.                                   *)
LiveAppend(h, batch) ==
    /\ lives[h] # NoLive
    /\ ~lives[h].closed
    /\ lives[h].thread \in Stored
    /\ Room(lives[h].thread, Len(batch))
    /\ threads' = [threads EXCEPT ![lives[h].thread] = AppendLocked(@, lives[h].branch, batch)]
    /\ UNCHANGED lives

(* memoryLive.Shutdown *)
Shutdown(h) ==
    /\ lives[h] # NoLive
    /\ lives' = [lives EXCEPT ![h].closed = TRUE]
    /\ UNCHANGED threads

(* memoryLive.Discard: only this handle is closed, other handles of the      *)
(* thread stay open and find the thread missing.                             *)
Discard(h) ==
    /\ lives[h] # NoLive
    /\ threads' = [threads EXCEPT ![lives[h].thread] = NoThread]
    /\ lives' = [lives EXCEPT ![h].closed = TRUE]

(* MemoryStore.DiscardThread *)
DiscardThread(t) ==
    /\ t \in Stored
    /\ threads' = [threads EXCEPT ![t] = NoThread]
    /\ UNCHANGED lives

Batches == UNION {[1..n -> {UserEvent(p) : p \in Payloads}] : n \in 1..MaxBatch}

Next ==
    \/ \E h \in Handles, t \in ThreadIDs, b \in BranchIDs : Create(h, t, b)
    \/ \E h \in Handles, t \in ThreadIDs, b \in BranchIDs : Resume(h, t, b)
    \/ \E h \in Handles, t \in ThreadIDs, from, to \in BranchIDs : Fork(h, t, from, to)
    \/ \E t \in ThreadIDs, archived \in BOOLEAN : SetArchived(t, archived)
    \/ \E h \in Handles, batch \in Batches : LiveAppend(h, batch)
    \/ \E h \in Handles : Shutdown(h)
    \/ \E h \in Handles : Discard(h)
    \/ \E t \in ThreadIDs : DiscardThread(t)

Spec == Init /\ [][Next]_vars

-----------------------------------------------------------------------------
(* Properties *)

Contiguous(th) ==
    /\ th.nextSeq = Len(th.events) + 1
    /\ \A i \in DOMAIN th.events : th.events[i].seq = i

(* appendLocked numbers a thread's events 1, 2, 3, ... with no gap and no    *)
(* repetition whatever mix of handles, forks and archive calls wrote them,   *)
(* and nextSeq is always the next number.                                    *)
SeqsContiguous == \A t \in Stored : Contiguous(threads[t])

ForksOrdered(th) ==
    \A b \in BranchesOf(th) :
        LET br == th.branches[b] IN
        /\ br.forkSeq + 1 < th.nextSeq
        /\ br.parent # NoBranch =>
             /\ br.parent \in BranchesOf(th)
             /\ th.branches[br.parent].forkSeq < br.forkSeq

(* Every branch but a root has a parent in the same thread that was forked   *)
(* strictly earlier, and every fork point lies before the branch's own first *)
(* event: the parent walk of branchWindows terminates and its windows do not *)
(* overlap.                                                                  *)
ForkTreeOrdered == \A t \in Stored : ForksOrdered(threads[t])

(* The events of branch p that a child forked at seq can see. *)
Window(th, p, seq) == {i \in DOMAIN th.events : th.events[i].branch = p /\ th.events[i].seq <= seq}

KeepsInheritance(th, next) ==
    \A b \in BranchesOf(th) :
        LET br == th.branches[b] IN
        /\ next.branches[b] = br
        /\ Window(next, br.parent, br.forkSeq) = Window(th, br.parent, br.forkSeq)
        /\ \A i \in DOMAIN th.events : i \in DOMAIN next.events /\ next.events[i] = th.events[i]

(* Once a branch is forked, what it inherits from its parent is frozen: no   *)
(* later operation on any handle adds an event to the parent's window,       *)
(* rewrites one, moves the fork point, or gives the branch another parent.   *)
(* Only discarding the thread ends it.                                       *)
InheritanceFrozen ==
    \A t \in Stored : t \in Stored' => KeepsInheritance(threads[t], threads'[t])

ForksAreIsolated == [][InheritanceFrozen]_vars

(* Import (the jsonl store's load path) rebuilds from the log alone exactly  *)
(* the thread that wrote it: branches, fork points, archived flag, default   *)
(* branch and next number. The exception is an event left by a handle of an  *)
(* earlier, discarded thread of the same id on a branch the thread lacks.    *)
ImportRebuildsThread ==
    \A t \in Stored :
        (\A i \in DOMAIN threads[t].events : threads[t].events[i].branch \in BranchesOf(threads[t]))
        => Import(threads[t].events) = threads[t]

(* EventsForBranch shows each branch the log it would have if a fork copied  *)
(* its parent's log: MemoryStore implements BranchedLog.                     *)
BranchViews ==
    [p \in UNION {{t} \X BranchesOf(threads[t]) : t \in Stored} |-> EventsForBranch(threads[p[1]], p[2])]

Abstract == INSTANCE BranchedLog WITH hist <- BranchViews

ImplementsBranchedLog == Abstract!Spec

=============================================================================
