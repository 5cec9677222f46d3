------------------------------ MODULE JsonlStore ------------------------------
(***************************************************************************)
(* thread/jsonlstore: one file of event lines per thread. A store          *)
(* operation loads every file into a private MemoryStore, changes that     *)
(* memory and, for Create, Fork and Archive, rewrites every file from it,  *)
(* one rename at a time; the mutex covers the load and the rewrite         *)
(* separately and belongs to one Store value, while each session opens its *)
(* own. A live handle keeps the memory it was opened with, appends to that *)
(* memory first and then writes the new lines to its file one by one.      *)
(*                                                                         *)
(* A process crash stops every operation between two writes and drops all  *)
(* handles. A line is written by one write call and is never torn here.    *)
(***************************************************************************)
EXTENDS ThreadLog, Subsequences, Functions

CONSTANTS ThreadIDs, Handles, NoThread, NoLive,
          Clients,      \* goroutines calling store operations
          NoOp,         \* the client is not inside an operation
          Serial,       \* TRUE: one call at a time, and each thread opened once (one session)
          MaxSeq,       \* bound: last sequence number of a thread
          MaxLines,     \* bound: lines of one file (retries write lines twice)
          MaxBatch      \* bound: events in one Append call

ASSUME JsonlStoreAssumption ==
    /\ NoThread \notin Threads
    /\ Serial \in BOOLEAN
    /\ {MaxSeq, MaxLines, MaxBatch} \subseteq Nat

VARIABLES files,        \* thread -> its lines; << >> when there is no file
          ops,          \* client -> the operation it is rewriting files for
          lives,        \* handle -> liveThread
          acked         \* thread -> events whose Append returned nil (history)

vars == <<files, ops, lives, acked>>

Lives == [thread: ThreadIDs, branch: BranchIDs, nextSeq: Nat, mem: Threads, pending: Seq(Events)]

Memories == [ThreadIDs -> Threads \cup {NoThread}]

Targets == [handle: Handles, thread: ThreadIDs, branch: BranchIDs]

(* The one type invariant. An operation's target is the handle its caller    *)
(* gets back, NoLive for Archive.                                            *)
TypeOK ==
    /\ files \in [ThreadIDs -> Seq(Events)]
    /\ ops \in [Clients -> [mem: Memories, todo: SUBSET ThreadIDs, target: Targets \cup {NoLive}] \cup {NoOp}]
    /\ lives \in [Handles -> Lives \cup {NoLive}]
    /\ acked \in [ThreadIDs -> Seq(Events)]

Init ==
    /\ files = [t \in ThreadIDs |-> << >>]
    /\ ops = [c \in Clients |-> NoOp]
    /\ lives = [h \in Handles |-> NoLive]
    /\ acked = [t \in ThreadIDs |-> << >>]

-----------------------------------------------------------------------------
(* Store.loadMemory: a file without lines imports nothing. *)
LoadMemory == [t \in ThreadIDs |-> IF files[t] = << >> THEN NoThread ELSE Import(files[t])]

(* nextSeq: one more than the largest number in the events. *)
NextSeq(events) == MaxSeqOf(events) + 1

(* The events numbered from or above, in their order. *)
Unsaved(events, from) == Picked(events, {i \in DOMAIN events : events[i].seq >= from})

LiveOf(target, th) ==
    [thread |-> target.thread, branch |-> target.branch,
     nextSeq |-> NextSeq(th.events), mem |-> th, pending |-> << >>]

Free(h) ==
    /\ lives[h] = NoLive
    /\ \A c \in Clients : ops[c] # NoOp /\ ops[c].target # NoLive => ops[c].target.handle # h

(* With Serial, no other call is in progress ... *)
Quiet ==
    Serial => /\ \A c \in Clients : ops[c] = NoOp
              /\ \A h \in Handles : lives[h] # NoLive => lives[h].pending = << >>

(* ... and nobody has the thread open. *)
MayOpen(t) ==
    /\ Quiet
    /\ Serial => \A h \in Handles : lives[h] # NoLive => lives[h].thread # t

Room(th, n) == th.nextSeq + n - 1 <= MaxSeq

(* The handle's next Append of n events stays within the bounds. *)
Fits(h, n) ==
    /\ Room(lives[h].mem, n)
    /\ Len(files[lives[h].thread]) + lives[h].mem.nextSeq + n - lives[h].nextSeq <= MaxLines

(* Load, change the private memory and start to rewrite every file. *)
StartRewrite(c, mem, target) ==
    /\ ops' = [ops EXCEPT ![c] = [mem |-> mem, todo |-> {t \in ThreadIDs : mem[t] # NoThread},
                                  target |-> target]]
    /\ UNCHANGED <<files, lives, acked>>

(* Store.Create up to its rewrite *)
Create(c, h, t, b) ==
    /\ ops[c] = NoOp
    /\ Free(h)
    /\ MayOpen(t)
    /\ LoadMemory[t] = NoThread
    /\ StartRewrite(c, [LoadMemory EXCEPT ![t] = NewThread(b)],
                    [handle |-> h, thread |-> t, branch |-> b])

(* Store.Fork up to its rewrite *)
Fork(c, h, t, from, to) ==
    LET mem == LoadMemory IN
    /\ ops[c] = NoOp
    /\ Free(h)
    /\ MayOpen(t)
    /\ mem[t] # NoThread
    /\ from \in BranchesOf(mem[t])
    /\ to \notin BranchesOf(mem[t])
    /\ Room(mem[t], 1)
    /\ StartRewrite(c, [mem EXCEPT ![t] = ForkThread(@, from, to)],
                    [handle |-> h, thread |-> t, branch |-> to])

(* Store.Archive and Store.Unarchive up to their rewrite *)
SetArchived(c, t, archived) ==
    LET mem == LoadMemory IN
    /\ ops[c] = NoOp
    /\ MayOpen(t)
    /\ mem[t] # NoThread
    /\ Room(mem[t], 1)
    /\ StartRewrite(c, [mem EXCEPT ![t] = ArchiveThread(@, archived)], NoLive)

(* Mutant: the file is rewritten with the last event missing. *)
RewriteFileShort(c, t) ==
    /\ ops[c] # NoOp
    /\ t \in ops[c].todo
    /\ files' = [files EXCEPT ![t] = SubSeq(ops[c].mem[t].events, 1, Len(ops[c].mem[t].events) - 1)]
    /\ ops' = [ops EXCEPT ![c].todo = @ \ {t}]
    /\ UNCHANGED <<lives, acked>>

(* One writeThreadFile of Store.rewrite, in the order of List, which is by   *)
(* update time: any order. The rename replaces the file as a whole.          *)
RewriteFile(c, t) ==
    /\ ops[c] # NoOp
    /\ t \in ops[c].todo
    /\ files' = [files EXCEPT ![t] = ops[c].mem[t].events]
    /\ ops' = [ops EXCEPT ![c].todo = @ \ {t}]
    /\ UNCHANGED <<lives, acked>>

(* The operation returns, with a handle on its memory for Create and Fork. *)
FinishRewrite(c) ==
    /\ ops[c] # NoOp
    /\ ops[c].todo = {}
    /\ LET target == ops[c].target IN
       lives' = IF target = NoLive THEN lives
                ELSE [lives EXCEPT ![target.handle] = LiveOf(target, ops[c].mem[target.thread])]
    /\ ops' = [ops EXCEPT ![c] = NoOp]
    /\ UNCHANGED <<files, acked>>

(* writeThreadFile fails or the context is cancelled: files rewritten so far *)
(* stay rewritten.                                                           *)
RewriteFails(c) ==
    /\ ops[c] # NoOp
    /\ ops[c].todo # {}
    /\ ops' = [ops EXCEPT ![c] = NoOp]
    /\ UNCHANGED <<files, lives, acked>>

(* Store.Resume *)
Resume(c, h, t, b) ==
    LET mem == LoadMemory IN
    /\ ops[c] = NoOp
    /\ Free(h)
    /\ MayOpen(t)
    /\ mem[t] # NoThread
    /\ b \in BranchesOf(mem[t])
    /\ lives' = [lives EXCEPT ![h] = LiveOf([handle |-> h, thread |-> t, branch |-> b], mem[t])]
    /\ UNCHANGED <<files, ops, acked>>

-----------------------------------------------------------------------------
(* liveThread.Append up to the file: the memory takes the batch, and every   *)
(* event numbered nextSeq or above is to be written, events left over from a *)
(* call that failed included.                                                *)
AppendStart(h, batch) ==
    /\ lives[h] # NoLive
    /\ lives[h].pending = << >>
    /\ Quiet
    /\ Fits(h, Len(batch))
    /\ LET mem == AppendLocked(lives[h].mem, lives[h].branch, batch)
       IN  lives' = [lives EXCEPT ![h].mem = mem,
                                  ![h].pending = Unsaved(mem.events, lives[h].nextSeq)]
    /\ UNCHANGED <<files, ops, acked>>

(* Mutant: Append reports success once the first line is written. *)
WriteLineEarlyAck(h) ==
    /\ lives[h] # NoLive
    /\ lives[h].pending # << >>
    /\ LET t == lives[h].thread IN
       /\ files' = [files EXCEPT ![t] = Append(@, Head(lives[h].pending))]
       /\ lives' = [lives EXCEPT ![h].pending = Tail(@), ![h].nextSeq = NextSeq(lives[h].mem.events)]
       /\ acked' = [acked EXCEPT ![t] =
                       @ \o Unsaved(lives[h].mem.events, lives[h].nextSeq)]
    /\ UNCHANGED ops

(* appendThreadFile writes one line. The last write is followed by the sync  *)
(* and Append returns nil.                                                   *)
WriteLine(h) ==
    /\ lives[h] # NoLive
    /\ lives[h].pending # << >>
    /\ LET t == lives[h].thread
           last == Len(lives[h].pending) = 1
       IN  /\ files' = [files EXCEPT ![t] = Append(@, Head(lives[h].pending))]
           /\ lives' = [lives EXCEPT ![h].pending = Tail(@),
                                     ![h].nextSeq = IF last THEN NextSeq(lives[h].mem.events) ELSE @]
           /\ acked' = [acked EXCEPT ![t] = IF last
                           THEN @ \o Unsaved(lives[h].mem.events, lives[h].nextSeq)
                           ELSE @]
    /\ UNCHANGED ops

(* Mutant: a failed call advances nextSeq. *)
WriteFailsAdvances(h) ==
    /\ lives[h] # NoLive
    /\ lives[h].pending # << >>
    /\ lives' = [lives EXCEPT ![h].pending = << >>, ![h].nextSeq = NextSeq(lives[h].mem.events)]
    /\ UNCHANGED <<files, ops, acked>>

(* appendThreadFile fails before a line: lines written so far stay, the      *)
(* memory keeps the batch and nextSeq does not move.                         *)
WriteFails(h) ==
    /\ lives[h] # NoLive
    /\ lives[h].pending # << >>
    /\ lives' = [lives EXCEPT ![h].pending = << >>]
    /\ UNCHANGED <<files, ops, acked>>

(* The last line is written and the sync fails: Append returns an error.     *)
SyncFails(h) ==
    /\ lives[h] # NoLive
    /\ Len(lives[h].pending) = 1
    /\ files' = [files EXCEPT ![lives[h].thread] = Append(@, Head(lives[h].pending))]
    /\ lives' = [lives EXCEPT ![h].pending = << >>]
    /\ UNCHANGED <<ops, acked>>

(* liveThread.Shutdown: a closed handle refuses every Append, so it is       *)
(* forgotten, and with it the events it could not save.                      *)
Shutdown(h) ==
    /\ lives[h] # NoLive
    /\ lives[h].pending = << >>
    /\ lives' = [lives EXCEPT ![h] = NoLive]
    /\ UNCHANGED <<files, ops, acked>>

(* liveThread.Discard *)
Discard(h) ==
    /\ lives[h] # NoLive
    /\ lives[h].pending = << >>
    /\ Quiet
    /\ lives' = [lives EXCEPT ![h] = NoLive]
    /\ files' = [files EXCEPT ![lives[h].thread] = << >>]
    /\ acked' = [acked EXCEPT ![lives[h].thread] = << >>]
    /\ UNCHANGED ops

(* The process dies. *)
Crash ==
    /\ ops' = [c \in Clients |-> NoOp]
    /\ lives' = [h \in Handles |-> NoLive]
    /\ UNCHANGED <<files, acked>>

Batches == UNION {[1..n -> {UserEvent(p) : p \in Payloads}] : n \in 1..MaxBatch}

Next ==
    \/ \E c \in Clients, h \in Handles, t \in ThreadIDs, b \in BranchIDs : Create(c, h, t, b)
    \/ \E c \in Clients, h \in Handles, t \in ThreadIDs, from, to \in BranchIDs : Fork(c, h, t, from, to)
    \/ \E c \in Clients, t \in ThreadIDs, archived \in BOOLEAN : SetArchived(c, t, archived)
    \/ \E c \in Clients, t \in ThreadIDs : RewriteFile(c, t)
    \/ \E c \in Clients : FinishRewrite(c)
    \/ \E c \in Clients : RewriteFails(c)
    \/ \E c \in Clients, h \in Handles, t \in ThreadIDs, b \in BranchIDs : Resume(c, h, t, b)
    \/ \E h \in Handles, batch \in Batches : AppendStart(h, batch)
    \/ \E h \in Handles : WriteLine(h)
    \/ \E h \in Handles : WriteFails(h)
    \/ \E h \in Handles : SyncFails(h)
    \/ \E h \in Handles : Shutdown(h)
    \/ \E h \in Handles : Discard(h)
    \/ Crash

Spec == Init /\ [][Next]_vars

-----------------------------------------------------------------------------
(* Properties *)

FirstLine(t, e) == CHOOSE i \in DOMAIN files[t] : files[t][i] = e /\ \A j \in 1..(i - 1) : files[t][j] # e

(* An event whose Append returned nil stays in its thread's file, and        *)
(* acknowledged events stand there in the order they were acknowledged, at   *)
(* every point at which the process may die or a write may fail.             *)
AckedDurable ==
    \A t \in ThreadIDs :
        /\ Range(acked[t]) \subseteq Range(files[t])
        /\ \A i, j \in DOMAIN acked[t] : i < j => FirstLine(t, acked[t][i]) < FirstLine(t, acked[t][j])

(* What an open handle believes to be saved (numbers below its nextSeq) is   *)
(* on disk, and all that is on disk is in its memory: its private memory     *)
(* never lags the file, so that no later number is given out twice.          *)
LiveKnowsDisk ==
    \A h \in Handles : lives[h] # NoLive =>
        LET live == lives[h] IN
        /\ Range(files[live.thread]) \subseteq Range(live.mem.events)
        /\ \A e \in Range(live.mem.events) : e.seq < live.nextSeq => e \in Range(files[live.thread])

(* Two lines of a file with one sequence number are one event written twice  *)
(* (by a retry after a failed write), also across crashes and reopening.     *)
NumbersIdentifyEvents ==
    \A t \in ThreadIDs : \A i, j \in DOMAIN files[t] :
        files[t][i].seq = files[t][j].seq => files[t][i] = files[t][j]

(* Files, handles and acknowledgements agree: the state is well formed, what *)
(* was acknowledged is on disk in its order, every handle knows what its     *)
(* file holds, and a number stands for one event (liveThread.Append,         *)
(* appendThreadFile, rewrite).                                               *)
HandlesAgreeWithFiles == TypeOK /\ AckedDurable /\ LiveKnowsDisk /\ NumbersIdentifyEvents

(* The log on disk is append-only: rewriting a file never loses or changes a *)
(* line. Discard, which removes the file, is the exception.                  *)
AppendOnly ==
    [][\A t \in ThreadIDs :
         \/ Len(files[t]) <= Len(files'[t]) /\ \A i \in DOMAIN files[t] : files'[t][i] = files[t][i]
         \/ \E h \in Handles : Discard(h) /\ lives[h].thread = t]_vars

(* What a reader sees of every branch, from the files alone, obeys           *)
(* BranchedLog through partial batches, retries and crashes.                 *)
OnDisk == {t \in ThreadIDs : files[t] # << >>}

BranchViews ==
    LET mem == LoadMemory
    IN  [p \in UNION {{t} \X BranchesOf(mem[t]) : t \in OnDisk} |-> EventsForBranch(mem[p[1]], p[2])]

Abstract == INSTANCE BranchedLog WITH hist <- BranchViews

ImplementsBranchedLog == Abstract!Spec

=============================================================================
