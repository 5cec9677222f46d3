-------------------------- MODULE ThreadStoreProofs --------------------------
(***************************************************************************)
(* MemoryStore for any number of threads, branches, handles and events.    *)
(* The inductive invariant is the conjunction of the type invariant, the   *)
(* numbering of events and the order of the fork tree: a fork point is     *)
(* nextSeq - 1, which is above the parent's fork point only because every  *)
(* branch already has an event after its own; and what a branch inherits   *)
(* is frozen because new events are numbered above every fork point.       *)
(* Import is right because every log explains its thread (Explains).       *)
(*                                                                         *)
(* MemoryStore implements BranchedLog. EventsForBranch and BranchPath are  *)
(* recursive functions: that each is given step by step is shown by        *)
(* induction, on the length of the log, and on the fork point, which is    *)
(* lower for the parent than for the branch.  An operation keeps the path  *)
(* of every branch and numbers its events above every fork point, so they  *)
(* are seen on the branch it is called on and on no other; a fork sees     *)
(* what its parent saw.                                                    *)
(***************************************************************************)
EXTENDS ThreadStore, SequenceTheorems, InductionLemmas, TLAPS

IndInv == TypeOK /\ SeqsContiguous /\ ForkTreeOrdered

(* What an invariant step needs to know of one thread. *)
Good(th) == th \in Threads /\ Contiguous(th) /\ ForksOrdered(th)

(* Weaker: a branch may lack its first own event, as between the two halves  *)
(* of Fork.                                                                  *)
Forking(th) ==
    /\ th \in Threads
    /\ Contiguous(th)
    /\ \A b \in BranchesOf(th) :
         /\ th.branches[b].forkSeq < th.nextSeq
         /\ th.branches[b].parent # NoBranch =>
              /\ th.branches[b].parent \in BranchesOf(th)
              /\ th.branches[th.branches[b].parent].forkSeq < th.branches[b].forkSeq

-----------------------------------------------------------------------------
(* The pure operations on one thread *)

(* Arithmetic on sequence numbers. *)
LEMMA Renumber ==
    ASSUME NEW n \in Int, NEW l \in Int, NEW i \in Int, n = l + 1
    PROVE  n + (i - l) - 1 = i
BY SMTT(60), Zenon

(* appendLocked keeps everything but events and nextSeq, and adds            *)
(* Len(batch) events numbered from nextSeq on.                               *)
LEMMA AppendLockedShape ==
    ASSUME NEW th \in Threads, Contiguous(th), NEW branch \in BranchIDs,
           NEW batch \in Seq(NewEvents)
    PROVE  LET next == AppendLocked(th, branch, batch) IN
           /\ next \in Threads
           /\ Contiguous(next)
           /\ next.branches = th.branches
           /\ next.nextSeq = th.nextSeq + Len(batch)
           /\ Len(next.events) = Len(th.events) + Len(batch)
           /\ \A i \in DOMAIN th.events : next.events[i] = th.events[i]
           /\ next.branchID = th.branchID /\ next.archived = th.archived
           /\ \A i \in 1..Len(batch) :
                next.events[Len(th.events) + i] = Stamp(batch[i], th.nextSeq + i - 1, branch)
<1> DEFINE next == AppendLocked(th, branch, batch)
           tail == [i \in 1..Len(batch) |-> Stamp(batch[i], th.nextSeq + i - 1, branch)]
<1>1. /\ th.events \in Seq(Events) /\ th.nextSeq \in Nat
      /\ Len(batch) \in Nat
      /\ Len(th.events) \in Nat
      /\ th.nextSeq = Len(th.events) + 1
  BY DEF Threads, Contiguous
<1>n. \A i \in 1..Len(th.events) : th.events[i].seq = i
  BY <1>1 DEF Contiguous
<1>2. \A i \in 1..Len(batch) :
        /\ Stamp(batch[i], th.nextSeq + i - 1, branch) \in Events
        /\ Stamp(batch[i], th.nextSeq + i - 1, branch).seq = th.nextSeq + i - 1
  <2> TAKE i \in 1..Len(batch)
  <2>1. batch[i] \in NewEvents
    OBVIOUS
  <2>2. th.nextSeq + i - 1 \in Nat
    BY <1>1
  <2> QED
    BY <2>1, <2>2 DEF Stamp, NewEvents, Events
<1>3. tail \in Seq(Events) /\ Len(tail) = Len(batch)
  BY <1>1, <1>2
<1>4. next = [th EXCEPT !.events = th.events \o tail, !.nextSeq = th.nextSeq + Len(batch)]
  BY DEF AppendLocked
<1>t. \A i \in 1..Len(batch) : tail[i] \in Events /\ tail[i].seq = th.nextSeq + i - 1
  BY <1>2
<1>s. \A i \in 1..Len(batch) : tail[i] = Stamp(batch[i], th.nextSeq + i - 1, branch)
  OBVIOUS
<1> HIDE DEF next, tail
<1>5. /\ next.events = th.events \o tail
      /\ next.nextSeq = th.nextSeq + Len(batch)
      /\ next.branches = th.branches
      /\ next.branchID = th.branchID /\ next.archived = th.archived
  BY <1>4 DEF Threads
<1>6. /\ next.events \in Seq(Events)
      /\ Len(next.events) = Len(th.events) + Len(batch)
      /\ \A i \in 1..(Len(th.events) + Len(batch)) :
           next.events[i] = IF i <= Len(th.events) THEN th.events[i] ELSE tail[i - Len(th.events)]
  <2>0. th.events \in Seq(Events) /\ tail \in Seq(Events)
    BY <1>1, <1>3
  <2>1. /\ th.events \o tail \in Seq(Events)
        /\ Len(th.events \o tail) = Len(th.events) + Len(tail)
        /\ \A i \in 1..(Len(th.events) + Len(tail)) :
             (th.events \o tail)[i] = IF i <= Len(th.events) THEN th.events[i] ELSE tail[i - Len(th.events)]
    BY <2>0, ConcatProperties
  <2> QED
    BY <2>1, <1>3, <1>5
<1>7. next \in Threads
  <2>1. th.nextSeq + Len(batch) \in Nat /\ th.events \o tail \in Seq(Events)
    BY <1>1, <1>5, <1>6
  <2> QED
    BY <2>1, <1>4, Zenon DEF Threads
<1>8. \A i \in 1..Len(th.events) : next.events[i] = th.events[i]
  BY <1>1, <1>6
<1>9. \A i \in (Len(th.events) + 1)..(Len(th.events) + Len(batch)) : next.events[i].seq = i
  <2> TAKE i \in (Len(th.events) + 1)..(Len(th.events) + Len(batch))
  <2>1. next.events[i] = tail[i - Len(th.events)] /\ i - Len(th.events) \in 1..Len(batch)
    BY <1>1, <1>6
  <2>2. tail[i - Len(th.events)].seq = th.nextSeq + (i - Len(th.events)) - 1
    BY <2>1, <1>t
  <2>3. th.nextSeq + (i - Len(th.events)) - 1 = i
    <3>1. i \in Int /\ th.nextSeq \in Int /\ Len(th.events) \in Int /\ th.nextSeq = Len(th.events) + 1
      BY <1>1
    <3> QED
      BY <3>1, Renumber, Zenon
  <2> QED
    BY <2>1, <2>2, <2>3
<1>10. Contiguous(next)
  <2>1. DOMAIN next.events = 1..(Len(th.events) + Len(batch))
    BY <1>6
  <2>2. \A i \in DOMAIN next.events : next.events[i].seq = i
    BY <2>1, <1>1, <1>n, <1>8, <1>9
  <2> QED
    BY <2>2, <1>1, <1>5, <1>6 DEF Contiguous
<1>11. \A i \in 1..Len(batch) :
         next.events[Len(th.events) + i] = Stamp(batch[i], th.nextSeq + i - 1, branch)
  <2> TAKE i \in 1..Len(batch)
  <2>1. /\ Len(th.events) + i \in 1..(Len(th.events) + Len(batch))
        /\ ~(Len(th.events) + i <= Len(th.events))
        /\ (Len(th.events) + i) - Len(th.events) = i
    BY <1>1
  <2> QED
    BY <2>1, <1>6, <1>s, Zenon
<1> QED
  BY <1>1, <1>5, <1>6, <1>7, <1>8, <1>10, <1>11 DEF next

(* The same for one event. *)
LEMMA AppendOneShape ==
    ASSUME NEW th \in Threads, Contiguous(th), NEW branch \in BranchIDs, NEW e \in NewEvents
    PROVE  LET next == AppendLocked(th, branch, << e >>)
               n == Len(th.events) IN
           /\ next \in Threads
           /\ next.branches = th.branches /\ next.branchID = th.branchID /\ next.archived = th.archived
           /\ DOMAIN next.events = 1..(n + 1) /\ DOMAIN next.events = DOMAIN th.events \cup {n + 1}
           /\ \A i \in DOMAIN th.events : next.events[i] = th.events[i]
           /\ next.events[n + 1] = Stamp(e, n + 1, branch)
<1> DEFINE batch == << e >>
           next == AppendLocked(th, branch, batch)
           n == Len(th.events)
<1>1. batch \in Seq(NewEvents) /\ Len(batch) = 1 /\ batch[1] = e
  OBVIOUS
<1>2. th.events \in Seq(Events) /\ n \in Nat /\ DOMAIN th.events = 1..n /\ th.nextSeq = n + 1
  BY DEF Threads, Contiguous
<1>q. batch = << e >>
  OBVIOUS
<1> HIDE DEF batch
<1>3. /\ next \in Threads
      /\ next.branches = th.branches
      /\ Len(next.events) = n + Len(batch)
      /\ \A i \in DOMAIN th.events : next.events[i] = th.events[i]
      /\ next.branchID = th.branchID /\ next.archived = th.archived
      /\ \A i \in 1..Len(batch) : next.events[n + i] = Stamp(batch[i], th.nextSeq + i - 1, branch)
  BY <1>1, AppendLockedShape, Zenon
<1> HIDE DEF next
<1>4. next.events[n + 1] = Stamp(e, th.nextSeq + 1 - 1, branch)
  <2>1. 1 \in 1..Len(batch)
    BY <1>1
  <2> QED
    BY <1>1, <1>3, <2>1
<1>5. th.nextSeq + 1 - 1 = n + 1
  BY <1>2
<1>6. DOMAIN next.events = 1..(n + 1)
  BY <1>1, <1>3 DEF Threads
<1>7. 1..(n + 1) = (1..n) \cup {n + 1}
  BY <1>2
<1>8. next = AppendLocked(th, branch, << e >>)
  BY <1>q DEF next
<1> HIDE DEF n
<1>9. /\ next \in Threads
      /\ next.branches = th.branches /\ next.branchID = th.branchID /\ next.archived = th.archived
      /\ DOMAIN next.events = 1..(n + 1) /\ DOMAIN next.events = DOMAIN th.events \cup {n + 1}
      /\ \A i \in DOMAIN th.events : next.events[i] = th.events[i]
      /\ next.events[n + 1] = Stamp(e, n + 1, branch)
  BY <1>2, <1>3, <1>4, <1>5, <1>6, <1>7
<1> QED
  BY <1>8, <1>9 DEF n

(* Appending to any branch makes the thread good and keeps everything each   *)
(* branch inherits.                                                          *)
LEMMA AppendLockedGood ==
    ASSUME NEW th, Forking(th), NEW branch \in BranchIDs, NEW batch \in Seq(NewEvents), Len(batch) > 0
    PROVE  LET next == AppendLocked(th, branch, batch) IN Good(next) /\ KeepsInheritance(th, next)
<1> DEFINE next == AppendLocked(th, branch, batch)
<1>1. /\ next \in Threads /\ Contiguous(next)
      /\ next.branches = th.branches
      /\ next.nextSeq = th.nextSeq + Len(batch)
      /\ Len(next.events) = Len(th.events) + Len(batch)
      /\ \A i \in DOMAIN th.events : next.events[i] = th.events[i]
  BY AppendLockedShape DEF Forking
<1> HIDE DEF next
<1>2. /\ th.nextSeq \in Nat /\ Len(batch) \in Nat /\ Len(th.events) \in Nat
      /\ DOMAIN th.events = 1..Len(th.events)
      /\ DOMAIN next.events = 1..Len(next.events)
      /\ th.branches \in [BranchIDs -> Branches \cup {NoBranch}]
  BY <1>1 DEF Forking, Threads
<1>3. BranchesOf(next) = BranchesOf(th)
  BY <1>1 DEF BranchesOf
<1>4. \A b \in BranchesOf(th) : th.branches[b] \in Branches
  BY <1>2 DEF BranchesOf
<1>5. ForksOrdered(next)
  <2>1. \A b \in BranchesOf(th) : th.branches[b].forkSeq + 1 < th.nextSeq + Len(batch)
    BY <1>2, <1>4 DEF Forking, Branches
  <2> QED
    BY <2>1, <1>1, <1>3 DEF Forking, ForksOrdered
<1>6. ASSUME NEW b \in BranchesOf(th)
      PROVE  Window(next, th.branches[b].parent, th.branches[b].forkSeq)
               = Window(th, th.branches[b].parent, th.branches[b].forkSeq)
  <2>1. th.branches[b].forkSeq \in Nat /\ th.branches[b].forkSeq < Len(th.events) + 1
    BY <1>4 DEF Forking, Contiguous, Branches
  <2>2. \A i \in DOMAIN next.events : next.events[i].seq = i
    BY <1>1 DEF Contiguous
  <2>3. \A i \in DOMAIN next.events :
          next.events[i].seq <= th.branches[b].forkSeq => i \in DOMAIN th.events
    BY <1>1, <1>2, <2>1, <2>2, SMTT(60), Zenon
  <2>4. DOMAIN th.events \subseteq DOMAIN next.events
    BY <1>1, <1>2
  <2> QED
    BY <1>1, <2>3, <2>4 DEF Window
<1>7. KeepsInheritance(th, next)
  <2>1. DOMAIN th.events \subseteq DOMAIN next.events
    BY <1>1, <1>2
  <2> QED
    BY <2>1, <1>1, <1>6 DEF KeepsInheritance
<1> QED
  BY <1>1, <1>5, <1>7 DEF Good, next

(* A good thread is a forking one. *)
LEMMA GoodForking ==
    ASSUME NEW th, Good(th)
    PROVE  Forking(th)
<1>1. th.nextSeq \in Nat /\ \A b \in BranchesOf(th) : th.branches[b] \in Branches
  BY DEF Good, Threads, BranchesOf
<1> QED
  BY <1>1 DEF Good, Forking, ForksOrdered, Branches

(* Create's new thread is good. *)
LEMMA NewThreadGood ==
    ASSUME NEW b \in BranchIDs
    PROVE  Good(NewThread(b))
<1> DEFINE e == Stamp(CoreEvent("thread.created"), 1, b)
           th == NewThread(b)
<1>1. e \in Events /\ e.seq = 1
  BY DEF Stamp, CoreEvent, Events, Kinds
<1>2. << e >> \in Seq(Events) /\ Len(<< e >>) = 1 /\ << e >>[1] = e /\ DOMAIN << e >> = {1}
  BY <1>1
<1>3. OnlyRoot(b) \in [BranchIDs -> Branches \cup {NoBranch}]
  BY DEF OnlyRoot, RootBranch, Branches
<1>4. th = [branchID |-> b, branches |-> OnlyRoot(b), archived |-> FALSE, nextSeq |-> 2, events |-> << e >>]
  BY DEF NewThread
<1> HIDE DEF e, th
<1>5. th \in Threads
  BY <1>2, <1>3, <1>4 DEF Threads
<1>6. Contiguous(th)
  BY <1>1, <1>2, <1>4 DEF Contiguous
<1>7. BranchesOf(th) \subseteq {b} /\ th.branches[b] = RootBranch
  BY <1>4 DEF BranchesOf, OnlyRoot
<1>8. ForksOrdered(th)
  <2>1. th.nextSeq = 2 /\ RootBranch.forkSeq = 0 /\ RootBranch.parent = NoBranch
    BY <1>4 DEF RootBranch
  <2> QED
    BY <2>1, <1>7 DEF ForksOrdered
<1> QED
  BY <1>5, <1>6, <1>8 DEF Good, th

(* Fork of a branch the thread has to one it lacks keeps the thread good and *)
(* leaves what every older branch inherits alone.                            *)
LEMMA ForkThreadGood ==
    ASSUME NEW th, Good(th), NEW from \in BranchesOf(th), NEW to \in BranchIDs,
           to \notin BranchesOf(th)
    PROVE  LET next == ForkThread(th, from, to) IN Good(next) /\ KeepsInheritance(th, next)
<1> DEFINE br == [parent |-> from, forkSeq |-> th.nextSeq - 1]
           mid == [th EXCEPT !.branches[to] = br]
           batch == << BranchCreatedEvent(from, th.nextSeq - 1) >>
           next == ForkThread(th, from, to)
<1>1. /\ th \in Threads /\ Contiguous(th) /\ ForksOrdered(th)
      /\ th.nextSeq \in Nat /\ Len(th.events) \in Nat /\ th.nextSeq = Len(th.events) + 1
      /\ th.branches \in [BranchIDs -> Branches \cup {NoBranch}]
      /\ from \in BranchIDs /\ from # to /\ from # NoBranch
  BY ThreadLogAssumption DEF Good, Threads, Contiguous, BranchesOf
<1>2. br \in Branches /\ br # NoBranch /\ br.parent = from /\ br.forkSeq = Len(th.events)
  BY <1>1, ThreadLogAssumption DEF Branches
<1>3. batch \in Seq(NewEvents) /\ Len(batch) > 0
  <2>1. BranchCreatedEvent(from, th.nextSeq - 1) \in NewEvents
    BY <1>1 DEF BranchCreatedEvent, NewEvents, Kinds
  <2> QED
    BY <2>1
<1>4. next = AppendLocked(mid, to, batch)
  BY DEF ForkThread
<1>5. mid = [th EXCEPT !.branches = [th.branches EXCEPT ![to] = br]]
  BY <1>1 DEF Threads
<1> HIDE DEF br, mid, batch, next
<1>6. /\ mid \in Threads /\ mid.nextSeq = th.nextSeq /\ mid.events = th.events
      /\ mid.branches = [th.branches EXCEPT ![to] = br]
  BY <1>1, <1>2, <1>5, SMTT(60), Zenon DEF Threads
<1>7. Contiguous(mid)
  BY <1>1, <1>6 DEF Contiguous
<1>8. /\ BranchesOf(mid) = BranchesOf(th) \cup {to}
      /\ mid.branches[to] = br
      /\ \A b \in BranchesOf(th) : mid.branches[b] = th.branches[b]
  BY <1>1, <1>2, <1>6 DEF BranchesOf
<1>9. Forking(mid)
  <2>1. ASSUME NEW b \in BranchesOf(mid)
        PROVE  /\ mid.branches[b].forkSeq < mid.nextSeq
               /\ mid.branches[b].parent # NoBranch =>
                    /\ mid.branches[b].parent \in BranchesOf(mid)
                    /\ mid.branches[mid.branches[b].parent].forkSeq < mid.branches[b].forkSeq
    <3>1. CASE b = to
      <4>1. th.branches[from].forkSeq \in Nat /\ th.branches[from].forkSeq + 1 < th.nextSeq
        BY <1>1 DEF ForksOrdered, BranchesOf, Branches
      <4> QED
        BY <3>1, <4>1, <1>1, <1>2, <1>6, <1>8, SMTT(60), Zenon
    <3>2. CASE b \in BranchesOf(th)
      BY <3>2, <1>1, <1>6, <1>8, GoodForking DEF Forking
    <3> QED
      BY <3>1, <3>2, <1>8
  <2> QED
    BY <2>1, <1>6, <1>7, SMTT(60), Zenon DEF Forking
<1>11. Good(next) /\ KeepsInheritance(mid, next)
  BY <1>3, <1>4, <1>9, AppendLockedGood, SMTT(60), Zenon
<1>12. KeepsInheritance(th, next)
  BY <1>6, <1>8, <1>11 DEF KeepsInheritance, Window
<1> QED
  BY <1>11, <1>12 DEF next

(* Archiving and unarchiving append one event on the default branch. *)
LEMMA ArchiveThreadGood ==
    ASSUME NEW th, Good(th), NEW archived \in BOOLEAN
    PROVE  LET next == ArchiveThread(th, archived) IN Good(next) /\ KeepsInheritance(th, next)
<1> DEFINE mid == [th EXCEPT !.archived = archived]
           e == CoreEvent(IF archived THEN "thread.archived" ELSE "thread.unarchived")
           next == ArchiveThread(th, archived)
<1>1. << e >> \in Seq(NewEvents) /\ Len(<< e >>) > 0
  <2>1. e \in NewEvents
    BY DEF CoreEvent, NewEvents, Kinds
  <2> QED
    BY <2>1
<1>2. next = AppendLocked(mid, th.branchID, << e >>) /\ th.branchID \in BranchIDs
  BY DEF ArchiveThread, Good, Threads
<1>3. /\ mid \in Threads /\ mid.nextSeq = th.nextSeq
      /\ mid.events = th.events /\ mid.branches = th.branches
  BY DEF Good, Threads
<1> HIDE DEF mid, e, next
<1>4. BranchesOf(mid) = BranchesOf(th)
  BY <1>3 DEF BranchesOf
<1>5. Good(mid)
  BY <1>3, <1>4 DEF Good, Contiguous, ForksOrdered
<1>6. Good(next) /\ KeepsInheritance(mid, next)
  BY <1>1, <1>2, <1>5, GoodForking, AppendLockedGood, Zenon
<1>7. KeepsInheritance(th, next)
  BY <1>3, <1>4, <1>6 DEF KeepsInheritance, Window
<1> QED
  BY <1>6, <1>7 DEF next

-----------------------------------------------------------------------------
(* A log and the thread that wrote it *)

Archivals == {"thread.archived", "thread.unarchived"}

(* thread.created is the first event and only that, on the default branch.   *)
StartsLog(th) ==
    /\ 1 \in DOMAIN th.events
    /\ \A i \in DOMAIN th.events : th.events[i].kind = "thread.created" <=> i = 1
    /\ th.events[1].branch = th.branchID
    /\ th.branches[th.branchID] = RootBranch

(* Every other branch has a branch.created event, and every such event       *)
(* carries the fork point the thread has for its branch.                     *)
LogsForks(th) ==
    /\ \A i \in DOMAIN th.events : th.events[i].kind = "branch.created" =>
         /\ th.events[i].branch # th.branchID
         /\ th.branches[th.events[i].branch]
              = [parent |-> th.events[i].from, forkSeq |-> th.events[i].forkSeq]
    /\ \A b \in BranchesOf(th) \ {th.branchID} :
         \E i \in DOMAIN th.events : th.events[i].kind = "branch.created" /\ th.events[i].branch = b

(* The last event about archiving says what the flag says. *)
LogsArchived(th) ==
    \/ ~th.archived /\ \A i \in DOMAIN th.events : th.events[i].kind \notin Archivals
    \/ \E i \in DOMAIN th.events :
         /\ th.events[i].kind = IF th.archived THEN "thread.archived" ELSE "thread.unarchived"
         /\ \A j \in DOMAIN th.events : j > i => th.events[j].kind \notin Archivals

(* The log explains the thread, whatever stray events it holds. *)
Explains(th) == StartsLog(th) /\ LogsForks(th) /\ LogsArchived(th)

(* Create's new thread is explained by its one event. *)
LEMMA NewThreadExplains ==
    ASSUME NEW b \in BranchIDs
    PROVE  Explains(NewThread(b))
<1> DEFINE e == Stamp(CoreEvent("thread.created"), 1, b)
           th == NewThread(b)
<1>1. e.kind = "thread.created" /\ e.branch = b
  BY DEF Stamp, CoreEvent
<1>2. << e >>[1] = e /\ DOMAIN << e >> = {1}
  OBVIOUS
<1>3. th.branchID = b /\ th.branches = OnlyRoot(b) /\ th.events = << e >> /\ th.archived = FALSE
  BY DEF NewThread
<1> HIDE DEF e, th
<1>4. BranchesOf(th) \subseteq {b} /\ th.branches[b] = RootBranch
  BY <1>3 DEF BranchesOf, OnlyRoot
<1> QED
  BY <1>1, <1>2, <1>3, <1>4 DEF Explains, StartsLog, LogsForks, LogsArchived, Archivals, th

(* Events of users explain nothing and hide nothing. *)
LEMMA UserAppendExplains ==
    ASSUME NEW th, Good(th), Explains(th), NEW branch \in BranchIDs,
           NEW batch \in Seq(NewEvents), \A k \in 1..Len(batch) : batch[k].kind = "user"
    PROVE  Explains(AppendLocked(th, branch, batch))
<1> DEFINE next == AppendLocked(th, branch, batch)
           n == Len(th.events)
<1>1. /\ next \in Threads
      /\ next.branches = th.branches /\ next.branchID = th.branchID /\ next.archived = th.archived
      /\ Len(next.events) = n + Len(batch)
      /\ \A i \in DOMAIN th.events : next.events[i] = th.events[i]
      /\ \A i \in 1..Len(batch) : next.events[n + i] = Stamp(batch[i], th.nextSeq + i - 1, branch)
  BY AppendLockedShape DEF Good
<1> HIDE DEF next
<1>2. /\ n \in Nat /\ Len(batch) \in Nat
      /\ DOMAIN th.events = 1..n /\ DOMAIN next.events = 1..(n + Len(batch))
  BY <1>1 DEF Good, Threads
<1>3. ASSUME NEW i \in DOMAIN next.events, i \notin DOMAIN th.events
      PROVE  next.events[i].kind = "user"
  <2>1. i - n \in 1..Len(batch) /\ n + (i - n) = i
    BY <1>2, <1>3, SMTT(60), Zenon
  <2>2. next.events[i] = Stamp(batch[i - n], th.nextSeq + (i - n) - 1, branch)
    BY <1>1, <2>1, SMTT(60), Zenon
  <2> QED
    BY <2>1, <2>2 DEF Stamp
<1>4. DOMAIN th.events \subseteq DOMAIN next.events
  BY <1>2
<1> HIDE DEF n
<1>5. BranchesOf(next) = BranchesOf(th)
  BY <1>1 DEF BranchesOf
<1>6. StartsLog(next)
  BY <1>1, <1>3, <1>4, Zenon, SMTT(60) DEF Explains, StartsLog
<1>7. LogsForks(next)
  <2>1. ASSUME NEW i \in DOMAIN next.events, next.events[i].kind = "branch.created"
        PROVE  i \in DOMAIN th.events /\ next.events[i] = th.events[i]
    BY <1>1, <1>3, <2>1, SMTT(60), Zenon
  <2>2. ASSUME NEW b \in BranchesOf(next) \ {next.branchID}
        PROVE  \E i \in DOMAIN next.events : next.events[i].kind = "branch.created" /\ next.events[i].branch = b
    BY <1>1, <1>4, <1>5, SMTT(60), Zenon DEF Explains, LogsForks
  <2> QED
    BY <1>1, <2>1, <2>2, SMTT(60), Zenon DEF Explains, LogsForks
<1>8. LogsArchived(next)
  <2>1. \A i \in DOMAIN next.events :
          next.events[i].kind \in Archivals => i \in DOMAIN th.events /\ next.events[i] = th.events[i]
    BY <1>1, <1>3 DEF Archivals
  <2>2. CASE ~th.archived /\ \A i \in DOMAIN th.events : th.events[i].kind \notin Archivals
    BY <1>1, <2>1, <2>2, SMTT(60), Zenon DEF LogsArchived
  <2>3. ASSUME NEW i \in DOMAIN th.events,
               th.events[i].kind = IF th.archived THEN "thread.archived" ELSE "thread.unarchived",
               \A j \in DOMAIN th.events : j > i => th.events[j].kind \notin Archivals
        PROVE  LogsArchived(next)
    BY <1>1, <1>4, <2>1, <2>3 DEF LogsArchived
  <2> QED
    BY <2>2, <2>3 DEF Explains, LogsArchived
<1> QED
  BY <1>6, <1>7, <1>8, SMTT(60), Zenon DEF Explains, next

(* A fork logs itself, on the branch it makes. *)
LEMMA ForkExplains ==
    ASSUME NEW th, Good(th), Explains(th), NEW from \in BranchesOf(th), NEW to \in BranchIDs,
           to \notin BranchesOf(th)
    PROVE  Explains(ForkThread(th, from, to))
<1> DEFINE br == [parent |-> from, forkSeq |-> th.nextSeq - 1]
           mid == [th EXCEPT !.branches[to] = br]
           e == BranchCreatedEvent(from, th.nextSeq - 1)
           next == ForkThread(th, from, to)
           n == Len(th.events)
           new == Stamp(e, th.nextSeq, to)
<1>1. /\ th \in Threads /\ th.events \in Seq(Events) /\ n \in Nat /\ DOMAIN th.events = 1..n
      /\ th.nextSeq = n + 1 /\ th.branches \in [BranchIDs -> Branches \cup {NoBranch}]
      /\ from \in BranchIDs /\ th.branchID \in BranchIDs
  BY DEF Good, Threads, Contiguous, BranchesOf
<1>2. br \in Branches /\ br # NoBranch
  BY <1>1, ThreadLogAssumption DEF Branches
<1>3. e \in NewEvents
  BY <1>1 DEF BranchCreatedEvent, NewEvents, Kinds
<1>4. next = AppendLocked(mid, to, << e >>)
  BY DEF ForkThread
<1>5. mid = [th EXCEPT !.branches = [th.branches EXCEPT ![to] = br]]
  BY <1>1 DEF Threads
<1>6. new.kind = "branch.created" /\ new.branch = to /\ br = [parent |-> new.from, forkSeq |-> new.forkSeq]
  BY DEF Stamp, BranchCreatedEvent
<1> HIDE DEF br, mid, e, next
<1>7. /\ mid \in Threads /\ mid.nextSeq = th.nextSeq /\ mid.events = th.events
      /\ mid.branchID = th.branchID /\ mid.archived = th.archived
      /\ mid.branches = [th.branches EXCEPT ![to] = br]
  BY <1>1, <1>2, <1>5, SMTT(60), Zenon DEF Threads
<1>8. Contiguous(mid)
  BY <1>7 DEF Good, Contiguous
<1>9. /\ next \in Threads
      /\ next.branches = mid.branches /\ next.branchID = th.branchID /\ next.archived = th.archived
      /\ DOMAIN next.events = 1..(n + 1) /\ DOMAIN next.events = DOMAIN th.events \cup {n + 1}
      /\ \A i \in DOMAIN th.events : next.events[i] = th.events[i]
      /\ next.events[n + 1] = Stamp(e, n + 1, to)
  BY <1>3, <1>4, <1>7, <1>8, AppendOneShape, SMTT(60), Zenon
<1>10. next.events[n + 1] = new
  BY <1>1, <1>9, SMTT(60), Zenon
<1>12. n + 1 # 1
  BY <1>1 DEF Explains, StartsLog
<1> HIDE DEF new
<1>13. /\ BranchesOf(next) = BranchesOf(th) \cup {to}
       /\ next.branches[to] = br
       /\ \A b \in BranchIDs \ {to} : next.branches[b] = th.branches[b]
  BY <1>1, <1>2, <1>7, <1>9 DEF BranchesOf
<1>14. th.branchID # to
  BY <1>1, ThreadLogAssumption, SMTT(60), Zenon DEF Explains, StartsLog, BranchesOf, RootBranch, Branches
<1>15. StartsLog(next)
  BY <1>1, <1>6, <1>9, <1>10, <1>12, <1>13, <1>14, SMTT(60), Zenon DEF Explains, StartsLog
<1>16. LogsForks(next)
  <2>1. ASSUME NEW i \in DOMAIN next.events, next.events[i].kind = "branch.created"
        PROVE  /\ next.events[i].branch # next.branchID
               /\ next.branches[next.events[i].branch]
                    = [parent |-> next.events[i].from, forkSeq |-> next.events[i].forkSeq]
    <3>1. CASE i = n + 1
      BY <3>1, <1>6, <1>9, <1>10, <1>13, <1>14, SMTT(60), Zenon
    <3>2. CASE i \in DOMAIN th.events
      <4>1. /\ next.events[i] = th.events[i] /\ th.events[i].branch # th.branchID
            /\ th.branches[th.events[i].branch]
                 = [parent |-> th.events[i].from, forkSeq |-> th.events[i].forkSeq]
        BY <2>1, <3>2, <1>9, SMTT(60), Zenon DEF Explains, LogsForks
      <4>2. th.events[i].branch \in BranchIDs /\ th.events[i] \in Events
        <5>1. i \in 1..Len(th.events)
          BY <3>2, <1>1
        <5>2. th.events[i] \in Events
          BY <5>1, <1>1, ElementOfSeq, SMTT(60), Zenon
        <5> QED
          BY <5>2 DEF Events
      <4>3. [parent |-> th.events[i].from, forkSeq |-> th.events[i].forkSeq] \in Branches
        BY <4>2 DEF Events, Branches
      <4>4. th.events[i].branch # to
        BY <4>1, <4>2, <4>3, ThreadLogAssumption DEF BranchesOf
      <4> QED
        BY <4>1, <4>2, <4>4, <1>9, <1>13, SMTT(60), Zenon
    <3> QED
      BY <3>1, <3>2, <1>9, SMTT(60), Zenon
  <2>2. ASSUME NEW b \in BranchesOf(next) \ {next.branchID}
        PROVE  \E i \in DOMAIN next.events : next.events[i].kind = "branch.created" /\ next.events[i].branch = b
    <3>1. CASE b = to
      BY <3>1, <1>6, <1>9, <1>10, SMTT(60), Zenon
    <3>2. CASE b \in BranchesOf(th)
      BY <3>2, <1>9 DEF Explains, LogsForks
    <3> QED
      BY <3>1, <3>2, <1>13
  <2> QED
    BY <2>1, <2>2, SMTT(60), Zenon DEF LogsForks
<1>17. LogsArchived(next)
  <2>1. \A i \in DOMAIN next.events :
          next.events[i].kind \in Archivals => i \in DOMAIN th.events /\ next.events[i] = th.events[i]
    BY <1>6, <1>9, <1>10 DEF Archivals
  <2>2. CASE ~th.archived /\ \A i \in DOMAIN th.events : th.events[i].kind \notin Archivals
    BY <1>9, <2>1, <2>2 DEF LogsArchived
  <2>3. ASSUME NEW i \in DOMAIN th.events,
               th.events[i].kind = IF th.archived THEN "thread.archived" ELSE "thread.unarchived",
               \A j \in DOMAIN th.events : j > i => th.events[j].kind \notin Archivals
        PROVE  LogsArchived(next)
    BY <1>9, <2>1, <2>3 DEF LogsArchived
  <2> QED
    BY <2>2, <2>3 DEF Explains, LogsArchived
<1> QED
  BY <1>15, <1>16, <1>17 DEF Explains, next

(* Archiving logs the flag it sets. *)
LEMMA ArchiveExplains ==
    ASSUME NEW th, Good(th), Explains(th), NEW archived \in BOOLEAN
    PROVE  Explains(ArchiveThread(th, archived))
<1> DEFINE kind == IF archived THEN "thread.archived" ELSE "thread.unarchived"
           mid == [th EXCEPT !.archived = archived]
           next == ArchiveThread(th, archived)
           n == Len(th.events)
           new == Stamp(CoreEvent(kind), n + 1, th.branchID)
<1>1. /\ th \in Threads /\ n \in Nat /\ DOMAIN th.events = 1..n /\ th.branchID \in BranchIDs
  BY DEF Good, Threads
<1>2. CoreEvent(kind) \in NewEvents /\ kind \in Archivals
  BY DEF CoreEvent, NewEvents, Kinds, Archivals
<1>3. next = AppendLocked(mid, th.branchID, << CoreEvent(kind) >>)
  BY DEF ArchiveThread
<1>4. new.kind = kind /\ new.kind \in Archivals /\ new.kind \notin {"thread.created", "branch.created"}
  BY DEF Stamp, CoreEvent, Archivals
<1>5. /\ mid \in Threads /\ mid.nextSeq = th.nextSeq /\ mid.events = th.events
      /\ mid.branchID = th.branchID /\ mid.branches = th.branches /\ mid.archived = archived
  BY <1>1 DEF Threads
<1> HIDE DEF next, mid
<1>6. Contiguous(mid)
  BY <1>5 DEF Good, Contiguous
<1>7. /\ next.branches = th.branches /\ next.branchID = th.branchID /\ next.archived = archived
      /\ DOMAIN next.events = DOMAIN th.events \cup {n + 1}
      /\ \A i \in DOMAIN th.events : next.events[i] = th.events[i]
      /\ next.events[n + 1] = new
  BY <1>1, <1>2, <1>3, <1>5, <1>6, AppendOneShape, SMTT(60), Zenon
<1> HIDE DEF new
<1>8. n + 1 # 1 /\ \A j \in DOMAIN next.events : ~(j > n + 1)
  BY <1>1, <1>7 DEF Explains, StartsLog
<1>9. BranchesOf(next) = BranchesOf(th)
  BY <1>7 DEF BranchesOf
<1>10. StartsLog(next)
  BY <1>1, <1>4, <1>7, <1>8, SMTT(60), Zenon DEF Explains, StartsLog
<1>11. LogsForks(next)
  <2>1. \A i \in DOMAIN next.events :
          next.events[i].kind = "branch.created" => i \in DOMAIN th.events /\ next.events[i] = th.events[i]
    BY <1>4, <1>7, SMTT(60), Zenon
  <2>2. \A b \in BranchesOf(next) \ {next.branchID} :
          \E i \in DOMAIN next.events : next.events[i].kind = "branch.created" /\ next.events[i].branch = b
    BY <1>7, <1>9 DEF Explains, LogsForks
  <2> QED
    BY <1>7, <2>1, <2>2 DEF Explains, LogsForks
<1>12. LogsArchived(next)
  BY <1>4, <1>7, <1>8 DEF LogsArchived
<1> QED
  BY <1>10, <1>11, <1>12 DEF Explains, next

(* LatestAt finds the greatest index. *)
LEMMA LatestAtIs ==
    ASSUME NEW n \in Nat, NEW is, is \subseteq 1..n, is # {}
    PROVE  LatestAt(is) \in is /\ \A j \in is : j <= LatestAt(is)
<1>1. is \subseteq 0..n
  OBVIOUS
<1>2. \E i \in is : \A j \in is : j <= i
  BY <1>1, GreatestNumber, Zenon
<1> QED
  BY <1>2, Zenon DEF LatestAt

(* Import of a log that explains its thread gives back the thread, when no   *)
(* event is on a branch the thread lacks.                                    *)
LEMMA ExplainedImport ==
    ASSUME NEW th, Good(th), Explains(th),
           \A i \in DOMAIN th.events : th.events[i].branch \in BranchesOf(th)
    PROVE  Import(th.events) = th
<1> DEFINE log == th.events
           n == Len(log)
<1>1. /\ th \in Threads /\ log \in Seq(Events) /\ n \in Nat /\ DOMAIN log = 1..n
      /\ th.nextSeq = n + 1 /\ \A i \in 1..n : log[i].seq = i
      /\ th.branches \in [BranchIDs -> Branches \cup {NoBranch}]
      /\ th.archived \in BOOLEAN
  BY DEF Good, Threads, Contiguous
<1>2. th = [branchID |-> th.branchID, branches |-> th.branches, archived |-> th.archived,
            nextSeq |-> th.nextSeq, events |-> th.events]
  BY <1>1 DEF Threads
<1>3. ImportDefault(log) = th.branchID
  <2>1. OfKind(log, {"thread.created"}) = {1}
    BY DEF OfKind, Explains, StartsLog
  <2>2. LatestAt({1}) = 1
    BY DEF LatestAt
  <2> QED
    BY <2>1, <2>2 DEF ImportDefault, Explains, StartsLog
<1>4. ASSUME NEW b \in BranchIDs
      PROVE  ImportBranch(log, b) = th.branches[b]
  <2> DEFINE created == {i \in OfKind(log, {"branch.created"}) : log[i].branch = b}
             at == LatestAt(created)
  <2>1. CASE created # {}
    <3>1. created \subseteq 1..n
      BY <1>1 DEF OfKind
    <3>2. at \in created
      <4> HIDE DEF created
      <4> QED
        BY <1>1, <2>1, <3>1, LatestAtIs, Zenon
    <3>3. /\ at \in DOMAIN log /\ log[at].kind = "branch.created" /\ log[at].branch = b
          /\ th.branches[b] = [parent |-> log[at].from, forkSeq |-> log[at].forkSeq]
      BY <3>2, Zenon DEF OfKind, Explains, LogsForks
    <3> QED
      BY <2>1, <3>3, SMTT(60), Zenon DEF ImportBranch
  <2>2. CASE created = {} /\ b \in BranchesOf(th)
    <3>1. b = th.branchID
      BY <2>2 DEF OfKind, Explains, LogsForks
    <3>2. th.branches[b] = RootBranch /\ \E i \in DOMAIN log : log[i].branch = b
      BY <3>1 DEF Explains, StartsLog
    <3> QED
      BY <2>2, <3>2, SMTT(60), Zenon DEF ImportBranch
  <2>3. CASE created = {} /\ b \notin BranchesOf(th)
    BY <2>3 DEF ImportBranch, BranchesOf
  <2> QED
    BY <2>1, <2>2, <2>3, SMTT(60), Zenon
<1>5. [b \in BranchIDs |-> ImportBranch(log, b)] = th.branches
  BY <1>1, <1>4
<1>6. ImportArchived(log) = th.archived
  <2> DEFINE changes == OfKind(log, Archivals)
             at == LatestAt(changes)
  <2>1. ImportArchived(log) = (changes # {} /\ log[at].kind = "thread.archived")
    BY DEF ImportArchived, Archivals
  <2>2. changes \subseteq 1..n /\ \A i \in DOMAIN log : i \in changes <=> log[i].kind \in Archivals
    BY <1>1 DEF OfKind
  <2>3. changes # {} => at \in changes /\ \A j \in changes : j <= at
    <3> HIDE DEF changes
    <3> QED
      BY <1>1, <2>2, LatestAtIs, Zenon
  <2> HIDE DEF changes, at
  <2>4. CASE ~th.archived /\ \A i \in DOMAIN th.events : th.events[i].kind \notin Archivals
    BY <2>1, <2>2, <2>4, <1>1, Zenon
  <2>5. ASSUME NEW i \in DOMAIN log,
               log[i].kind = IF th.archived THEN "thread.archived" ELSE "thread.unarchived",
               \A j \in DOMAIN log : j > i => log[j].kind \notin Archivals
        PROVE  ImportArchived(log) = th.archived
    <3>1. i \in changes
      BY <2>2, <2>5 DEF Archivals
    <3>2. at \in DOMAIN log /\ at >= i /\ log[at].kind \in Archivals
      BY <1>1, <2>2, <2>3, <3>1
    <3>3. at = i
      BY <1>1, <2>5, <3>2
    <3> QED
      BY <1>1, <2>1, <2>5, <3>1, <3>3
  <2> QED
    BY <2>4, <2>5 DEF Explains, LogsArchived
<1>7. ImportNextSeq(log) = th.nextSeq
  <2> DEFINE seqs == {log[i].seq : i \in DOMAIN log} \cup {0}
  <2>1. seqs = 0..n
    BY <1>1
  <2>2. MaxSeqOf(log) = CHOOSE k \in 0..n : \A m \in 0..n : m <= k
    BY <2>1, Zenon DEF MaxSeqOf
  <2>3. MaxSeqOf(log) = n
    BY <1>1, <2>2
  <2> QED
    BY <2>3, <1>1 DEF ImportNextSeq
<1> QED
  BY <1>2, <1>3, <1>5, <1>6, <1>7 DEF Import

-----------------------------------------------------------------------------
(* The store *)

(* A batch a caller may append is a non-empty sequence of unstamped events. *)
LEMMA BatchesAreEvents ==
    ASSUME NEW batch \in Batches
    PROVE  /\ batch \in Seq(NewEvents) /\ Len(batch) > 0
           /\ \A k \in 1..Len(batch) : batch[k].kind = "user"
<1>1. PICK n \in 1..MaxBatch : batch \in [1..n -> {UserEvent(p) : p \in Payloads}]
  BY DEF Batches
<1>2. \A i \in 1..n : batch[i] \in NewEvents /\ batch[i].kind = "user"
  BY <1>1 DEF UserEvent, NewEvents, Kinds
<1>3. n \in Nat /\ n > 0
  BY ThreadStoreAssumption
<1> QED
  BY <1>1, <1>2, <1>3

LEMMA InitInv == Init => IndInv
BY DEF Init, IndInv, TypeOK, SeqsContiguous, ForkTreeOrdered, Stored

(* IndInv says the handles are well typed and every thread present is good. *)
LEMMA IndInvGood ==
    IndInv <=> /\ threads \in [ThreadIDs -> Threads \cup {NoThread}]
               /\ lives \in [Handles -> Lives \cup {NoLive}]
               /\ \A t \in ThreadIDs : threads[t] # NoThread => Good(threads[t])
BY DEF IndInv, TypeOK, SeqsContiguous, ForkTreeOrdered, Stored, Good

(* Every step keeps IndInv, and what each branch inherits. *)
LEMMA StepInv ==
    ASSUME IndInv, [Next]_vars
    PROVE  IndInv' /\ InheritanceFrozen
<1> DEFINE Types == /\ threads \in [ThreadIDs -> Threads \cup {NoThread}]
                    /\ lives \in [Handles -> Lives \cup {NoLive}]
           AllGood == \A t \in ThreadIDs : threads[t] # NoThread => Good(threads[t])
<1>1. Types /\ AllGood
  BY IndInvGood
<1> SUFFICES Types' /\ AllGood' /\ InheritanceFrozen
  BY DEF IndInv, TypeOK, SeqsContiguous, ForkTreeOrdered, Stored, Good
<1>2. \A th : KeepsInheritance(th, th)
  BY DEF KeepsInheritance
<1>3. ASSUME NEW t \in ThreadIDs, NEW th, th = NoThread \/ Good(th),
             threads[t] # NoThread => th = NoThread \/ KeepsInheritance(threads[t], th),
             threads' = [threads EXCEPT ![t] = th],
             lives' \in [Handles -> Lives \cup {NoLive}]
      PROVE  Types' /\ AllGood' /\ InheritanceFrozen
  <2>1. /\ threads'[t] = th
        /\ \A u \in ThreadIDs \ {t} : threads'[u] = threads[u]
        /\ threads' \in [ThreadIDs -> Threads \cup {NoThread}]
    BY <1>1, <1>3 DEF Good
  <2>2. AllGood'
    BY <1>1, <1>3, <2>1
  <2>3. InheritanceFrozen
    BY <1>2, <1>3, <2>1 DEF InheritanceFrozen, Stored
  <2> QED
    BY <1>3, <2>1, <2>2, <2>3
<1>4. ASSUME threads' = threads, lives' \in [Handles -> Lives \cup {NoLive}]
      PROVE  Types' /\ AllGood' /\ InheritanceFrozen
  BY <1>1, <1>2, <1>4 DEF InheritanceFrozen, Stored
<1>5. ASSUME NEW h \in Handles, NEW t \in ThreadIDs, NEW b \in BranchIDs, Create(h, t, b)
      PROVE  Types' /\ AllGood' /\ InheritanceFrozen
  <2>1. Opened(t, b) \in Lives
    BY DEF Opened, Lives
  <2>2. lives' \in [Handles -> Lives \cup {NoLive}]
    BY <1>1, <1>5, <2>1 DEF Create
  <2> QED
    BY <1>3, <1>5, <2>2, NewThreadGood, Zenon DEF Create, Stored
<1>6. ASSUME NEW h \in Handles, NEW t \in ThreadIDs, NEW b \in BranchIDs, Resume(h, t, b)
      PROVE  Types' /\ AllGood' /\ InheritanceFrozen
  <2>1. Opened(t, b) \in Lives
    BY DEF Opened, Lives
  <2>2. lives' \in [Handles -> Lives \cup {NoLive}]
    BY <1>1, <1>6, <2>1, SMTT(60), Zenon DEF Resume
  <2> QED
    BY <1>4, <1>6, <2>2 DEF Resume
<1>7. ASSUME NEW h \in Handles, NEW t \in ThreadIDs, NEW from \in BranchIDs, NEW to \in BranchIDs,
             Fork(h, t, from, to)
      PROVE  Types' /\ AllGood' /\ InheritanceFrozen
  <2>1. Opened(t, to) \in Lives
    BY DEF Opened, Lives
  <2>2. lives' \in [Handles -> Lives \cup {NoLive}]
    BY <1>1, <1>7, <2>1 DEF Fork
  <2>3. /\ threads[t] # NoThread /\ Good(threads[t])
        /\ from \in BranchesOf(threads[t]) /\ to \notin BranchesOf(threads[t])
        /\ threads' = [threads EXCEPT ![t] = ForkThread(threads[t], from, to)]
    BY <1>1, <1>7 DEF Fork, Stored
  <2> QED
    BY <1>3, <2>2, <2>3, ForkThreadGood, Zenon
<1>8. ASSUME NEW t \in ThreadIDs, NEW archived \in BOOLEAN, SetArchived(t, archived)
      PROVE  Types' /\ AllGood' /\ InheritanceFrozen
  <2>1. /\ threads[t] # NoThread /\ Good(threads[t])
        /\ threads' = [threads EXCEPT ![t] = ArchiveThread(threads[t], archived)]
        /\ lives' = lives
    BY <1>1, <1>8 DEF SetArchived, Stored
  <2> QED
    BY <1>1, <1>3, <2>1, ArchiveThreadGood, Zenon
<1>9. ASSUME NEW h \in Handles, NEW batch \in Batches, LiveAppend(h, batch)
      PROVE  Types' /\ AllGood' /\ InheritanceFrozen
  <2> DEFINE t == lives[h].thread
             b == lives[h].branch
  <2>1. lives[h] \in Lives /\ t \in ThreadIDs /\ b \in BranchIDs
    BY <1>1, <1>9 DEF LiveAppend, Lives
  <2>2. /\ threads[t] # NoThread /\ Good(threads[t])
        /\ threads' = [threads EXCEPT ![t] = AppendLocked(threads[t], b, batch)]
        /\ lives' = lives
    BY <1>1, <1>9, <2>1, SMTT(60), Zenon DEF LiveAppend, Stored
  <2> HIDE DEF t, b
  <2>3. Good(AppendLocked(threads[t], b, batch))
        /\ KeepsInheritance(threads[t], AppendLocked(threads[t], b, batch))
    BY <2>1, <2>2, BatchesAreEvents, GoodForking, AppendLockedGood
  <2> QED
    BY <1>1, <1>3, <2>1, <2>2, <2>3, Zenon
<1>10. ASSUME NEW h \in Handles, Shutdown(h)
       PROVE  Types' /\ AllGood' /\ InheritanceFrozen
  <2>1. lives' \in [Handles -> Lives \cup {NoLive}]
    BY <1>1, <1>10, Zenon DEF Shutdown, Lives
  <2> QED
    BY <1>4, <1>10, <2>1 DEF Shutdown
<1>11. ASSUME NEW h \in Handles, Discard(h)
       PROVE  Types' /\ AllGood' /\ InheritanceFrozen
  <2>1. lives' \in [Handles -> Lives \cup {NoLive}]
    BY <1>1, <1>11, Zenon DEF Discard, Lives
  <2>2. lives[h].thread \in ThreadIDs
    BY <1>1, <1>11 DEF Discard, Lives
  <2> QED
    BY <1>3, <1>11, <2>1, <2>2, Zenon DEF Discard
<1>12. ASSUME NEW t \in ThreadIDs, DiscardThread(t)
       PROVE  Types' /\ AllGood' /\ InheritanceFrozen
  BY <1>1, <1>3, <1>12, Zenon DEF DiscardThread
<1>13. CASE UNCHANGED vars
  BY <1>1, <1>4, <1>13 DEF vars
<1> QED
  BY <1>5, <1>6, <1>7, <1>8, <1>9, <1>10, <1>11, <1>12, <1>13, SMTT(60), Zenon DEF Next

(* Every log explains its thread. *)
Explained == \A t \in ThreadIDs : threads[t] # NoThread => Explains(threads[t])

LEMMA StepExplained ==
    ASSUME IndInv, Explained, [Next]_vars
    PROVE  Explained'
<1>1. /\ threads \in [ThreadIDs -> Threads \cup {NoThread}]
      /\ lives \in [Handles -> Lives \cup {NoLive}]
      /\ \A t \in ThreadIDs : threads[t] # NoThread => Good(threads[t]) /\ Explains(threads[t])
  BY IndInvGood DEF Explained
<1>2. ASSUME NEW t \in ThreadIDs, NEW th, th = NoThread \/ Explains(th),
             threads' = [threads EXCEPT ![t] = th]
      PROVE  Explained'
  BY <1>1, <1>2 DEF Explained
<1>3. ASSUME NEW h \in Handles, NEW t \in ThreadIDs, NEW b \in BranchIDs, Create(h, t, b)
      PROVE  Explained'
  BY <1>2, <1>3, NewThreadExplains, Zenon DEF Create
<1>4. ASSUME NEW h \in Handles, NEW t \in ThreadIDs, NEW from \in BranchIDs, NEW to \in BranchIDs,
             Fork(h, t, from, to)
      PROVE  Explained'
  <2>1. /\ Good(threads[t]) /\ Explains(threads[t])
        /\ from \in BranchesOf(threads[t]) /\ to \notin BranchesOf(threads[t])
        /\ threads' = [threads EXCEPT ![t] = ForkThread(threads[t], from, to)]
    BY <1>1, <1>4 DEF Fork, Stored
  <2> QED
    BY <1>2, <2>1, ForkExplains, Zenon
<1>5. ASSUME NEW t \in ThreadIDs, NEW archived \in BOOLEAN, SetArchived(t, archived)
      PROVE  Explained'
  <2>1. /\ Good(threads[t]) /\ Explains(threads[t])
        /\ threads' = [threads EXCEPT ![t] = ArchiveThread(threads[t], archived)]
    BY <1>1, <1>5 DEF SetArchived, Stored
  <2> QED
    BY <1>2, <2>1, ArchiveExplains, Zenon
<1>6. ASSUME NEW h \in Handles, NEW batch \in Batches, LiveAppend(h, batch)
      PROVE  Explained'
  <2> DEFINE t == lives[h].thread
             b == lives[h].branch
  <2>1. lives[h] \in Lives /\ t \in ThreadIDs /\ b \in BranchIDs
    BY <1>1, <1>6 DEF LiveAppend, Lives
  <2>2. /\ Good(threads[t]) /\ Explains(threads[t])
        /\ threads' = [threads EXCEPT ![t] = AppendLocked(threads[t], b, batch)]
    BY <1>1, <1>6, <2>1 DEF LiveAppend, Stored
  <2> HIDE DEF t, b
  <2>3. Explains(AppendLocked(threads[t], b, batch))
    BY <2>1, <2>2, BatchesAreEvents, UserAppendExplains
  <2> QED
    BY <1>2, <2>1, <2>2, <2>3, Zenon
<1>7. ASSUME NEW h \in Handles, Discard(h)
      PROVE  Explained'
  <2>1. lives[h].thread \in ThreadIDs
    BY <1>1, <1>7 DEF Discard, Lives
  <2> QED
    BY <1>2, <1>7, <2>1, Zenon DEF Discard
<1>8. ASSUME NEW t \in ThreadIDs, DiscardThread(t)
      PROVE  Explained'
  BY <1>2, <1>8, Zenon DEF DiscardThread
<1>9. CASE UNCHANGED threads
  BY <1>1, <1>9 DEF Explained
<1> QED
  BY <1>3, <1>4, <1>5, <1>6, <1>7, <1>8, <1>9, SMTT(60), Zenon DEF Next, Resume, Shutdown, vars

-----------------------------------------------------------------------------
(* MemoryStore keeps its data well formed, numbers the events of every       *)
(* thread 1, 2, 3, ... and keeps every fork tree ordered, for any callers.   *)
THEOREM StoreCorrect == Spec => [](TypeOK /\ SeqsContiguous /\ ForkTreeOrdered)
<1>1. IndInv /\ [Next]_vars => IndInv'
  BY StepInv
<1> QED
  BY InitInv, <1>1, PTL DEF Spec, IndInv

(* The fields of every thread and handle of MemoryStore stay what their      *)
(* types say, for any callers.                                               *)
THEOREM StoreTyped == Spec => []TypeOK
  BY StoreCorrect, PTL

(* Every branch hangs below an earlier branch of its own thread, whatever    *)
(* the callers fork: the parent walk of branchWindows always ends.           *)
THEOREM ForksStayOrdered == Spec => []ForkTreeOrdered
  BY StoreCorrect, PTL

(* No operation of MemoryStore changes what a branch inherited when it was   *)
(* forked.                                                                   *)
THEOREM ForkIsolation == Spec => ForksAreIsolated
<1>1. IndInv /\ [Next]_vars => IndInv' /\ [InheritanceFrozen]_vars
  BY StepInv
<1> QED
  BY InitInv, <1>1, PTL DEF Spec, ForksAreIsolated

(* Import of the log of any thread MemoryStore has written gives back that   *)
(* thread, unless a stray event is on a branch it lacks: what the jsonl      *)
(* store loads after a restart is what the process that wrote it had.        *)
THEOREM ImportCorrect == Spec => []ImportRebuildsThread
<1>1. Init => IndInv /\ Explained
  BY InitInv DEF Init, Explained
<1>2. IndInv /\ Explained /\ [Next]_vars => IndInv' /\ Explained'
  BY StepInv, StepExplained
<1>3. IndInv /\ Explained => ImportRebuildsThread
  BY IndInvGood, ExplainedImport, SMTT(60), Zenon DEF Explained, ImportRebuildsThread, Stored
<1> QED
  BY <1>1, <1>2, <1>3, PTL DEF Spec

-----------------------------------------------------------------------------
(* What a branch shows *)

(* f gives the path of every branch with a fork point below n. *)
Paths(f, th, n) ==
    \A c \in BranchesOf(th) :
        th.branches[c].forkSeq < n =>
            f[c] = IF th.branches[c].parent = NoBranch THEN << c >>
                   ELSE Append(f[th.branches[c].parent], c)

(* What the walk up the parents needs of a thread. *)
LEMMA ForkingTree ==
    ASSUME NEW th, Forking(th), NEW c \in BranchesOf(th)
    PROVE  LET br == th.branches[c] IN
           /\ th.nextSeq \in Nat /\ br.forkSeq \in Nat /\ br.forkSeq < th.nextSeq
           /\ br.parent # NoBranch =>
                /\ br.parent \in BranchesOf(th)
                /\ th.branches[br.parent].forkSeq \in Nat
                /\ th.branches[br.parent].forkSeq < br.forkSeq
<1>1. th \in Threads /\ th.nextSeq \in Nat /\ \A b \in BranchesOf(th) : th.branches[b] \in Branches
  BY DEF Forking, Threads, BranchesOf
<1> QED
  BY <1>1, SMTT(60), Zenon DEF Forking, Branches

(* A thread has such a function for all its branches. *)
LEMMA PathsExist ==
    ASSUME NEW th, Forking(th)
    PROVE  \E f : f = [c \in BranchesOf(th) |-> f[c]] /\ Paths(f, th, th.nextSeq)
<1> DEFINE P(n) == \E f : f = [c \in BranchesOf(th) |-> f[c]] /\ Paths(f, th, n)
           T == {n \in Nat : P(n)}
<1>0. th.nextSeq \in Nat
  BY DEF Forking, Threads
<1>1. 0 \in T
  <2> DEFINE f == [c \in BranchesOf(th) |-> << >>]
  <2>1. f = [c \in BranchesOf(th) |-> f[c]]
    OBVIOUS
  <2> HIDE DEF f
  <2>2. Paths(f, th, 0)
    <3> SUFFICES ASSUME NEW c \in BranchesOf(th), th.branches[c].forkSeq < 0
                 PROVE  FALSE
      BY DEF Paths
    <3> QED
      BY ForkingTree
  <2> QED
    BY <2>1, <2>2
<1>2. ASSUME NEW n \in T
      PROVE  n + 1 \in T
  <2>1. n \in Nat /\ P(n)
    OBVIOUS
  <2>2. PICK f : Paths(f, th, n)
    BY <2>1
  <2> DEFINE New(c) == IF th.branches[c].parent = NoBranch THEN << c >>
                       ELSE Append(f[th.branches[c].parent], c)
             g == [c \in BranchesOf(th) |-> IF th.branches[c].forkSeq < n THEN f[c] ELSE New(c)]
  <2>3. g = [c \in BranchesOf(th) |-> g[c]]
    OBVIOUS
  <2>4. ASSUME NEW c \in BranchesOf(th), th.branches[c].forkSeq < n + 1
        PROVE  g[c] = IF th.branches[c].parent = NoBranch THEN << c >>
                      ELSE Append(g[th.branches[c].parent], c)
    <3>1. g[c] = New(c)
      BY <2>2, SMTT(60), Zenon DEF Paths
    <3>2. CASE th.branches[c].parent # NoBranch
      <4>1. /\ th.branches[c].parent \in BranchesOf(th)
            /\ th.branches[th.branches[c].parent].forkSeq < n
        BY <2>1, <2>4, <3>2, ForkingTree, SMTT(60), Zenon
      <4>2. g[th.branches[c].parent] = f[th.branches[c].parent]
        BY <4>1
      <4> HIDE DEF g
      <4> QED
        BY <3>1, <3>2, <4>2, SMTT(60), Zenon
    <3> HIDE DEF g
    <3> QED
      BY <3>1, <3>2
  <2> HIDE DEF g
  <2>5. Paths(g, th, n + 1)
    BY <2>4 DEF Paths
  <2> QED
    BY <2>1, <2>3, <2>5
<1> HIDE DEF P
<1>3. T = Nat
  <2>1. T \subseteq Nat
    OBVIOUS
  <2> HIDE DEF T
  <2> QED
    BY <1>1, <1>2, <2>1, NumberInduction, Zenon
<1>4. P(th.nextSeq)
  BY <1>0, <1>3
<1> QED
  BY <1>4 DEF P

(* There is only one such function. *)
LEMMA PathsUnique ==
    ASSUME NEW th, Forking(th), NEW f, NEW g, Paths(f, th, th.nextSeq), Paths(g, th, th.nextSeq)
    PROVE  \A c \in BranchesOf(th) : f[c] = g[c]
<1> DEFINE Bad == {c \in BranchesOf(th) : f[c] # g[c]}
           T == {th.branches[c].forkSeq : c \in Bad}
<1> SUFFICES ASSUME Bad # {}
             PROVE  FALSE
  OBVIOUS
<1>1. T \subseteq Nat /\ T # {}
  <2>1. \A c \in Bad : th.branches[c].forkSeq \in Nat
    BY ForkingTree
  <2>2. PICK c \in Bad : TRUE
    OBVIOUS
  <2> HIDE DEF Bad
  <2>3. th.branches[c].forkSeq \in T
    BY <2>2
  <2> QED
    BY <2>1, <2>3, SMTT(60), Zenon
<1>2. PICK n \in T : \A m \in T : n <= m
  <2> HIDE DEF T
  <2> QED
    BY <1>1, LeastNumber, Zenon
<1>3. PICK c \in Bad : n = th.branches[c].forkSeq
  BY <1>2, SMTT(60), Zenon
<1>4. c \in BranchesOf(th) /\ f[c] # g[c]
  BY <1>3, SMTT(60), Zenon
<1>5. th.branches[c].forkSeq < th.nextSeq
  BY <1>4, ForkingTree, SMTT(60), Zenon
<1>6. CASE th.branches[c].parent = NoBranch
  BY <1>4, <1>5, <1>6, Zenon DEF Paths
<1>7. CASE th.branches[c].parent # NoBranch
  <2> DEFINE d == th.branches[c].parent
  <2>1. d \in BranchesOf(th) /\ th.branches[d].forkSeq \in Nat /\ th.branches[d].forkSeq < n /\ n \in Nat
    BY <1>1, <1>3, <1>4, <1>7, ForkingTree, SMTT(60), Zenon
  <2>2. f[d] # g[d]
    BY <1>4, <1>5, <1>7, ZenonT(60), SMTT(60) DEF Paths
  <2>3. th.branches[d].forkSeq \in T
    BY <2>1, <2>2
  <2> HIDE DEF T
  <2> QED
    BY <1>2, <2>1, <2>3, SMTT(60), Zenon
<1> QED
  BY <1>6, <1>7

(* BranchPath is given by it. *)
LEMMA BranchPathIs ==
    ASSUME NEW th, Forking(th)
    PROVE  \E f : Paths(f, th, th.nextSeq) /\ \A b : BranchPath(th, b) = f[b]
<1> DEFINE Walk(f) == f = [c \in BranchesOf(th) |->
                             IF th.branches[c].parent = NoBranch THEN << c >>
                             ELSE Append(f[th.branches[c].parent], c)]
           f == CHOOSE f : Walk(f)
<1>1. \E g : Walk(g)
  <2>1. PICK g : g = [c \in BranchesOf(th) |-> g[c]] /\ Paths(g, th, th.nextSeq)
    BY PathsExist, Zenon, SMTT(60)
  <2>2. ASSUME NEW c \in BranchesOf(th)
        PROVE  g[c] = IF th.branches[c].parent = NoBranch THEN << c >>
                      ELSE Append(g[th.branches[c].parent], c)
    BY <2>1, ForkingTree, Zenon, SMTT(60) DEF Paths
  <2>3. Walk(g)
    BY <2>1, <2>2
  <2> QED
    BY <2>3
<1>2. Walk(f)
  <2> HIDE DEF Walk
  <2> QED
    BY <1>1
<1>3. \A b : BranchPath(th, b) = f[b]
  BY DEF BranchPath
<1> HIDE DEF f
<1>4. Paths(f, th, th.nextSeq)
  <2> SUFFICES ASSUME NEW c \in BranchesOf(th)
               PROVE  f[c] = IF th.branches[c].parent = NoBranch THEN << c >>
                             ELSE Append(f[th.branches[c].parent], c)
    BY DEF Paths
  <2> QED
    BY <1>2, Zenon
<1> QED
  BY <1>3, <1>4, SMTT(60), Zenon

(* The path of a branch is its parent's path and the branch. *)
LEMMA BranchPathStep ==
    ASSUME NEW th, Forking(th), NEW b \in BranchesOf(th)
    PROVE  BranchPath(th, b) = IF th.branches[b].parent = NoBranch THEN << b >>
                               ELSE Append(BranchPath(th, th.branches[b].parent), b)
<1>1. PICK f : Paths(f, th, th.nextSeq) /\ \A c : BranchPath(th, c) = f[c]
  BY BranchPathIs
<1>2. th.branches[b].forkSeq < th.nextSeq
  BY ForkingTree
<1> QED
  BY <1>1, <1>2, Zenon DEF Paths

(* A path consists of branches of the thread, ends at its branch, and no     *)
(* branch on it was forked later; only the first may have no fork point.     *)
IsPathTo(th, p, b) ==
    /\ p \in Seq(BranchesOf(th)) /\ Len(p) >= 1 /\ p[Len(p)] = b
    /\ \A i \in 1..Len(p) : th.branches[p[i]].forkSeq <= th.branches[b].forkSeq
    /\ \A i \in 2..Len(p) : th.branches[p[i]].forkSeq > 0

(* Every BranchPath is such a path. *)
LEMMA BranchPathShape ==
    ASSUME NEW th, Forking(th)
    PROVE  \A b \in BranchesOf(th) : IsPathTo(th, BranchPath(th, b), b)
<1> DEFINE Bad == {c \in BranchesOf(th) : ~IsPathTo(th, BranchPath(th, c), c)}
           T == {th.branches[c].forkSeq : c \in Bad}
<1> SUFFICES ASSUME Bad # {}
             PROVE  FALSE
  OBVIOUS
<1>1. T \subseteq Nat /\ T # {}
  <2>1. \A c \in Bad : th.branches[c].forkSeq \in Nat
    BY ForkingTree, SMTT(60), Zenon
  <2>2. PICK c \in Bad : TRUE
    OBVIOUS
  <2> HIDE DEF Bad
  <2>3. th.branches[c].forkSeq \in T
    BY <2>2
  <2> QED
    BY <2>1, <2>3, SMTT(60), Zenon
<1>2. PICK n \in T : \A m \in T : n <= m
  <2> HIDE DEF T
  <2> QED
    BY <1>1, LeastNumber, Zenon
<1>3. PICK c \in Bad : n = th.branches[c].forkSeq
  BY <1>2, SMTT(60), Zenon
<1>4. c \in BranchesOf(th) /\ ~IsPathTo(th, BranchPath(th, c), c) /\ n \in Nat
  BY <1>1, <1>3, SMTT(60), Zenon
<1>5. CASE th.branches[c].parent = NoBranch
  <2>1. BranchPath(th, c) = << c >>
    BY <1>4, <1>5, BranchPathStep, SMTT(60), Zenon
  <2>2. << c >> \in Seq(BranchesOf(th)) /\ Len(<< c >>) = 1 /\ << c >>[1] = c
    BY <1>4
  <2>3. (\A i \in 1..1 : i = 1) /\ 2..1 = {}
    BY SMTT(60), Zenon
  <2>4. th.branches[c].forkSeq <= th.branches[c].forkSeq
    BY <1>3, <1>4, SMTT(60), Zenon
  <2>5. IsPathTo(th, BranchPath(th, c), c)
    BY <2>1, <2>2, <2>3, <2>4, SMTT(60), Zenon DEF IsPathTo
  <2> QED
    BY <1>4, <2>5, SMTT(60), Zenon
<1>6. CASE th.branches[c].parent # NoBranch
  <2> DEFINE d == th.branches[c].parent
             p == BranchPath(th, d)
             q == BranchPath(th, c)
  <2>1. d \in BranchesOf(th) /\ th.branches[d].forkSeq \in Nat /\ th.branches[d].forkSeq < n
    BY <1>3, <1>4, <1>6, ForkingTree, SMTT(60), Zenon
  <2>2. IsPathTo(th, p, d)
    <3> SUFFICES ASSUME ~IsPathTo(th, p, d)
                 PROVE  FALSE
      BY SMTT(60), Zenon
    <3>1. th.branches[d].forkSeq \in T
      BY <2>1, SMTT(60), Zenon
    <3> HIDE DEF T
    <3> QED
      BY <1>2, <1>4, <2>1, <3>1, SMTT(60), Zenon
  <2>3. q = Append(p, c)
    BY <1>4, <1>6, BranchPathStep, SMTT(60), Zenon
  <2> HIDE DEF p, q, d
  <2>4. /\ p \in Seq(BranchesOf(th)) /\ Len(p) \in Nat
        /\ \A i \in 1..Len(p) : th.branches[p[i]].forkSeq <= th.branches[d].forkSeq
        /\ \A i \in 2..Len(p) : th.branches[p[i]].forkSeq > 0
    BY <2>2, SMTT(60), Zenon DEF IsPathTo
  <2>5. /\ q \in Seq(BranchesOf(th)) /\ Len(q) = Len(p) + 1
        /\ \A i \in 1..Len(p) : q[i] = p[i]
        /\ q[Len(p) + 1] = c
    BY <1>4, <2>3, <2>4, SMTT(60), Zenon
  <2>6. ASSUME NEW i \in 1..Len(q)
        PROVE  th.branches[q[i]].forkSeq <= th.branches[c].forkSeq
    <3>1. CASE i = Len(p) + 1
      BY <3>1, <2>5, <1>3, <1>4, SMTT(60), Zenon
    <3>2. CASE i \in 1..Len(p)
      <4>1. q[i] = p[i] /\ th.branches[p[i]].forkSeq <= th.branches[d].forkSeq
        BY <3>2, <2>4, <2>5, SMTT(60), Zenon
      <4>2. p[i] \in BranchesOf(th)
        BY <3>2, <2>4, SMTT(60), Zenon
      <4>3. th.branches[p[i]].forkSeq \in Nat
        BY <4>2, ForkingTree, SMTT(60), Zenon
      <4> QED
        BY <4>1, <4>3, <2>1, <1>3, <1>4, SMTT(60), Zenon
    <3> QED
      BY <3>1, <3>2, <2>4, <2>5, SMTT(60), Zenon
  <2>7. ASSUME NEW i \in 2..Len(q)
        PROVE  th.branches[q[i]].forkSeq > 0
    <3>1. CASE i = Len(p) + 1
      BY <3>1, <2>1, <2>5, <1>3, <1>4, SMTT(60), Zenon
    <3>2. CASE i \in 2..Len(p)
      BY <3>2, <2>4, <2>5, SMTT(60), Zenon
    <3> QED
      BY <3>1, <3>2, <2>4, <2>5, SMTT(60), Zenon
  <2>8. IsPathTo(th, q, c)
    BY <2>4, <2>5, <2>6, <2>7, SMTT(60), Zenon DEF IsPathTo
  <2> QED
    BY <1>4, <2>8, SMTT(60), Zenon DEF q
<1> QED
  BY <1>5, <1>6

(* The events EventsForBranch shows. *)
Visible(th, b, e) ==
    \E i \in DOMAIN BranchPath(th, b) : InWindow(th, BranchPath(th, b), i, e)

(* A branch sees its own events after its fork point, and up to there what   *)
(* its parent sees.                                                          *)
LEMMA VisibleStep ==
    ASSUME NEW th, Forking(th), NEW b \in BranchesOf(th), NEW e, e.seq \in Nat
    PROVE  LET br == th.branches[b] IN
           Visible(th, b, e) <=>
             \/ e.branch = b /\ e.seq > br.forkSeq
             \/ br.parent # NoBranch /\ Visible(th, br.parent, e) /\ e.seq <= br.forkSeq
<1> DEFINE br == th.branches[b]
           q == BranchPath(th, b)
<1>1. br.forkSeq \in Nat
  BY ForkingTree
<1>2. CASE br.parent = NoBranch
  <2>1. q = << b >>
    BY <1>2, BranchPathStep
  <2>2. DOMAIN << b >> = {1} /\ Len(<< b >>) = 1 /\ << b >>[1] = b
    OBVIOUS
  <2>3. Visible(th, b, e) <=> InWindow(th, << b >>, 1, e)
    BY <2>1, <2>2 DEF Visible
  <2>4. InWindow(th, << b >>, 1, e) <=> (e.branch = b /\ e.seq > br.forkSeq)
    BY <2>2, SMTT(60), Zenon DEF InWindow
  <2> QED
    BY <1>2, <2>3, <2>4
<1>3. CASE br.parent # NoBranch
  <2> DEFINE d == br.parent
             p == BranchPath(th, d)
             n == Len(p)
  <2>1. /\ d \in BranchesOf(th) /\ th.branches[d].forkSeq \in Nat
        /\ th.branches[d].forkSeq < br.forkSeq
    BY <1>3, ForkingTree, SMTT(60), Zenon
  <2>2. q = Append(p, b) /\ IsPathTo(th, p, d)
    BY <1>3, <2>1, BranchPathStep, BranchPathShape, SMTT(60), Zenon
  <2>3. /\ p \in Seq(BranchesOf(th)) /\ n \in Nat /\ n >= 1 /\ p[n] = d /\ DOMAIN p = 1..n
        /\ \A i \in 1..n : th.branches[p[i]].forkSeq <= th.branches[d].forkSeq
        /\ \A i \in 2..n : th.branches[p[i]].forkSeq > 0
    <3> HIDE DEF p, d
    <3>1. IsPathTo(th, p, d)
      BY <2>2, SMTT(60), Zenon
    <3>2. p \in Seq(BranchesOf(th)) /\ Len(p) \in Nat /\ DOMAIN p = 1..Len(p)
      BY <3>1, SMTT(60), Zenon DEF IsPathTo
    <3> QED
      BY <3>1, <3>2 DEF IsPathTo
  <2>4. /\ Len(q) = n + 1 /\ DOMAIN q = 1..(n + 1)
        /\ \A i \in 1..n : q[i] = p[i]
        /\ q[n + 1] = b
    BY <2>2, <2>3, SMTT(60), Zenon
  <2>5. Visible(th, b, e) <=> \E i \in 1..(n + 1) : InWindow(th, q, i, e)
    BY <2>4, SMTT(60), Zenon DEF Visible
  <2>6. Visible(th, d, e) <=> \E i \in 1..n : InWindow(th, p, i, e)
    BY <2>3, SMTT(60), Zenon DEF Visible
  <2> HIDE DEF p, q, n
  <2>7. InWindow(th, q, n + 1, e) <=> (e.branch = b /\ e.seq > br.forkSeq)
    BY <2>3, <2>4, SMTT(60), Zenon DEF InWindow
  <2>8. ASSUME NEW i \in 1..n
        PROVE  InWindow(th, q, i, e) <=> (InWindow(th, p, i, e) /\ e.seq <= br.forkSeq)
    <3>1. CASE i = n
      <4>1. i < Len(q) /\ ~(i < Len(p)) /\ q[i + 1] = b /\ q[i] = p[i]
        BY <3>1, <2>3, <2>4, SMTT(60), Zenon DEF n
      <4>2. InWindow(th, q, i, e) <=>
              (e.branch = p[i] /\ e.seq > th.branches[p[i]].forkSeq
                 /\ (br.forkSeq > 0 => e.seq <= br.forkSeq))
        BY <4>1 DEF InWindow
      <4>3. InWindow(th, p, i, e) <=> (e.branch = p[i] /\ e.seq > th.branches[p[i]].forkSeq)
        BY <4>1 DEF InWindow
      <4>4. br.forkSeq > 0
        BY <1>1, <2>1
      <4> QED
        BY <4>2, <4>3, <4>4, SMTT(60), Zenon
    <3>2. CASE i # n
      <4>0. n = Len(p) /\ i < n /\ i < n + 1 /\ i + 1 \in 1..n /\ i + 1 \in 2..n
        <5>1. n \in Nat /\ i \in Nat /\ 1 <= i /\ i <= n
          BY <2>3
        <5>2. n = Len(p)
          BY DEF n
        <5> QED
          BY <3>2, <5>1, <5>2, SMTT(60), Zenon
      <4>1. i < Len(q) /\ i < Len(p) /\ i + 1 \in 1..n /\ q[i + 1] = p[i + 1] /\ q[i] = p[i]
        BY <4>0, <2>4, SMTT(60), Zenon
      <4>2. InWindow(th, q, i, e) <=> InWindow(th, p, i, e)
        BY <4>1, SMTT(60), Zenon DEF InWindow
      <4>3. ASSUME InWindow(th, p, i, e)
            PROVE  e.seq <= br.forkSeq
        <5> DEFINE u == th.branches[p[i + 1]].forkSeq
        <5>1. u \in Nat /\ u <= th.branches[d].forkSeq /\ e.seq <= u
          <6>1. p[i + 1] \in BranchesOf(th)
            BY <2>3, <4>0, <4>1, SMTT(60), Zenon
          <6>2. u \in Nat
            BY <6>1, ForkingTree, SMTT(60), Zenon
          <6>3. u > 0 /\ u <= th.branches[d].forkSeq
            BY <2>3, <4>0, SMTT(60), Zenon
          <6>4. u > 0 => e.seq <= u
            BY <4>1, <4>3, SMTT(60), Zenon DEF InWindow
          <6> QED
            BY <6>2, <6>3, <6>4, SMTT(60), Zenon
        <5> HIDE DEF u
        <5> QED
          BY <5>1, <1>1, <2>1, SMTT(60), Zenon
      <4> QED
        BY <4>2, <4>3
    <3> QED
      BY <3>1, <3>2, SMTT(60), Zenon
  <2>9. (\E i \in 1..(n + 1) : InWindow(th, q, i, e))
          <=> (InWindow(th, q, n + 1, e) \/ \E i \in 1..n : InWindow(th, q, i, e))
    BY <2>3, SMTT(60), Zenon
  <2> QED
    BY <1>3, <2>5, <2>6, <2>7, <2>8, <2>9, SMTT(60), Zenon
<1> QED
  BY <1>2, <1>3, SMTT(60), Zenon

-----------------------------------------------------------------------------
(* What the branches of one thread show *)

(* The indices EventsForBranch picks. *)
Seen(th, b) == {n \in DOMAIN th.events : Visible(th, b, th.events[n])}

(* EventsForBranch picks these. *)
LEMMA ViewIsSeen ==
    ASSUME NEW th, Good(th), NEW b
    PROVE  EventsForBranch(th, b) = Picked(th.events, Seen(th, b))
<1> DEFINE s == th.events
           is == Seen(th, b)
           path == BranchPath(th, b)
           Loop(f) == f = [n \in 0..Len(s) |->
                             IF n = 0 THEN << >>
                             ELSE IF \E i \in DOMAIN path : InWindow(th, path, i, s[n])
                             THEN Append(f[n - 1], s[n])
                             ELSE f[n - 1]]
           f == CHOOSE f : Loop(f)
<1>1. s \in Seq(Events) /\ Len(s) \in Nat /\ DOMAIN s = 1..Len(s)
  BY DEF Good, Threads
<1>2. \A n \in 0..Len(s) : n # 0 => (n \in is <=> \E i \in DOMAIN path : InWindow(th, path, i, s[n]))
  BY <1>1 DEF Seen, Visible
<1>3. EventsForBranch(th, b) = f[Len(s)]
  BY DEF EventsForBranch
<1>4. PICK g : DOMAIN g = 0..Len(s) /\ g = [i \in DOMAIN g |-> g[i]] /\ Picks(g, s, is, Len(s))
  BY <1>1, PicksExist, Zenon
<1> DEFINE Sees(n) == \E i \in DOMAIN path : InWindow(th, path, i, s[n])
<1>5. Loop(g)
  <2>1. \A n \in 0..Len(s) : n # 0 => (n \in is <=> Sees(n))
    BY <1>2
  <2>2. g = [n \in 0..Len(s) |-> IF n = 0 THEN << >>
                                 ELSE IF Sees(n) THEN Append(g[n - 1], s[n]) ELSE g[n - 1]]
    <3> HIDE DEF Sees, is, s
    <3> QED
      BY <1>4, <2>1 DEF Picks
  <2> QED
    BY <2>2, Zenon
<1>6. Loop(f)
  <2> HIDE DEF Loop
  <2> QED
    BY <1>5
<1> HIDE DEF f
<1>7. Picks(f, s, is, Len(s))
  <2>1. \A n \in 0..Len(s) : n # 0 => (n \in is <=> Sees(n))
    BY <1>2
  <2>2. f = [n \in 0..Len(s) |-> IF n = 0 THEN << >>
                                 ELSE IF Sees(n) THEN Append(f[n - 1], s[n]) ELSE f[n - 1]]
    BY <1>6, Zenon
  <2> HIDE DEF Sees, is, s, Loop
  <2> QED
    BY <2>1, <2>2, Zenon DEF Picks
<1> HIDE DEF s, is, Loop
<1>8. PICK h : Picks(h, s, is, Len(s)) /\ Picked(s, is) = h[Len(s)]
  BY <1>1, PickedByLoop
<1>9. f[Len(s)] = h[Len(s)]
  <2>1. Len(s) \in 0..Len(s)
    BY <1>1
  <2> QED
    BY <1>1, <1>7, <1>8, <2>1, PicksAgree, SMTT(60), Zenon
<1> QED
  BY <1>3, <1>8, <1>9, SMTT(60), Zenon DEF s, is

(* next has every branch of th as th has it, and continues its log with      *)
(* events on branch.                                                         *)
Continues(next, th, branch) ==
    /\ Len(th.events) <= Len(next.events)
    /\ \A i \in DOMAIN th.events : next.events[i] = th.events[i]
    /\ \A i \in DOMAIN next.events \ DOMAIN th.events : next.events[i].branch = branch
    /\ \A c \in BranchesOf(th) : c \in BranchesOf(next) /\ next.branches[c] = th.branches[c]

(* A branch the thread had sees the same of any event as before. *)
LEMMA OldBranchesSeeTheSame ==
    ASSUME NEW th, NEW next, NEW branch, Good(th), Good(next), Continues(next, th, branch),
           NEW b \in BranchesOf(th), NEW e
    PROVE  Visible(next, b, e) <=> Visible(th, b, e)
<1>1. Forking(th) /\ Forking(next)
  BY GoodForking
<1>2. PICK f : Paths(f, th, th.nextSeq) /\ \A c : BranchPath(th, c) = f[c]
  BY <1>1, BranchPathIs
<1>3. PICK g : Paths(g, next, next.nextSeq) /\ \A c : BranchPath(next, c) = g[c]
  BY <1>1, BranchPathIs, SMTT(60), Zenon
<1>4. Paths(g, th, th.nextSeq)
  <2> SUFFICES ASSUME NEW c \in BranchesOf(th)
               PROVE  g[c] = IF th.branches[c].parent = NoBranch THEN << c >>
                             ELSE Append(g[th.branches[c].parent], c)
    BY DEF Paths
  <2>1. c \in BranchesOf(next) /\ next.branches[c] = th.branches[c]
    BY SMTT(60), Zenon DEF Continues
  <2>2. next.branches[c].forkSeq < next.nextSeq
    BY <1>1, <2>1, ForkingTree
  <2> QED
    BY <1>3, <2>1, <2>2, SMTT(60), Zenon DEF Paths
<1>5. BranchPath(next, b) = BranchPath(th, b)
  BY <1>1, <1>2, <1>3, <1>4, PathsUnique, SMTT(60), Zenon
<1> DEFINE p == BranchPath(th, b)
<1>6. p \in Seq(BranchesOf(th)) /\ DOMAIN p = 1..Len(p) /\ Len(p) \in Nat
  BY <1>1, BranchPathShape, SMTT(60), Zenon DEF IsPathTo
<1>7. ASSUME NEW i \in DOMAIN p
      PROVE  InWindow(next, p, i, e) <=> InWindow(th, p, i, e)
  <2> HIDE DEF p
  <2>1. next.branches[p[i]] = th.branches[p[i]]
    BY <1>6 DEF Continues
  <2>2. i < Len(p) => next.branches[p[i + 1]] = th.branches[p[i + 1]]
    BY <1>6 DEF Continues
  <2> QED
    BY <2>1, <2>2, SMTT(60), Zenon DEF InWindow
<1> QED
  BY <1>5, <1>7 DEF Visible

(* A good thread's events are numbered by their place. *)
LEMMA GoodEvents ==
    ASSUME NEW th, Good(th)
    PROVE  /\ th.events \in Seq(Events) /\ Len(th.events) \in Nat
           /\ DOMAIN th.events = 1..Len(th.events)
           /\ th.nextSeq = Len(th.events) + 1
           /\ \A i \in 1..Len(th.events) : th.events[i].seq = i
BY DEF Good, Threads, Contiguous

(* Of the new events a branch sees exactly its own. *)
LEMMA NewEventsSeen ==
    ASSUME NEW th, NEW next, NEW branch, Good(th), Good(next), Continues(next, th, branch),
           NEW b \in BranchesOf(th), NEW i \in (Len(th.events) + 1)..Len(next.events)
    PROVE  i \in Seen(next, b) <=> b = branch
<1>1. /\ Len(th.events) \in Nat /\ DOMAIN th.events = 1..Len(th.events)
      /\ Len(next.events) \in Nat /\ DOMAIN next.events = 1..Len(next.events)
      /\ next.events[i].seq = i /\ th.nextSeq = Len(th.events) + 1
  BY GoodEvents
<1>2. i \in DOMAIN next.events \ DOMAIN th.events /\ i \in Nat /\ i > Len(th.events)
  BY <1>1
<1>3. next.events[i].branch = branch
  BY <1>2 DEF Continues
<1>4. b \in BranchesOf(next) /\ next.branches[b] = th.branches[b] /\ Forking(next) /\ Forking(th)
  BY GoodForking, SMTT(60), Zenon DEF Continues
<1>5. th.branches[b].forkSeq \in Nat /\ th.branches[b].forkSeq < th.nextSeq
  BY <1>4, ForkingTree, SMTT(60), Zenon
<1>6. i > th.branches[b].forkSeq /\ ~(i <= th.branches[b].forkSeq)
  BY <1>1, <1>2, <1>5, SMTT(60), Zenon
<1>7. Visible(next, b, next.events[i]) <=> b = branch
  BY <1>1, <1>2, <1>3, <1>4, <1>6, VisibleStep, SMTT(60), Zenon
<1> QED
  BY <1>2, <1>7 DEF Seen

(* Appending on a branch extends what that branch shows and no other view. *)
LEMMA ViewsContinue ==
    ASSUME NEW th, NEW next, NEW branch, Good(th), Good(next), Continues(next, th, branch),
           NEW b \in BranchesOf(th)
    PROVE  LET old == EventsForBranch(th, b)
               new == EventsForBranch(next, b) IN
           /\ old \in Seq(Events) /\ new \in Seq(Events)
           /\ b # branch => new = old
           /\ Len(old) <= Len(new) /\ \A i \in 1..Len(old) : old[i] = new[i]
           /\ (b = branch /\ Len(th.events) < Len(next.events)) => Len(old) < Len(new)
<1> DEFINE s == th.events
           t == next.events
           is == Seen(th, b)
           js == Seen(next, b)
<1>1. /\ s \in Seq(Events) /\ t \in Seq(Events) /\ Len(s) \in Nat /\ Len(t) \in Nat
      /\ DOMAIN s = 1..Len(s) /\ DOMAIN t = 1..Len(t) /\ Len(s) <= Len(t)
  BY GoodEvents, SMTT(60), Zenon DEF Continues
<1>2. ASSUME NEW i \in 1..Len(s)
      PROVE  s[i] = t[i] /\ (i \in is <=> i \in js)
  <2>1. i \in DOMAIN s /\ i \in DOMAIN t /\ s[i] = t[i]
    BY <1>1, SMTT(60), Zenon DEF Continues
  <2>2. Visible(next, b, t[i]) <=> Visible(th, b, t[i])
    BY OldBranchesSeeTheSame
  <2> QED
    BY <2>1, <2>2, SMTT(60), Zenon DEF Seen
<1>3. \A i \in (Len(s) + 1)..Len(t) : i \in js <=> b = branch
  BY NewEventsSeen
<1>4. EventsForBranch(th, b) = Picked(s, is) /\ EventsForBranch(next, b) = Picked(t, js)
  BY ViewIsSeen, SMTT(60), Zenon
<1>5. Len(s) < Len(t) => Len(t) \in (Len(s) + 1)..Len(t)
  BY <1>1, SMTT(60), Zenon
<1> HIDE DEF is, js, s, t
<1>6. /\ Picked(s, is) \in Seq(Events) /\ Picked(t, js) \in Seq(Events)
      /\ Len(Picked(s, is)) <= Len(Picked(t, js))
      /\ \A i \in 1..Len(Picked(s, is)) : Picked(s, is)[i] = Picked(t, js)[i]
      /\ (\A i \in (Len(s) + 1)..Len(t) : i \notin js) => Picked(t, js) = Picked(s, is)
      /\ (\E i \in (Len(s) + 1)..Len(t) : i \in js) => Len(Picked(s, is)) < Len(Picked(t, js))
  BY <1>1, <1>2, PickedContinues, SMTT(60), Zenon
<1>7. /\ b # branch => Picked(t, js) = Picked(s, is)
      /\ (b = branch /\ Len(s) < Len(t)) => Len(Picked(s, is)) < Len(Picked(t, js))
  BY <1>3, <1>5, <1>6
<1> QED
  BY <1>4, <1>6, <1>7, SMTT(60), Zenon DEF s, t

(* appendLocked continues the log on one branch. *)
LEMMA AppendContinues ==
    ASSUME NEW th, Good(th), NEW branch \in BranchIDs, NEW batch \in Seq(NewEvents), Len(batch) > 0
    PROVE  LET next == AppendLocked(th, branch, batch) IN
           /\ Good(next) /\ Continues(next, th, branch)
           /\ BranchesOf(next) = BranchesOf(th)
           /\ Len(th.events) < Len(next.events)
<1> DEFINE next == AppendLocked(th, branch, batch)
           n == Len(th.events)
<1>1. Good(next)
  BY GoodForking, AppendLockedGood, SMTT(60), Zenon
<1>2. /\ next.branches = th.branches
      /\ Len(next.events) = n + Len(batch)
      /\ \A i \in DOMAIN th.events : next.events[i] = th.events[i]
      /\ \A i \in 1..Len(batch) : next.events[n + i] = Stamp(batch[i], th.nextSeq + i - 1, branch)
  BY AppendLockedShape, SMTT(60), Zenon DEF Good
<1> HIDE DEF next
<1>3. /\ n \in Nat /\ Len(batch) \in Nat
      /\ DOMAIN th.events = 1..n /\ DOMAIN next.events = 1..(n + Len(batch))
  BY <1>1, <1>2, GoodEvents, SMTT(60), Zenon
<1>4. ASSUME NEW i \in DOMAIN next.events \ DOMAIN th.events
      PROVE  next.events[i].branch = branch
  <2>1. i - n \in 1..Len(batch) /\ n + (i - n) = i
    BY <1>3, SMTT(60), Zenon
  <2>2. next.events[i] = Stamp(batch[i - n], th.nextSeq + (i - n) - 1, branch)
    BY <1>2, <2>1, SMTT(60), Zenon
  <2> QED
    BY <2>2 DEF Stamp
<1>5. BranchesOf(next) = BranchesOf(th)
  BY <1>2 DEF BranchesOf
<1>6. n < Len(next.events)
  BY <1>2, <1>3, SMTT(60), Zenon
<1>7. Continues(next, th, branch)
  BY <1>2, <1>3, <1>4, <1>5, <1>6, SMTT(60), Zenon DEF Continues
<1> QED
  BY <1>1, <1>5, <1>6, <1>7, SMTT(60), Zenon DEF next

(* Archive and Unarchive continue it on the default branch. *)
LEMMA ArchiveContinues ==
    ASSUME NEW th, Good(th), NEW archived \in BOOLEAN
    PROVE  LET next == ArchiveThread(th, archived) IN
           /\ Good(next) /\ Continues(next, th, th.branchID)
           /\ BranchesOf(next) = BranchesOf(th)
           /\ Len(th.events) < Len(next.events)
<1> DEFINE mid == [th EXCEPT !.archived = archived]
           e == CoreEvent(IF archived THEN "thread.archived" ELSE "thread.unarchived")
           next == ArchiveThread(th, archived)
<1>1. << e >> \in Seq(NewEvents) /\ Len(<< e >>) > 0
  <2>1. e \in NewEvents
    BY DEF CoreEvent, NewEvents, Kinds
  <2> QED
    BY <2>1
<1>2. next = AppendLocked(mid, th.branchID, << e >>) /\ th.branchID \in BranchIDs
  BY DEF ArchiveThread, Good, Threads
<1>3. /\ mid \in Threads /\ mid.nextSeq = th.nextSeq
      /\ mid.events = th.events /\ mid.branches = th.branches
  BY DEF Good, Threads
<1> HIDE DEF mid, e, next
<1>4. BranchesOf(mid) = BranchesOf(th)
  BY <1>3 DEF BranchesOf
<1>5. Good(mid)
  BY <1>3, <1>4 DEF Good, Contiguous, ForksOrdered
<1>6. /\ Good(next) /\ Continues(next, mid, th.branchID)
      /\ BranchesOf(next) = BranchesOf(mid) /\ Len(mid.events) < Len(next.events)
  BY <1>1, <1>2, <1>5, AppendContinues, Zenon
<1>7. Continues(next, th, th.branchID)
  BY <1>3, <1>4, <1>6, SMTT(60), Zenon DEF Continues
<1> QED
  BY <1>3, <1>4, <1>6, <1>7, SMTT(60), Zenon DEF next

(* The new branch shows what its parent shows, and the event of the fork. *)
LEMMA ForkContinues ==
    ASSUME NEW th, Good(th), NEW from \in BranchesOf(th), NEW to \in BranchIDs,
           to \notin BranchesOf(th)
    PROVE  LET next == ForkThread(th, from, to) IN
           /\ Good(next) /\ Continues(next, th, to)
           /\ BranchesOf(next) = BranchesOf(th) \cup {to}
           /\ EventsForBranch(th, from) \in Seq(Events)
           /\ \E e : EventsForBranch(next, to) = Append(EventsForBranch(th, from), e)
<1> DEFINE br == [parent |-> from, forkSeq |-> th.nextSeq - 1]
           mid == [th EXCEPT !.branches[to] = br]
           e == BranchCreatedEvent(from, th.nextSeq - 1)
           next == ForkThread(th, from, to)
           s == th.events
           t == next.events
           n == Len(s)
<1>1. /\ th \in Threads /\ th.nextSeq = n + 1 /\ n \in Nat
      /\ th.branches \in [BranchIDs -> Branches \cup {NoBranch}]
      /\ from \in BranchIDs /\ from # NoBranch
  BY ThreadLogAssumption DEF Good, Threads, Contiguous, BranchesOf
<1>2. br \in Branches /\ br # NoBranch /\ br.parent = from /\ br.forkSeq = n
  BY <1>1, ThreadLogAssumption, SMTT(60), Zenon DEF Branches
<1>3. e \in NewEvents
  BY <1>1 DEF BranchCreatedEvent, NewEvents, Kinds
<1>4. next = AppendLocked(mid, to, << e >>)
  BY DEF ForkThread
<1>5. mid = [th EXCEPT !.branches = [th.branches EXCEPT ![to] = br]]
  BY <1>1 DEF Threads
<1>6. Good(next)
  BY ForkThreadGood
<1> HIDE DEF br, mid, e, next
<1>7. /\ mid \in Threads /\ mid.nextSeq = th.nextSeq /\ mid.events = th.events
      /\ mid.branches = [th.branches EXCEPT ![to] = br]
  BY <1>1, <1>2, <1>5, SMTT(60), Zenon DEF Threads
<1>8. Contiguous(mid)
  BY <1>7, SMTT(60), Zenon DEF Good, Contiguous
<1>9. /\ next.branches = mid.branches
      /\ DOMAIN t = 1..(n + 1) /\ DOMAIN t = DOMAIN s \cup {n + 1}
      /\ \A i \in DOMAIN s : t[i] = s[i]
      /\ t[n + 1] = Stamp(e, n + 1, to)
  BY <1>3, <1>4, <1>7, <1>8, AppendOneShape, SMTT(60), Zenon
<1>10. /\ BranchesOf(next) = BranchesOf(th) \cup {to}
       /\ next.branches[to] = br
       /\ \A b \in BranchesOf(th) : next.branches[b] = th.branches[b]
  BY <1>1, <1>2, <1>7, <1>9, SMTT(60), Zenon DEF BranchesOf
<1>11. t[n + 1].branch = to /\ t[n + 1].seq = n + 1
  BY <1>9, SMTT(60), Zenon DEF Stamp
<1>12. /\ s \in Seq(Events) /\ t \in Seq(Events) /\ Len(t) = n + 1
       /\ DOMAIN s = 1..n /\ \A i \in 1..n : s[i].seq = i
  BY <1>1, <1>6, <1>9, GoodEvents, SMTT(60), Zenon
<1>13. Continues(next, th, to)
  BY <1>1, <1>9, <1>10, <1>11, <1>12, SMTT(60), Zenon DEF Continues
<1> DEFINE is == Seen(th, from)
           js == Seen(next, to)
<1>14. ASSUME NEW i \in 1..n
       PROVE  s[i] = t[i] /\ (i \in is <=> i \in js)
  <2>1. i \in DOMAIN s /\ i \in DOMAIN t /\ t[i] = s[i] /\ s[i].seq = i
    BY <1>1, <1>9, <1>12, SMTT(60), Zenon
  <2>2. Visible(next, from, t[i]) <=> Visible(th, from, t[i])
    BY <1>6, <1>13, OldBranchesSeeTheSame, SMTT(60), Zenon
  <2>3. Visible(next, to, t[i]) <=>
          \/ t[i].branch = to /\ t[i].seq > n
          \/ Visible(next, from, t[i]) /\ t[i].seq <= n
    <3>1. Forking(next) /\ to \in BranchesOf(next) /\ t[i].seq \in Nat
      BY <1>1, <1>6, <1>10, <2>1, GoodForking, SMTT(60), Zenon
    <3>2. LET r == next.branches[to] IN
          Visible(next, to, t[i]) <=>
             \/ t[i].branch = to /\ t[i].seq > r.forkSeq
             \/ r.parent # NoBranch /\ Visible(next, r.parent, t[i]) /\ t[i].seq <= r.forkSeq
      BY <3>1, VisibleStep, SMTT(60), Zenon
    <3> QED
      BY <3>2, <1>1, <1>2, <1>10, SMTT(60), Zenon
  <2>4. ~(t[i].seq > n) /\ t[i].seq <= n
    BY <1>1, <2>1, SMTT(60), Zenon
  <2> QED
    BY <2>1, <2>2, <2>3, <2>4, SMTT(60), Zenon DEF Seen
<1>15. n + 1 \in js
  <2>1. Forking(next) /\ to \in BranchesOf(next) /\ t[n + 1].seq \in Nat /\ n + 1 > n
    BY <1>1, <1>6, <1>10, <1>11, GoodForking, SMTT(60), Zenon
  <2>2. Visible(next, to, t[n + 1])
    BY <2>1, <1>2, <1>10, <1>11, VisibleStep, SMTT(60), Zenon
  <2> QED
    BY <2>2, <1>9, SMTT(60), Zenon DEF Seen
<1>16. EventsForBranch(th, from) = Picked(s, is) /\ EventsForBranch(next, to) = Picked(t, js)
  BY <1>6, ViewIsSeen, SMTT(60), Zenon
<1>17. /\ Len(s) <= Len(t) /\ Len(t) = Len(s) + 1 /\ Len(t) \in js
       /\ \A i \in 1..Len(s) : s[i] = t[i] /\ (i \in is <=> i \in js)
  BY <1>1, <1>12, <1>14, <1>15, SMTT(60), Zenon
<1> HIDE DEF is, js, s, t, n
<1>18. s \in Seq(Events) /\ t \in Seq(Events)
  BY <1>12
<1>19. /\ Picked(s, is) \in Seq(Events)
       /\ (Len(t) = Len(s) + 1 /\ Len(t) \in js) => Picked(t, js) = Append(Picked(s, is), t[Len(t)])
  BY <1>17, <1>18, PickedContinues, SMTT(60), Zenon
<1> QED
  BY <1>6, <1>10, <1>13, <1>16, <1>17, <1>19, SMTT(60), Zenon DEF next

(* A new thread shows its one event. *)
LEMMA NewThreadView ==
    ASSUME NEW b \in BranchIDs
    PROVE  /\ BranchesOf(NewThread(b)) = {b}
           /\ Len(EventsForBranch(NewThread(b), b)) = 1
<1> DEFINE e == Stamp(CoreEvent("thread.created"), 1, b)
           th == NewThread(b)
<1>1. e.branch = b /\ e.seq = 1
  BY DEF Stamp, CoreEvent
<1>2. << e >>[1] = e /\ DOMAIN << e >> = {1} /\ Len(<< e >>) = 1 /\ << e >> \in Seq({e})
  OBVIOUS
<1>3. th.branches = OnlyRoot(b) /\ th.events = << e >>
  BY DEF NewThread
<1>4. Good(th)
  BY NewThreadGood
<1> HIDE DEF e, th
<1>5. /\ BranchesOf(th) = {b} /\ th.branches[b] = RootBranch
      /\ RootBranch.parent = NoBranch /\ RootBranch.forkSeq = 0
  <2>1. RootBranch \in Branches /\ RootBranch.parent = NoBranch /\ RootBranch.forkSeq = 0
    BY ThreadLogAssumption DEF RootBranch, Branches
  <2>2. RootBranch # NoBranch
    BY <2>1, ThreadLogAssumption
  <2>3. \A c \in BranchIDs : OnlyRoot(b)[c] = IF c = b THEN RootBranch ELSE NoBranch
    BY SMTT(60), Zenon DEF OnlyRoot
  <2> QED
    BY <1>3, <2>1, <2>2, <2>3, SMTT(60), Zenon DEF BranchesOf
<1>6. Visible(th, b, e)
  <2>1. Forking(th) /\ e.seq \in Nat /\ e.seq > 0 /\ b \in BranchesOf(th)
    BY <1>1, <1>4, <1>5, GoodForking, SMTT(60), Zenon
  <2> QED
    BY <2>1, <1>1, <1>5, VisibleStep, SMTT(60), Zenon
<1>7. 1 \in Seen(th, b)
  BY <1>2, <1>3, <1>6 DEF Seen
<1>8. PICK f : Picks(f, << e >>, Seen(th, b), 1) /\ Picked(<< e >>, Seen(th, b)) = f[1]
  BY <1>2, PickedByLoop, Zenon
<1>9. f[0] = << >> /\ f[1] = Append(f[0], << e >>[1])
  <2>1. 0 \in 0..1 /\ 1 \in 0..1 /\ 1 - 1 = 0 /\ 1 # 0
    OBVIOUS
  <2> QED
    BY <1>7, <1>8, <2>1 DEF Picks
<1>10. f[1] = << e >>
  BY <1>2, <1>9, SMTT(60), Zenon
<1>11. EventsForBranch(th, b) = << e >>
  BY <1>3, <1>4, <1>8, <1>10, ViewIsSeen, SMTT(60), Zenon
<1> QED
  BY <1>2, <1>5, <1>11, SMTT(60), Zenon DEF th

-----------------------------------------------------------------------------
(* The views of all branches of all threads *)

(* The views of a map of threads. *)
ViewsOf(thr) ==
    [p \in UNION {{t} \X BranchesOf(thr[t]) : t \in {u \in ThreadIDs : thr[u] # NoThread}} |->
        EventsForBranch(thr[p[1]], p[2])]

(* Which views there are, and what they show. *)
LEMMA ViewsAre ==
    ASSUME NEW thr
    PROVE  /\ \A p : p \in DOMAIN ViewsOf(thr) <=>
                     \E t \in ThreadIDs : /\ thr[t] # NoThread
                                          /\ \E b \in BranchesOf(thr[t]) : p = << t, b >>
           /\ \A t \in ThreadIDs : \A b \in BranchesOf(thr[t]) : thr[t] # NoThread =>
                 /\ << t, b >> \in DOMAIN ViewsOf(thr)
                 /\ ViewsOf(thr)[<< t, b >>] = EventsForBranch(thr[t], b)
<1> DEFINE D == UNION {{t} \X BranchesOf(thr[t]) : t \in {u \in ThreadIDs : thr[u] # NoThread}}
<1>1. \A p : p \in D <=> \E t \in ThreadIDs : /\ thr[t] # NoThread
                                             /\ \E b \in BranchesOf(thr[t]) : p = << t, b >>
  OBVIOUS
<1>2. ViewsOf(thr) = [p \in D |-> EventsForBranch(thr[p[1]], p[2])]
  BY SMTT(60), Zenon DEF ViewsOf
<1> HIDE DEF D
<1> QED
  BY <1>1, <1>2

(* Replacing one thread leaves the views of the others alone. *)
OnlyChanges(thr, new, t) == \A u \in ThreadIDs : u # t => new[u] = thr[u]

OthersSeen(thr, new, t) ==
    \A p : p[1] # t =>
        /\ p \in DOMAIN ViewsOf(new) <=> p \in DOMAIN ViewsOf(thr)
        /\ p \in DOMAIN ViewsOf(thr) => ViewsOf(new)[p] = ViewsOf(thr)[p]

LEMMA OtherViewsKept ==
    ASSUME NEW thr, NEW new, NEW t, OnlyChanges(thr, new, t)
    PROVE  OthersSeen(thr, new, t)
<1> SUFFICES ASSUME NEW p, p[1] # t
             PROVE  /\ p \in DOMAIN ViewsOf(new) <=> p \in DOMAIN ViewsOf(thr)
                    /\ p \in DOMAIN ViewsOf(thr) => ViewsOf(new)[p] = ViewsOf(thr)[p]
  BY DEF OthersSeen
<1>1. \A u, b : p = << u, b >> => u # t
  OBVIOUS
<1> QED
  BY <1>1, ViewsAre, SMTT(60), Zenon DEF OnlyChanges

(* The views of one thread are those of its branches. *)
LEMMA OneThreadsViews ==
    ASSUME NEW thr, NEW t \in ThreadIDs, thr[t] # NoThread
    PROVE  \A p : p[1] = t /\ p \in DOMAIN ViewsOf(thr) <=> \E b \in BranchesOf(thr[t]) : p = << t, b >>
BY ViewsAre, SMTT(60), Zenon

(* Creating a thread is a Create of the branched log. *)
LEMMA CreateStep ==
    ASSUME NEW thr, DOMAIN thr = ThreadIDs, NEW t \in ThreadIDs, thr[t] = NoThread, NEW b \in BranchIDs
    PROVE  Abstract!Step(ViewsOf(thr), ViewsOf([thr EXCEPT ![t] = NewThread(b)]))
<1> DEFINE new == [thr EXCEPT ![t] = NewThread(b)]
           old == thr
<1>1. new[t] = NewThread(b) /\ new[t] # NoThread
  BY NewThreadGood, ThreadStoreAssumption DEF Good
<1>2. BranchesOf(new[t]) = {b} /\ Len(EventsForBranch(new[t], b)) = 1
  BY <1>1, NewThreadView
<1>3. OthersSeen(thr, new, t)
  <2>1. OnlyChanges(thr, new, t)
    BY SMTT(60), Zenon DEF OnlyChanges
  <2> HIDE DEF new
  <2> QED
    BY <2>1, OtherViewsKept
<1> HIDE DEF new
<1>4. \A p \in DOMAIN ViewsOf(thr) : p[1] # t
  BY ViewsAre, SMTT(60), Zenon
<1>5. \A p : p[1] = t /\ p \in DOMAIN ViewsOf(new) <=> p = << t, b >>
  BY <1>1, <1>2, OneThreadsViews
<1>6. DOMAIN ViewsOf(new) = DOMAIN ViewsOf(thr) \cup {<< t, b >>}
  BY <1>3, <1>4, <1>5, Zenon DEF OthersSeen
<1>7. ViewsOf(new)[<< t, b >>] = EventsForBranch(new[t], b)
  BY <1>1, <1>2, ViewsAre, SMTT(60), Zenon
<1>8. Abstract!Keeps(ViewsOf(thr), ViewsOf(new), DOMAIN ViewsOf(thr))
  BY <1>3, <1>4, SMTT(60), Zenon DEF Abstract!Keeps, OthersSeen
<1>9. Abstract!Create(ViewsOf(thr), ViewsOf(new), t, b)
  BY <1>2, <1>4, <1>6, <1>7, <1>8, SMTT(60), Zenon DEF Abstract!Create
<1>10. << t, b >> \in DOMAIN ViewsOf(new) /\ << t, b >> \notin DOMAIN ViewsOf(thr)
  BY <1>4, <1>5
<1>11. ViewsOf(new) # ViewsOf(thr)
  BY <1>10
<1>12. \E p \in DOMAIN ViewsOf(new) : Abstract!Create(ViewsOf(thr), ViewsOf(new), p[1], p[2])
  <2>1. << t, b >>[1] = t /\ << t, b >>[2] = b
    OBVIOUS
  <2> QED
    BY <1>9, <1>10, <2>1
<1> QED
  BY <1>11, <1>12, Zenon DEF Abstract!Step, new

(* Continuing a thread on a branch it has is an Extend of that branch; on a  *)
(* branch it lacks (an earlier thread's handle) no view changes.             *)
LEMMA ExtendStep ==
    ASSUME NEW thr, DOMAIN thr = ThreadIDs, NEW t \in ThreadIDs, Good(thr[t]),
           NEW next, NEW branch, Good(next), Continues(next, thr[t], branch),
           BranchesOf(next) = BranchesOf(thr[t]), Len(thr[t].events) < Len(next.events)
    PROVE  LET new == [thr EXCEPT ![t] = next] IN
           ViewsOf(new) = ViewsOf(thr) \/ Abstract!Step(ViewsOf(thr), ViewsOf(new))
<1> DEFINE new == [thr EXCEPT ![t] = next]
<1>1. new[t] = next /\ next # NoThread /\ thr[t] # NoThread
  BY ThreadStoreAssumption, SMTT(60), Zenon DEF Good
<1>2. OthersSeen(thr, new, t)
  <2>1. OnlyChanges(thr, new, t)
    BY SMTT(60), Zenon DEF OnlyChanges
  <2> HIDE DEF new
  <2> QED
    BY <2>1, OtherViewsKept
<1> HIDE DEF new
<1>3. \A p : /\ p[1] = t /\ p \in DOMAIN ViewsOf(thr) <=> \E b \in BranchesOf(thr[t]) : p = << t, b >>
             /\ p[1] = t /\ p \in DOMAIN ViewsOf(new) <=> \E b \in BranchesOf(next) : p = << t, b >>
  BY <1>1, OneThreadsViews
<1>4. DOMAIN ViewsOf(new) = DOMAIN ViewsOf(thr)
  BY <1>2, <1>3, ZenonT(60), SMTT(60) DEF OthersSeen
<1>5. ASSUME NEW b \in BranchesOf(thr[t])
      PROVE  LET o == ViewsOf(thr)[<< t, b >>]
                 m == ViewsOf(new)[<< t, b >>] IN
             /\ o \in Seq(Events) /\ m \in Seq(Events)
             /\ b # branch => m = o
             /\ Len(o) <= Len(m) /\ \A i \in 1..Len(o) : o[i] = m[i]
             /\ b = branch => Len(o) < Len(m)
  <2>1. /\ ViewsOf(thr)[<< t, b >>] = EventsForBranch(thr[t], b)
        /\ ViewsOf(new)[<< t, b >>] = EventsForBranch(next, b)
    BY <1>1, ViewsAre, SMTT(60), Zenon
  <2> QED
    BY <2>1, ViewsContinue, SMTT(60), Zenon
<1>6. \A p \in DOMAIN ViewsOf(thr) : p # << t, branch >> => ViewsOf(new)[p] = ViewsOf(thr)[p]
  BY <1>2, <1>3, <1>5, SMTT(60), Zenon DEF OthersSeen
<1>7. CASE branch \in BranchesOf(thr[t])
  <2> DEFINE o == ViewsOf(thr)[<< t, branch >>]
             m == ViewsOf(new)[<< t, branch >>]
  <2>1. /\ o \in Seq(Events) /\ m \in Seq(Events)
        /\ Len(o) <= Len(m) /\ Len(o) < Len(m) /\ \A i \in 1..Len(o) : o[i] = m[i]
    BY <1>5, <1>7, SMTT(60), Zenon
  <2> HIDE DEF o, m
  <2>2. o # m
    BY <2>1
  <2>3. Abstract!Continued(o, m)
    <3>1. SubSeq(m, 1, Len(o)) = o
      BY <2>1, SMTT(60), Zenon
    <3> QED
      BY <2>1, <3>1, SMTT(60), Zenon DEF Abstract!Continued
  <2>4. << t, branch >> \in DOMAIN ViewsOf(thr)
    BY <1>1, <1>7, ViewsAre, SMTT(60), Zenon
  <2>5. ViewsOf(new) # ViewsOf(thr)
    BY <2>2, SMTT(60), Zenon DEF o, m
  <2>6. Abstract!Keeps(ViewsOf(thr), ViewsOf(new), DOMAIN ViewsOf(thr) \ {<< t, branch >>})
    BY <1>6, SMTT(60), Zenon DEF Abstract!Keeps
  <2>7. Abstract!Extend(ViewsOf(thr), ViewsOf(new), t, branch)
    BY <1>4, <2>3, <2>6, SMTT(60), Zenon DEF Abstract!Extend, o, m
  <2>8. << t, branch >>[1] = t /\ << t, branch >>[2] = branch
    BY SMTT(60), Zenon
  <2>9. \E p \in DOMAIN ViewsOf(thr) : Abstract!Extend(ViewsOf(thr), ViewsOf(new), p[1], p[2])
    BY <2>4, <2>7, <2>8
  <2> QED
    BY <2>5, <2>9, Zenon DEF Abstract!Step, new
<1>8. CASE branch \notin BranchesOf(thr[t])
  <2>1. << t, branch >> \notin DOMAIN ViewsOf(thr)
    BY <1>3, <1>8, SMTT(60), Zenon
  <2>2. \A p \in DOMAIN ViewsOf(thr) : ViewsOf(new)[p] = ViewsOf(thr)[p]
    BY <1>6, <2>1, Zenon, SMTT(60)
  <2>3. /\ ViewsOf(thr) = [p \in DOMAIN ViewsOf(thr) |-> ViewsOf(thr)[p]]
        /\ ViewsOf(new) = [p \in DOMAIN ViewsOf(new) |-> ViewsOf(new)[p]]
    BY DEF ViewsOf
  <2> QED
    BY <1>4, <2>2, <2>3, Zenon DEF new
<1> QED
  BY <1>7, <1>8

(* Forking a thread is a Fork. *)
LEMMA ForkStep ==
    ASSUME NEW thr, DOMAIN thr = ThreadIDs, NEW t \in ThreadIDs, Good(thr[t]),
           NEW from \in BranchesOf(thr[t]), NEW to \in BranchIDs, to \notin BranchesOf(thr[t])
    PROVE  Abstract!Step(ViewsOf(thr), ViewsOf([thr EXCEPT ![t] = ForkThread(@, from, to)]))
<1> DEFINE next == ForkThread(thr[t], from, to)
           new == [thr EXCEPT ![t] = next]
<1>1. PICK e : /\ Good(next) /\ Continues(next, thr[t], to)
               /\ BranchesOf(next) = BranchesOf(thr[t]) \cup {to}
               /\ EventsForBranch(thr[t], from) \in Seq(Events)
               /\ EventsForBranch(next, to) = Append(EventsForBranch(thr[t], from), e)
  BY ForkContinues, SMTT(60), Zenon
<1>2. new[t] = next /\ next # NoThread /\ thr[t] # NoThread
  BY <1>1, ThreadStoreAssumption DEF Good
<1>3. OthersSeen(thr, new, t)
  <2>1. OnlyChanges(thr, new, t)
    BY DEF OnlyChanges
  <2> HIDE DEF new
  <2> QED
    BY <2>1, OtherViewsKept
<1>4. new = [thr EXCEPT ![t] = ForkThread(@, from, to)]
  BY SMTT(60), Zenon
<1> HIDE DEF new, next
<1>5. \A p : /\ p[1] = t /\ p \in DOMAIN ViewsOf(thr) <=> \E b \in BranchesOf(thr[t]) : p = << t, b >>
             /\ p[1] = t /\ p \in DOMAIN ViewsOf(new) <=> \E b \in BranchesOf(next) : p = << t, b >>
  BY <1>2, OneThreadsViews, SMTT(60), Zenon
<1>6. << t, to >> \notin DOMAIN ViewsOf(thr) /\ << t, to >> \in DOMAIN ViewsOf(new)
  BY <1>1, <1>5
<1>7. DOMAIN ViewsOf(new) = DOMAIN ViewsOf(thr) \cup {<< t, to >>}
  BY <1>1, <1>3, <1>5, ZenonT(60), SMTT(60) DEF OthersSeen
<1>8. ASSUME NEW b \in BranchesOf(thr[t])
      PROVE  ViewsOf(new)[<< t, b >>] = ViewsOf(thr)[<< t, b >>]
  <2>1. /\ ViewsOf(thr)[<< t, b >>] = EventsForBranch(thr[t], b)
        /\ ViewsOf(new)[<< t, b >>] = EventsForBranch(next, b)
    BY <1>1, <1>2, ViewsAre, SMTT(60), Zenon
  <2>2. b # to
    BY SMTT(60), Zenon
  <2> QED
    BY <1>1, <2>1, <2>2, ViewsContinue, SMTT(60), Zenon
<1>9. Abstract!Keeps(ViewsOf(thr), ViewsOf(new), DOMAIN ViewsOf(thr))
  BY <1>3, <1>5, <1>8, SMTT(60), Zenon DEF OthersSeen, Abstract!Keeps
<1>10. /\ Len(ViewsOf(new)[<< t, to >>]) = Len(ViewsOf(thr)[<< t, from >>]) + 1
       /\ Abstract!Continued(ViewsOf(thr)[<< t, from >>], ViewsOf(new)[<< t, to >>])
  <2> DEFINE s == EventsForBranch(thr[t], from)
  <2>1. /\ ViewsOf(thr)[<< t, from >>] = s
        /\ ViewsOf(new)[<< t, to >>] = Append(s, e)
    <3>1. to \in BranchesOf(next) /\ EventsForBranch(next, to) = Append(s, e)
      BY <1>1, SMTT(60), Zenon
    <3>2. ViewsOf(thr)[<< t, from >>] = s
      BY <1>2, ViewsAre, SMTT(60), Zenon
    <3>3. ViewsOf(new)[<< t, to >>] = EventsForBranch(next, to)
      BY <1>2, <3>1, ViewsAre, SMTT(60), Zenon
    <3> QED
      BY <3>1, <3>2, <3>3, SMTT(60), Zenon
  <2>2. s \in Seq(Events)
    BY <1>1
  <2> HIDE DEF s
  <2>3. s \in Seq(Events \cup {e}) /\ Len(s) \in Nat /\ Len(Append(s, e)) = Len(s) + 1
    BY <2>2
  <2>4. SubSeq(Append(s, e), 1, Len(s)) = s
    BY <2>3
  <2>5. Len(s) < Len(Append(s, e))
    BY <2>3, SMTT(60), Zenon
  <2> QED
    BY <2>1, <2>3, <2>4, <2>5, SMTT(60), Zenon DEF Abstract!Continued
<1>11. Abstract!Fork(ViewsOf(thr), ViewsOf(new), t, from, to)
  BY <1>6, <1>7, <1>9, <1>10, SMTT(60), Zenon DEF Abstract!Fork
<1>12. << t, from >> \in DOMAIN ViewsOf(thr)
  BY <1>2, ViewsAre
<1>13. /\ << t, from >>[1] = t /\ << t, from >>[2] = from
       /\ << t, to >>[1] = t /\ << t, to >>[2] = to
  BY SMTT(60), Zenon
<1>14. \E p \in DOMAIN ViewsOf(thr), q \in DOMAIN ViewsOf(new) :
          p[1] = q[1] /\ Abstract!Fork(ViewsOf(thr), ViewsOf(new), p[1], p[2], q[2])
  BY <1>6, <1>11, <1>12, <1>13, SMTT(60), Zenon
<1>15. ViewsOf(new) # ViewsOf(thr)
  BY <1>6, SMTT(60), Zenon
<1>16. Abstract!Step(ViewsOf(thr), ViewsOf(new))
  BY <1>14, <1>15, SMTT(60), Zenon DEF Abstract!Step
<1> QED
  BY <1>4, <1>16, SMTT(60), Zenon

(* Removing a thread is a Discard; removing a missing one changes nothing. *)
LEMMA DiscardStep ==
    ASSUME NEW thr, DOMAIN thr = ThreadIDs, NEW t \in ThreadIDs
    PROVE  LET new == [thr EXCEPT ![t] = NoThread] IN
           ViewsOf(new) = ViewsOf(thr) \/ Abstract!Step(ViewsOf(thr), ViewsOf(new))
<1> DEFINE new == [thr EXCEPT ![t] = NoThread]
<1>1. new[t] = NoThread
  OBVIOUS
<1>2. OthersSeen(thr, new, t)
  <2>1. OnlyChanges(thr, new, t)
    BY SMTT(60), Zenon DEF OnlyChanges
  <2> HIDE DEF new
  <2> QED
    BY <2>1, OtherViewsKept
<1> HIDE DEF new
<1>3. \A p \in DOMAIN ViewsOf(new) : p[1] # t
  BY <1>1, ViewsAre
<1>4. DOMAIN ViewsOf(new) = {p \in DOMAIN ViewsOf(thr) : p[1] # t}
  BY <1>2, <1>3, Zenon DEF OthersSeen
<1>5. Abstract!Keeps(ViewsOf(thr), ViewsOf(new), DOMAIN ViewsOf(new))
  BY <1>2, <1>4, SMTT(60), Zenon DEF OthersSeen, Abstract!Keeps
<1>6. Abstract!Discard(ViewsOf(thr), ViewsOf(new), t)
  BY <1>4, <1>5, SMTT(60), Zenon DEF Abstract!Discard
<1>7. CASE \E p \in DOMAIN ViewsOf(thr) : p[1] = t
  <2>1. ViewsOf(new) # ViewsOf(thr)
    BY <1>3, <1>7, SMTT(60), Zenon
  <2>2. \E p \in DOMAIN ViewsOf(thr) : Abstract!Discard(ViewsOf(thr), ViewsOf(new), p[1])
    BY <1>6, <1>7
  <2> QED
    BY <2>1, <2>2, Zenon DEF Abstract!Step, new
<1>8. CASE \A p \in DOMAIN ViewsOf(thr) : p[1] # t
  <2>1. DOMAIN ViewsOf(new) = DOMAIN ViewsOf(thr)
    BY <1>4, <1>8, SMTT(60), Zenon
  <2>2. \A p \in DOMAIN ViewsOf(thr) : ViewsOf(new)[p] = ViewsOf(thr)[p]
    BY <1>2, <1>8, SMTT(60), Zenon DEF OthersSeen
  <2>3. /\ ViewsOf(thr) = [p \in DOMAIN ViewsOf(thr) |-> ViewsOf(thr)[p]]
        /\ ViewsOf(new) = [p \in DOMAIN ViewsOf(new) |-> ViewsOf(new)[p]]
    BY DEF ViewsOf
  <2> QED
    BY <2>1, <2>2, <2>3, Zenon DEF new
<1> QED
  BY <1>7, <1>8

(* An empty store shows no logs. *)
LEMMA InitRefines ==
    ASSUME Init
    PROVE  Abstract!Init
<1>1. BranchViews = ViewsOf(threads)
  BY DEF BranchViews, ViewsOf, Stored
<1>2. \A t \in ThreadIDs : threads[t] = NoThread
  BY SMTT(60), Zenon DEF Init
<1>3. DOMAIN ViewsOf(threads) = {}
  BY <1>2, ViewsAre, SMTT(60), Zenon
<1> QED
  BY <1>1, <1>3, SMTT(60), Zenon DEF Abstract!Init

(* Every step of the store is a step of BranchedLog or leaves the views alone. *)
LEMMA StepRefines ==
    ASSUME IndInv, [Next]_vars
    PROVE  [Abstract!Next]_BranchViews
<1>1. BranchViews = ViewsOf(threads) /\ BranchViews' = ViewsOf(threads')
  BY DEF BranchViews, ViewsOf, Stored
<1> DEFINE Refines == ViewsOf(threads') = ViewsOf(threads) \/ Abstract!Step(ViewsOf(threads), ViewsOf(threads'))
<1> SUFFICES Refines
  BY <1>1 DEF Abstract!Next
<1>2. /\ DOMAIN threads = ThreadIDs
      /\ \A t \in Stored : t \in ThreadIDs /\ Good(threads[t])
      /\ \A t \in ThreadIDs : t \notin Stored => threads[t] = NoThread
      /\ \A h \in Handles : lives[h] # NoLive => lives[h] \in Lives
  BY IndInvGood DEF Stored
<1>3. ASSUME threads' = threads PROVE Refines
  BY <1>3
<1>4. ASSUME NEW t \in Stored, NEW next, NEW branch, Good(next), Continues(next, threads[t], branch),
             BranchesOf(next) = BranchesOf(threads[t]), Len(threads[t].events) < Len(next.events),
             threads' = [threads EXCEPT ![t] = next]
      PROVE  Refines
  BY <1>2, <1>4, ExtendStep, Zenon
<1>5. ASSUME NEW t \in ThreadIDs, threads' = [threads EXCEPT ![t] = NoThread]
      PROVE  Refines
  BY <1>2, <1>5, DiscardStep, Zenon
<1>6. ASSUME NEW h \in Handles, NEW t \in ThreadIDs, NEW b \in BranchIDs, Create(h, t, b)
      PROVE  Refines
  BY <1>2, <1>6, CreateStep, Zenon DEF Create
<1>7. ASSUME NEW h \in Handles, NEW t \in ThreadIDs, NEW from \in BranchIDs, NEW to \in BranchIDs,
             Fork(h, t, from, to)
      PROVE  Refines
  BY <1>2, <1>7, ForkStep, Zenon DEF Fork
<1>8. ASSUME NEW t \in ThreadIDs, NEW archived \in BOOLEAN, SetArchived(t, archived)
      PROVE  Refines
  <2>1. t \in Stored /\ threads' = [threads EXCEPT ![t] = ArchiveThread(threads[t], archived)]
    BY <1>8 DEF SetArchived
  <2> QED
    BY <1>2, <1>4, <2>1, ArchiveContinues, Zenon
<1>9. ASSUME NEW h \in Handles, NEW batch \in Batches, LiveAppend(h, batch)
      PROVE  Refines
  <2> DEFINE t == lives[h].thread
             b == lives[h].branch
  <2>1. /\ t \in Stored /\ b \in BranchIDs
        /\ threads' = [threads EXCEPT ![t] = AppendLocked(threads[t], b, batch)]
    BY <1>2, <1>9, SMTT(60), Zenon DEF LiveAppend, Lives
  <2>2. batch \in Seq(NewEvents) /\ Len(batch) > 0
    BY BatchesAreEvents, SMTT(60), Zenon
  <2> HIDE DEF t, b
  <2> QED
    BY <1>2, <1>4, <2>1, <2>2, AppendContinues, ZenonT(60), SMTT(60)
<1>10. ASSUME NEW h \in Handles, Discard(h)
       PROVE  Refines
  BY <1>2, <1>5, <1>10, Zenon DEF Discard, Lives
<1>11. ASSUME NEW t \in ThreadIDs, DiscardThread(t)
       PROVE  Refines
  BY <1>5, <1>11, Zenon DEF DiscardThread
<1>12. ASSUME NEW h \in Handles, NEW t \in ThreadIDs, NEW b \in BranchIDs, Resume(h, t, b)
       PROVE  Refines
  BY <1>3, <1>12 DEF Resume
<1>13. ASSUME NEW h \in Handles, Shutdown(h)
       PROVE  Refines
  BY <1>3, <1>13, SMTT(60), Zenon DEF Shutdown
<1>14. ASSUME UNCHANGED vars
       PROVE  Refines
  BY <1>3, <1>14 DEF vars
<1> HIDE DEF Refines
<1> QED
  BY <1>6, <1>7, <1>8, <1>9, <1>10, <1>11, <1>12, <1>13, <1>14, Zenon, SMTT(60) DEF Next

(* MemoryStore implements BranchedLog: reading any branch with its windows   *)
(* gives what it would give if every fork copied the log of its parent, and  *)
(* no operation changes the log of any branch but by appending to the one it *)
(* was called on. EventsForBranch and branchWindows are right about forks of *)
(* forks at any depth.                                                       *)
THEOREM StoreImplementsBranchedLog == Spec => ImplementsBranchedLog
<1>1. Init => IndInv /\ Abstract!Init
  BY InitInv, InitRefines, SMTT(60), Zenon
<1>2. IndInv /\ [Next]_vars => IndInv' /\ [Abstract!Next]_BranchViews
  BY StepInv, StepRefines
<1> QED
  BY <1>1, <1>2, PTL DEF Spec, ImplementsBranchedLog, Abstract!Spec

=============================================================================
