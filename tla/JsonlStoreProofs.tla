--------------------------- MODULE JsonlStoreProofs ---------------------------
(***************************************************************************)
(* The file store for any number of threads, branches, handles and events, *)
(* as one session uses it (Serial): one call at a time, and each thread    *)
(* opened once. Within these calls any write may fail and the process may  *)
(* die at any point.                                                       *)
(*                                                                         *)
(* HandlesAgreeWithFiles is not inductive: it does not say in which order  *)
(* lines come. IInv adds that each line of a file repeats an earlier line  *)
(* or is numbered above all of them, that acknowledged events have rising  *)
(* numbers, and where a handle stands (Saved): its memory is a part        *)
(* numbered below nextSeq and then consecutive numbers from nextSeq on,    *)
(* and the file holds exactly the events of a prefix of the memory, so     *)
(* that the line a retry writes is either in the file or the next number.  *)
(* Of a rewrite it says that each file it has to replace is the one its    *)
(* memory was loaded from, with at most one new event behind it.           *)
(***************************************************************************)
EXTENDS JsonlStore, InductionLemmas, TLAPS

(* A line repeats an earlier one or is numbered above all earlier ones. *)
Rising(log) ==
    \A j \in 1..Len(log) : \/ \E i \in 1..(j - 1) : log[i] = log[j]
                           \/ \A i \in 1..(j - 1) : log[i].seq < log[j].seq

OneEach(log) == \A i, j \in 1..Len(log) : log[i].seq = log[j].seq => log[i] = log[j]

Increasing(log) == \A i, j \in 1..Len(log) : i < j => log[i].seq < log[j].seq

Below(log, n) == \A i \in 1..Len(log) : log[i].seq < n

Within(log, other) == \A i \in 1..Len(log) : \E j \in 1..Len(other) : other[j] = log[i]

(* A file and what has been acknowledged of it. *)
Recorded(file, ack) == Rising(file) /\ OneEach(file) /\ Increasing(ack) /\ Within(ack, file)

Known(th) == th.nextSeq = MaxSeqOf(th.events) + 1

(* The first s events of the handle's memory are saved; those up to m are    *)
(* all that the file holds, and the call under way has come to k.            *)
Saved(live, file, ack, s, m) ==
    LET log == live.mem.events
        N == Len(log) IN
    /\ s <= m
    /\ \A i \in 1..s : log[i].seq < live.nextSeq
    /\ \A i \in (s + 1)..N : log[i].seq = live.nextSeq + (i - s) - 1
    /\ live.mem.nextSeq = live.nextSeq + (N - s)
    /\ \A i \in 1..m : \E j \in 1..Len(file) : file[j] = log[i]
    /\ \A j \in 1..Len(file) : \E i \in 1..m : file[j] = log[i]
    /\ live.pending # << >> =>
         \E k \in s..m : /\ Len(live.pending) = N - k
                          /\ \A i \in 1..(N - k) : live.pending[i] = log[k + i]
    /\ Below(ack, live.nextSeq)

Tracks(live, file, ack) == \E s, m \in 0..Len(live.mem.events) : Saved(live, file, ack, s, m)

FilesInv == \A t \in ThreadIDs : Recorded(files[t], acked[t])

Unopened(ls, t) == \A h \in Handles : ls[h] # NoLive => ls[h].thread # t

LivesInv ==
    \A h \in Handles : lives[h] # NoLive =>
        /\ Tracks(lives[h], files[lives[h].thread], acked[lives[h].thread])
        /\ \A g \in Handles : g # h /\ lives[g] # NoLive => lives[g].thread # lives[h].thread

(* The memory's thread is the file, or the file and one event that nobody    *)
(* has seen yet.                                                             *)
Continues(th, file) ==
    \E e \in Events : th.events = Append(file, e) /\ Below(file, e.seq)

Replaces(op, t, fs, ls) ==
    /\ Known(op.mem[t])
    /\ fs[t] = op.mem[t].events \/ (t \in op.todo /\ Unopened(ls, t) /\ Continues(op.mem[t], fs[t]))

(* What an operation will give back as a handle. *)
Awaits(op, ls) ==
    op.target # NoLive =>
        /\ ls[op.target.handle] = NoLive
        /\ Unopened(ls, op.target.thread)
        /\ op.mem[op.target.thread] # NoThread

OpsInv ==
    \A c \in Clients : ops[c] # NoOp =>
        /\ \A d \in Clients : d # c => ops[d] = NoOp
        /\ \A h \in Handles : lives[h] # NoLive => lives[h].pending = << >>
        /\ \A t \in ops[c].todo : ops[c].mem[t] # NoThread
        /\ \A t \in ThreadIDs : ops[c].mem[t] # NoThread => Replaces(ops[c], t, files, lives)
        /\ Awaits(ops[c], lives)

IInv == Serial /\ TypeOK /\ FilesInv /\ LivesInv /\ OpsInv

-----------------------------------------------------------------------------
(* Numbers of a log *)

(* Events of a log have numbers. *)
LEMMA LogNumbers ==
    ASSUME NEW log \in Seq(Events)
    PROVE  Len(log) \in Nat /\ DOMAIN log = 1..Len(log) /\ \A i \in 1..Len(log) : log[i] \in Events /\ log[i].seq \in Nat
<1>1. \A e \in Events : e.seq \in Nat
  BY DEF Events
<1>2. \A i \in 1..Len(log) : log[i] \in Events
  OBVIOUS
<1> QED
  BY <1>1, <1>2

(* MaxSeqOf finds the greatest number, 0 for a log without events. *)
LEMMA MaxSeqIs ==
    ASSUME NEW log \in Seq(Events)
    PROVE  /\ MaxSeqOf(log) \in Nat
           /\ \A i \in 1..Len(log) : log[i].seq <= MaxSeqOf(log)
           /\ MaxSeqOf(log) = 0 \/ \E i \in 1..Len(log) : log[i].seq = MaxSeqOf(log)
<1> DEFINE N == Len(log)
           seqs == {log[i].seq : i \in DOMAIN log} \cup {0}
           T == {n \in 0..N : \E b \in Nat : \A i \in 1..n : log[i].seq <= b}
<1>1. N \in Nat /\ DOMAIN log = 1..N /\ \A i \in 1..N : log[i].seq \in Nat
  BY LogNumbers
<1>2. 0 \in T
  BY <1>1
<1>3. ASSUME NEW n \in 1..N, n - 1 \in T
      PROVE  n \in T
  <2>1. PICK b \in Nat : \A i \in 1..(n - 1) : log[i].seq <= b
    BY <1>3
  <2> DEFINE c == IF log[n].seq <= b THEN b ELSE log[n].seq
  <2>2. c \in Nat /\ b <= c /\ log[n].seq <= c
    BY <1>1
  <2>3. \A i \in 1..n : log[i].seq <= c
    <3> HIDE DEF c
    <3> TAKE i \in 1..n
    <3>1. CASE i = n
      BY <2>2, <3>1
    <3>2. CASE i # n
      BY <1>1, <2>1, <2>2, <3>2
    <3> QED
      BY <3>1, <3>2
  <2>4. n \in 0..N
    BY <1>1
  <2> HIDE DEF c
  <2> QED
    BY <2>2, <2>3, <2>4, Zenon
<1>4. N \in T
  <2> HIDE DEF T
  <2>1. \A n \in 0..N : n \in T
    BY <1>1, <1>2, <1>3, BoundedInduction, Zenon
  <2> QED
    BY <1>1, <2>1
<1>5. PICK b \in Nat : \A i \in 1..N : log[i].seq <= b
  BY <1>4
<1>6. seqs \subseteq 0..b /\ seqs # {}
  BY <1>1, <1>5
<1>7. \E n \in seqs : \A m \in seqs : m <= n
  <2> HIDE DEF seqs
  <2> QED
    BY <1>6, GreatestNumber, Zenon
<1>8. MaxSeqOf(log) \in seqs /\ \A m \in seqs : m <= MaxSeqOf(log)
  <2>1. MaxSeqOf(log) = CHOOSE n \in seqs : \A m \in seqs : m <= n
    BY DEF MaxSeqOf
  <2> HIDE DEF seqs
  <2> QED
    BY <1>7, <2>1, Zenon
<1> QED
  BY <1>1, <1>8

(* It is the number that bounds the log and occurs in it. *)
LEMMA MaxSeqUnique ==
    ASSUME NEW log \in Seq(Events), NEW i \in 1..Len(log),
           \A j \in 1..Len(log) : log[j].seq <= log[i].seq
    PROVE  MaxSeqOf(log) = log[i].seq
<1>1. /\ MaxSeqOf(log) \in Nat
      /\ \A j \in 1..Len(log) : log[j].seq <= MaxSeqOf(log)
      /\ MaxSeqOf(log) = 0 \/ \E j \in 1..Len(log) : log[j].seq = MaxSeqOf(log)
  BY MaxSeqIs
<1>2. log[i].seq \in Nat
  BY LogNumbers
<1> QED
  BY <1>1, <1>2

(* A file whose first occurrences rise has acknowledged events in order. *)
LEMMA FirstLineIs ==
    ASSUME NEW t \in ThreadIDs, files[t] \in Seq(Events), NEW e,
           \E i \in 1..Len(files[t]) : files[t][i] = e
    PROVE  /\ FirstLine(t, e) \in 1..Len(files[t]) /\ files[t][FirstLine(t, e)] = e
           /\ \A j \in 1..(FirstLine(t, e) - 1) : files[t][j] # e
<1> DEFINE file == files[t]
           at == {i \in 1..Len(file) : file[i] = e}
<1>1. PICK i \in at : \A j \in at : i <= j
  <2>1. at \subseteq Nat /\ at # {}
    OBVIOUS
  <2> HIDE DEF at
  <2> QED
    BY <2>1, LeastNumber, Zenon
<1>2. i \in DOMAIN file /\ file[i] = e /\ \A j \in 1..(i - 1) : file[j] # e
  BY <1>1
<1>3. /\ FirstLine(t, e) \in DOMAIN file /\ file[FirstLine(t, e)] = e
      /\ \A j \in 1..(FirstLine(t, e) - 1) : file[j] # e
  BY <1>2, Zenon DEF FirstLine
<1> QED
  BY <1>3

-----------------------------------------------------------------------------
(* Operations on one thread *)

(* LatestAt finds the greatest index. *)
LEMMA LatestIs ==
    ASSUME NEW n \in Nat, NEW is, is \subseteq 1..n, is # {}
    PROVE  LatestAt(is) \in is
<1>1. is \subseteq 0..n
  OBVIOUS
<1>2. \E i \in is : \A j \in is : j <= i
  BY <1>1, GreatestNumber, Zenon
<1> QED
  BY <1>2, Zenon DEF LatestAt

(* Import builds a thread with the log's events that numbers on from them. *)
LEMMA ImportKnown ==
    ASSUME NEW log \in Seq(Events), log # << >>
    PROVE  Import(log) \in Threads /\ Import(log).events = log /\ Known(Import(log))
<1> DEFINE N == Len(log)
<1>1. N \in Nat /\ DOMAIN log = 1..N /\ 1 \in 1..N /\ \A i \in 1..N : log[i] \in Events
  OBVIOUS
<1>2. ImportDefault(log) \in BranchIDs
  <2> DEFINE is == OfKind(log, {"thread.created"})
  <2>1. is \subseteq 1..N
    BY <1>1 DEF OfKind
  <2>2. is # {} => LatestAt(is) \in 1..N
    <3> HIDE DEF is
    <3> QED
      BY <1>1, <2>1, LatestIs, Zenon
  <2>3. ImportDefault(log) = IF is = {} THEN log[1].branch ELSE log[LatestAt(is)].branch
    BY DEF ImportDefault
  <2> HIDE DEF is
  <2> QED
    BY <1>1, <2>2, <2>3 DEF Events
<1>3. ASSUME NEW b \in BranchIDs
      PROVE  ImportBranch(log, b) \in Branches \cup {NoBranch}
  <2> DEFINE is == {i \in OfKind(log, {"branch.created"}) : log[i].branch = b}
  <2>1. is \subseteq 1..N
    BY <1>1 DEF OfKind
  <2>2. is # {} => LatestAt(is) \in 1..N
    <3> HIDE DEF is
    <3> QED
      BY <1>1, <2>1, LatestIs, Zenon
  <2>3. ImportBranch(log, b) =
          IF is # {} THEN [parent |-> log[LatestAt(is)].from, forkSeq |-> log[LatestAt(is)].forkSeq]
          ELSE IF \E i \in DOMAIN log : log[i].branch = b THEN RootBranch ELSE NoBranch
    BY DEF ImportBranch
  <2>4. RootBranch \in Branches
    BY DEF RootBranch, Branches
  <2> HIDE DEF is
  <2>5. CASE is # {}
    <3>1. log[LatestAt(is)] \in Events
      BY <1>1, <2>2, <2>5
    <3> QED
      BY <2>3, <2>5, <3>1 DEF Events, Branches
  <2>6. CASE is = {}
    BY <2>3, <2>4, <2>6
  <2> QED
    BY <2>5, <2>6
<1>4. [b \in BranchIDs |-> ImportBranch(log, b)] \in [BranchIDs -> Branches \cup {NoBranch}]
  BY <1>3
<1>5. ImportArchived(log) \in BOOLEAN
  BY DEF ImportArchived
<1>6. ImportNextSeq(log) \in Nat /\ ImportNextSeq(log) = MaxSeqOf(log) + 1
  BY MaxSeqIs DEF ImportNextSeq
<1>7. Import(log) \in Threads
  BY <1>2, <1>4, <1>5, <1>6 DEF Import, Threads
<1> QED
  BY <1>6, <1>7 DEF Import, Known

(* appendLocked adds Len(batch) events numbered from nextSeq on. *)
LEMMA AppendBatch ==
    ASSUME NEW th \in Threads, NEW branch \in BranchIDs, NEW batch \in Seq(NewEvents)
    PROVE  LET next == AppendLocked(th, branch, batch)
               n == Len(th.events) IN
           /\ next \in Threads
           /\ next.nextSeq = th.nextSeq + Len(batch)
           /\ Len(next.events) = n + Len(batch)
           /\ \A i \in 1..n : next.events[i] = th.events[i]
           /\ \A i \in 1..Len(batch) : next.events[n + i] = Stamp(batch[i], th.nextSeq + i - 1, branch)
           /\ \A i \in 1..Len(batch) : /\ Stamp(batch[i], th.nextSeq + i - 1, branch) \in Events
                                       /\ next.events[n + i].seq = th.nextSeq + i - 1
<1> DEFINE next == AppendLocked(th, branch, batch)
           n == Len(th.events)
           tail == [i \in 1..Len(batch) |-> Stamp(batch[i], th.nextSeq + i - 1, branch)]
<1>1. th.events \in Seq(Events) /\ th.nextSeq \in Nat /\ Len(batch) \in Nat /\ n \in Nat
  BY DEF Threads
<1>2. \A i \in 1..Len(batch) :
        /\ Stamp(batch[i], th.nextSeq + i - 1, branch) \in Events
        /\ Stamp(batch[i], th.nextSeq + i - 1, branch).seq = th.nextSeq + i - 1
  <2> TAKE i \in 1..Len(batch)
  <2>1. batch[i] \in NewEvents
    OBVIOUS
  <2>2. th.nextSeq + i - 1 \in Nat
    BY <1>1
  <2> QED
    BY <2>1, <2>2 DEF Stamp, NewEvents, Events
<1>3. tail \in Seq(Events) /\ Len(tail) = Len(batch)
  BY <1>1, <1>2
<1>4. next = [th EXCEPT !.events = th.events \o tail, !.nextSeq = th.nextSeq + Len(batch)]
  BY DEF AppendLocked
<1>5. \A i \in 1..Len(batch) : tail[i] = Stamp(batch[i], th.nextSeq + i - 1, branch)
  OBVIOUS
<1> HIDE DEF next, tail
<1>6. next.events = th.events \o tail /\ next.nextSeq = th.nextSeq + Len(batch)
  BY <1>4 DEF Threads
<1>7. /\ Len(th.events \o tail) = n + Len(batch)
      /\ \A k \in 1..n : (th.events \o tail)[k] = th.events[k]
      /\ \A k \in 1..Len(batch) : (th.events \o tail)[n + k] = tail[k]
  <2>1. /\ Len(th.events \o tail) = Len(th.events) + Len(tail)
        /\ \A k \in 1..Len(th.events) : (th.events \o tail)[k] = th.events[k]
        /\ \A k \in 1..Len(tail) : (th.events \o tail)[Len(th.events) + k] = tail[k]
    <3> DEFINE x == th.events
    <3>1. x \in Seq(Events) /\ tail \in Seq(Events)
      BY <1>1, <1>3
    <3> HIDE DEF x
    <3>2. /\ Len(x \o tail) = Len(x) + Len(tail)
          /\ \A k \in 1..Len(x) : (x \o tail)[k] = x[k]
          /\ \A k \in 1..Len(tail) : (x \o tail)[Len(x) + k] = tail[k]
      BY <3>1, JoinElements
    <3> QED
      BY <3>2 DEF x
  <2> QED
    BY <1>3, <2>1
<1>8. next \in Threads
  <2>1. th.nextSeq + Len(batch) \in Nat /\ th.events \o tail \in Seq(Events)
    BY <1>1, <1>3
  <2> QED
    BY <2>1, <1>4, Zenon DEF Threads
<1>9. \A i \in 1..Len(batch) : next.events[n + i] = Stamp(batch[i], th.nextSeq + i - 1, branch)
  BY <1>5, <1>6, <1>7
<1> QED
  BY <1>2, <1>6, <1>7, <1>8, <1>9, Zenon DEF next

(* One event appended to a thread that numbers on from its events. *)
LEMMA AppendOne ==
    ASSUME NEW th \in Threads, Known(th), NEW branch \in BranchIDs, NEW e \in NewEvents
    PROVE  LET next == AppendLocked(th, branch, << e >>) IN
           next \in Threads /\ Known(next) /\ Continues(next, th.events)
<1> DEFINE batch == << e >>
           next == AppendLocked(th, branch, batch)
           n == Len(th.events)
           new == Stamp(e, th.nextSeq, branch)
<1>1. batch \in Seq(NewEvents) /\ Len(batch) = 1 /\ batch[1] = e /\ 1 \in 1..Len(batch)
  OBVIOUS
<1>2. th.events \in Seq(Events) /\ n \in Nat /\ th.nextSeq \in Nat /\ th.nextSeq + 1 - 1 = th.nextSeq
  BY DEF Threads
<1>q. batch = << e >>
  OBVIOUS
<1> HIDE DEF batch
<1>3. /\ next \in Threads /\ next.nextSeq = th.nextSeq + Len(batch)
      /\ Len(next.events) = n + Len(batch)
      /\ \A i \in 1..n : next.events[i] = th.events[i]
      /\ \A i \in 1..Len(batch) : next.events[n + i] = Stamp(batch[i], th.nextSeq + i - 1, branch)
      /\ \A i \in 1..Len(batch) : /\ Stamp(batch[i], th.nextSeq + i - 1, branch) \in Events
                                  /\ next.events[n + i].seq = th.nextSeq + i - 1
  BY <1>1, AppendBatch, Zenon, SMTT(60)
<1> HIDE DEF next
<1>4. next.events[n + 1] = new /\ new \in Events /\ new.seq = th.nextSeq
  BY <1>1, <1>2, <1>3
<1> HIDE DEF new
<1>5. next.events \in Seq(Events) /\ Len(next.events) = n + 1 /\ next.nextSeq = th.nextSeq + 1
  BY <1>1, <1>3 DEF Threads
<1>6. next.events = Append(th.events, new)
  BY <1>2, <1>3, <1>4, <1>5
<1>7. \A i \in 1..n : th.events[i].seq < th.nextSeq
  <2>1. /\ MaxSeqOf(th.events) \in Nat /\ th.nextSeq = MaxSeqOf(th.events) + 1
        /\ \A i \in 1..n : th.events[i].seq <= MaxSeqOf(th.events)
    BY <1>2, MaxSeqIs DEF Known
  <2>2. \A i \in 1..n : th.events[i].seq \in Nat
    BY <1>2, LogNumbers
  <2> QED
    BY <2>1, <2>2
<1>8. MaxSeqOf(next.events) = th.nextSeq
  <2>1. n + 1 \in 1..Len(next.events) /\ next.events[n + 1].seq = th.nextSeq
    BY <1>2, <1>4, <1>5
  <2>2. \A j \in 1..Len(next.events) : next.events[j].seq <= next.events[n + 1].seq
    <3> TAKE j \in 1..Len(next.events)
    <3>1. CASE j = n + 1
      BY <1>2, <2>1, <3>1
    <3>2. CASE j \in 1..n
      <4>1. next.events[j] = th.events[j] /\ th.events[j].seq < th.nextSeq /\ th.events[j].seq \in Nat
        BY <1>2, <1>3, <1>7, <3>2, LogNumbers
      <4> QED
        BY <1>2, <2>1, <4>1
    <3> QED
      BY <1>2, <1>5, <3>1, <3>2
  <2> QED
    BY <1>5, <2>1, <2>2, MaxSeqUnique, Zenon, SMTT(60)
<1>9. Known(next) /\ Continues(next, th.events)
  BY <1>4, <1>5, <1>6, <1>7, <1>8 DEF Known, Continues, Below
<1>10. next = AppendLocked(th, branch, << e >>)
  BY <1>q DEF next
<1> QED
  BY <1>3, <1>9, <1>10

(* The thread Create makes. *)
LEMMA NewThreadKnown ==
    ASSUME NEW b \in BranchIDs
    PROVE  NewThread(b) \in Threads /\ Known(NewThread(b)) /\ Continues(NewThread(b), << >>)
<1> DEFINE e == Stamp(CoreEvent("thread.created"), 1, b)
           th == NewThread(b)
<1>1. e \in Events /\ e.seq = 1
  BY DEF Stamp, CoreEvent, Events, Kinds
<1>2. RootBranch \in Branches
  BY DEF RootBranch, Branches
<1>3. th.events = << e >> /\ th.nextSeq = 2
  BY DEF NewThread
<1>4. th \in Threads
  <2> HIDE DEF e
  <2>1. NewThread(b) = [branchID |-> b, branches |-> OnlyRoot(b), archived |-> FALSE, nextSeq |-> 2,
                        events |-> << e >>]
    BY DEF NewThread, e
  <2>2. OnlyRoot(b) \in [BranchIDs -> Branches \cup {NoBranch}]
    BY <1>2 DEF OnlyRoot
  <2>3. << e >> \in Seq(Events)
    BY <1>1
  <2> QED
    BY <2>1, <2>2, <2>3 DEF Threads
<1> HIDE DEF e, th
<1>5. << e >> \in Seq(Events) /\ Len(<< e >>) = 1 /\ << e >>[1] = e /\ << e >> = Append(<< >>, e)
  BY <1>1
<1>6. MaxSeqOf(<< e >>) = 1
  <2> DEFINE log == << e >>
  <2>1. log \in Seq(Events) /\ 1 \in 1..Len(log) /\ log[1].seq = 1
    BY <1>1, <1>5
  <2>2. \A j \in 1..Len(log) : log[j].seq <= log[1].seq
    BY <1>1, <1>5
  <2> HIDE DEF log
  <2>3. MaxSeqOf(log) = 1
    BY <2>1, <2>2, MaxSeqUnique
  <2> QED
    BY <2>3 DEF log
<1>7. Known(th) /\ Continues(th, << >>)
  BY <1>1, <1>3, <1>5, <1>6 DEF Known, Continues, Below
<1> QED
  BY <1>4, <1>7 DEF th

(* Fork and Archive add one event to a thread that numbers on. *)
LEMMA ForkKnown ==
    ASSUME NEW th \in Threads, Known(th), NEW from \in BranchIDs, NEW to \in BranchIDs
    PROVE  LET next == ForkThread(th, from, to) IN
           next \in Threads /\ Known(next) /\ Continues(next, th.events)
<1> DEFINE br == [parent |-> from, forkSeq |-> th.nextSeq - 1]
           mid == [th EXCEPT !.branches[to] = br]
           e == BranchCreatedEvent(from, th.nextSeq - 1)
<1>1. th.nextSeq - 1 \in Nat
  <2>1. th.events \in Seq(Events)
    BY DEF Threads
  <2> QED
    BY <2>1, MaxSeqIs DEF Known
<1>2. br \in Branches /\ e \in NewEvents
  BY <1>1, ThreadLogAssumption DEF Branches, NewEvents, BranchCreatedEvent, Kinds
<1>3. mid \in Threads /\ mid.events = th.events /\ mid.nextSeq = th.nextSeq
  <2> HIDE DEF br
  <2>1. [th.branches EXCEPT ![to] = br] \in [BranchIDs -> Branches \cup {NoBranch}]
    BY <1>2 DEF Threads
  <2>2. mid = [th EXCEPT !.branches = [th.branches EXCEPT ![to] = br]]
    BY DEF Threads
  <2> QED
    BY <2>1, <2>2 DEF Threads
<1>4. Known(mid)
  BY <1>3 DEF Known
<1>5. ForkThread(th, from, to) = AppendLocked(mid, to, << e >>)
  BY DEF ForkThread
<1> HIDE DEF mid, e
<1> QED
  BY <1>2, <1>3, <1>4, <1>5, AppendOne

(* An archived or unarchived thread has one event more. *)
LEMMA ArchiveKnown ==
    ASSUME NEW th \in Threads, Known(th), NEW archived \in BOOLEAN
    PROVE  LET next == ArchiveThread(th, archived) IN
           next \in Threads /\ Known(next) /\ Continues(next, th.events)
<1> DEFINE mid == [th EXCEPT !.archived = archived]
           e == CoreEvent(IF archived THEN "thread.archived" ELSE "thread.unarchived")
<1>1. e \in NewEvents
  BY ThreadLogAssumption DEF NewEvents, CoreEvent, Kinds
<1>2. mid \in Threads /\ mid.events = th.events /\ mid.nextSeq = th.nextSeq /\ th.branchID \in BranchIDs
  BY DEF Threads
<1>3. Known(mid)
  BY <1>2 DEF Known
<1>4. ArchiveThread(th, archived) = AppendLocked(mid, th.branchID, << e >>)
  BY DEF ArchiveThread
<1> HIDE DEF mid, e
<1> QED
  BY <1>1, <1>2, <1>3, <1>4, AppendOne

-----------------------------------------------------------------------------
(* One file and one handle *)

(* A line that is in the file or numbered above it may be added. *)
LEMMA AddLine ==
    ASSUME NEW file \in Seq(Events), NEW ack \in Seq(Events), Recorded(file, ack), NEW x \in Events,
           (\E j \in 1..Len(file) : file[j] = x) \/ Below(file, x.seq)
    PROVE  Recorded(Append(file, x), ack)
<1> DEFINE next == Append(file, x)
           n == Len(file)
<1>1. /\ n \in Nat /\ next \in Seq(Events) /\ Len(next) = n + 1 /\ next[n + 1] = x
      /\ \A i \in 1..n : next[i] = file[i]
  OBVIOUS
<1>2. \A i \in 1..n : file[i].seq \in Nat
  BY LogNumbers
<1>3. x.seq \in Nat
  BY DEF Events
<1> HIDE DEF next
<1>4. \A j \in 1..Len(next) : j \in 1..n \/ j = n + 1
  BY <1>1
<1>5. Rising(next)
  <2> SUFFICES ASSUME NEW j \in 1..Len(next)
               PROVE  \/ \E i \in 1..(j - 1) : next[i] = next[j]
                      \/ \A i \in 1..(j - 1) : next[i].seq < next[j].seq
    BY DEF Rising
  <2>1. CASE j \in 1..n
    <3>1. \A i \in 1..(j - 1) : next[i] = file[i]
      BY <1>1, <2>1
    <3>2. next[j] = file[j]
      BY <1>1, <2>1
    <3>3. \/ \E i \in 1..(j - 1) : file[i] = file[j]
          \/ \A i \in 1..(j - 1) : file[i].seq < file[j].seq
      BY <2>1 DEF Recorded, Rising
    <3> QED
      BY <3>1, <3>2, <3>3
  <2>2. CASE j = n + 1
    <3>1. j - 1 = n /\ next[j] = x
      BY <1>1, <2>2
    <3> QED
      BY <1>1, <3>1, SMTT(60), Zenon DEF Below
  <2> QED
    BY <1>4, <2>1, <2>2
<1>6. OneEach(next)
  <2> SUFFICES ASSUME NEW i \in 1..Len(next), NEW j \in 1..Len(next), next[i].seq = next[j].seq
               PROVE  next[i] = next[j]
    BY DEF OneEach
  <2>1. \A k \in 1..n : file[k].seq = x.seq => file[k] = x
    BY <1>2, <1>3, SMTT(60), Zenon DEF Below, Recorded, OneEach
  <2>2. CASE i \in 1..n /\ j \in 1..n
    BY <1>1, <2>2 DEF Recorded, OneEach
  <2>3. CASE i = n + 1 \/ j = n + 1
    BY <1>1, <1>4, <2>1, <2>3
  <2> QED
    BY <1>4, <2>2, <2>3
<1>7. Within(ack, next)
  <2> SUFFICES ASSUME NEW i \in 1..Len(ack)
               PROVE  \E j \in 1..Len(next) : next[j] = ack[i]
    BY DEF Within
  <2>1. PICK j \in 1..n : file[j] = ack[i]
    BY DEF Recorded, Within
  <2>2. j \in 1..Len(next) /\ next[j] = ack[i]
    BY <1>1, <2>1
  <2> QED
    BY <2>2
<1> QED
  BY <1>5, <1>6, <1>7 DEF Recorded, next

(* The events that Append has to write are those behind the saved part. *)
LEMMA UnsavedIs ==
    ASSUME NEW log \in Seq(Events), NEW n \in Nat, NEW s \in 0..Len(log),
           \A i \in 1..s : log[i].seq < n,
           \A i \in (s + 1)..Len(log) : log[i].seq >= n
    PROVE  /\ Unsaved(log, n) \in Seq(Events)
           /\ Len(Unsaved(log, n)) = Len(log) - s
           /\ \A i \in 1..(Len(log) - s) : Unsaved(log, n)[i] = log[s + i]
<1> DEFINE N == Len(log)
           is == {i \in DOMAIN log : log[i].seq >= n}
<1>1. N \in Nat /\ s \in Nat /\ s <= N /\ \A i \in 1..N : log[i] \in Events /\ log[i].seq \in Nat
  BY LogNumbers
<1>2. \A i \in 1..N : i \in is <=> i > s
  <2> TAKE i \in 1..N
  <2>1. CASE i <= s
    BY <1>1, <2>1
  <2>2. CASE i > s
    BY <1>1, <2>2
  <2> QED
    BY <1>1, <2>1, <2>2
<1> HIDE DEF is
<1>3. PICK f : /\ Picks(f, log, is, N) /\ Picked(log, is) = f[N]
               /\ \A k \in 0..N : f[k] \in Seq(Events)
  BY PickedByLoop
<1> DEFINE Right(k) == IF k <= s THEN f[k] = << >>
                       ELSE Len(f[k]) = k - s /\ \A i \in 1..(k - s) : f[k][i] = log[s + i]
           T == {k \in 0..N : Right(k)}
<1>4. 0 \in T
  <2>1. 0 \in 0..N /\ 0 <= s
    BY <1>1
  <2>2. f[0] = << >>
    BY <1>3, <2>1 DEF Picks
  <2> QED
    BY <2>1, <2>2
<1>5. ASSUME NEW k \in 1..N, k - 1 \in T
      PROVE  k \in T
  <2>1. k \in 0..N /\ k - 1 \in 0..N /\ k # 0
    BY <1>1
  <2>2. f[k] = IF k > s THEN Append(f[k - 1], log[k]) ELSE f[k - 1]
    BY <1>2, <1>3, <2>1 DEF Picks
  <2>3. Right(k - 1) /\ f[k - 1] \in Seq(Events)
    BY <1>3, <1>5, <2>1
  <2>4. CASE k <= s
    BY <1>1, <2>1, <2>2, <2>3, <2>4
  <2>5. CASE k > s
    <3>1. Len(f[k - 1]) = (k - 1) - s /\ \A i \in 1..((k - 1) - s) : f[k - 1][i] = log[s + i]
      <4>1. CASE k - 1 <= s
        BY <1>1, <2>3, <2>5, <4>1
      <4>2. CASE ~(k - 1 <= s)
        BY <2>3, <4>2
      <4> QED
        BY <4>1, <4>2
    <3>2. f[k] = Append(f[k - 1], log[k]) /\ log[k] \in Events
      BY <1>1, <2>2, <2>5
    <3> DEFINE g == f[k - 1]
               e == log[k]
    <3>3. /\ Len(Append(g, e)) = Len(g) + 1 /\ Append(g, e)[Len(g) + 1] = e
          /\ \A i \in 1..Len(g) : Append(g, e)[i] = g[i]
      BY <2>3, <3>2
    <3>4. Len(f[k]) = k - s
      BY <1>1, <3>1, <3>2, <3>3
    <3>5. ASSUME NEW i \in 1..(k - s)
          PROVE  f[k][i] = log[s + i]
      <4>1. CASE i = k - s
        BY <1>1, <3>1, <3>2, <3>3, <4>1
      <4>2. CASE i # k - s
        <5>1. i \in 1..((k - 1) - s) /\ i \in 1..Len(g)
          BY <1>1, <3>1, <4>2
        <5> QED
          BY <3>1, <3>2, <3>3, <5>1, SMTT(60), Zenon
      <4> QED
        BY <4>1, <4>2
    <3> QED
      BY <1>1, <2>1, <2>5, <3>4, <3>5
  <2> QED
    BY <1>1, <2>4, <2>5
<1>6. N \in T
  <2> HIDE DEF T
  <2>1. \A k \in 0..N : k \in T
    BY <1>1, <1>4, <1>5, BoundedInduction, Zenon
  <2> QED
    BY <1>1, <2>1
<1>7. Right(N) /\ f[N] \in Seq(Events)
  BY <1>1, <1>3, <1>6
<1>8. Len(f[N]) = N - s /\ \A i \in 1..(N - s) : f[N][i] = log[s + i]
  <2>1. CASE N <= s
    BY <1>1, <1>7, <2>1
  <2>2. CASE ~(N <= s)
    BY <1>7, <2>2
  <2> QED
    BY <2>1, <2>2
<1>9. Unsaved(log, n) = f[N]
  BY <1>3 DEF Unsaved, is
<1> QED
  BY <1>7, <1>8, <1>9

(* The numbers of a handle's memory: those up to m are below the next. *)
LEMMA MemoryNumbers ==
    ASSUME NEW live \in Lives, NEW file, NEW ack, NEW s \in 0..Len(live.mem.events),
           NEW m \in 0..Len(live.mem.events), Saved(live, file, ack, s, m)
    PROVE  /\ live.mem.events \in Seq(Events) /\ live.nextSeq \in Nat
           /\ \A k \in s..Len(live.mem.events) : \A i \in 1..k :
                live.mem.events[i].seq < live.nextSeq + (k - s)
<1> DEFINE log == live.mem.events
           N == Len(log)
<1>1. live.mem \in Threads /\ live.nextSeq \in Nat
  BY DEF Lives
<1>2. log \in Seq(Events) /\ N \in Nat
  BY <1>1 DEF Threads
<1>3. \A i \in 1..N : log[i].seq \in Nat
  BY <1>2, LogNumbers
<1>4. /\ \A i \in 1..s : log[i].seq < live.nextSeq
      /\ \A i \in (s + 1)..N : log[i].seq = live.nextSeq + (i - s) - 1
  BY DEF Saved
<1>5. ASSUME NEW k \in s..N, NEW i \in 1..k
      PROVE  log[i].seq < live.nextSeq + (k - s)
  <2>1. s \in Nat /\ k \in Nat /\ i \in Nat /\ s <= k /\ k <= N /\ i <= k /\ log[i].seq \in Nat
    BY <1>2, <1>3
  <2>2. CASE i <= s
    <3>1. log[i].seq < live.nextSeq
      BY <1>4, <2>1, <2>2
    <3> QED
      BY <1>1, <2>1, <3>1, SMTT(60), Zenon
  <2>3. CASE i > s
    <3>1. log[i].seq = live.nextSeq + (i - s) - 1
      BY <1>2, <1>4, <2>1, <2>3
    <3> QED
      BY <1>1, <2>1, <3>1, SMTT(60), Zenon
  <2> QED
    BY <2>1, <2>2, <2>3
<1> QED
  BY <1>1, <1>2, <1>5

(* Behind the last line nothing is left. *)
LEMMA LastTaken ==
    ASSUME NEW p \in Seq(Events), Len(p) = 1
    PROVE  Tail(p) = << >>
<1> DEFINE q == Tail(p)
<1>1. q \in Seq(Events) /\ Len(q) = 0
  OBVIOUS
<1> HIDE DEF q
<1>2. q = << >>
  BY <1>1
<1> QED
  BY <1>2 DEF q

(* A handle with something else to write. *)
LEMMA WithPending ==
    ASSUME NEW live \in Lives, NEW p \in Seq(Events)
    PROVE  LET next == [live EXCEPT !.pending = p] IN
           /\ next \in Lives /\ next.thread = live.thread /\ next.mem = live.mem
           /\ next.nextSeq = live.nextSeq /\ next.pending = p
BY DEF Lives

(* A handle whose call has ended. *)
LEMMA WithNumber ==
    ASSUME NEW live \in Lives, NEW n \in Nat
    PROVE  LET next == [live EXCEPT !.pending = << >>, !.nextSeq = n] IN
           /\ next \in Lives /\ next.thread = live.thread /\ next.mem = live.mem
           /\ next.nextSeq = n /\ next.pending = << >>
<1>1. << >> \in Seq(Events)
  OBVIOUS
<1> QED
  BY <1>1, Zenon DEF Lives

(* Writing the line after the first k brings the file to the first k + 1 at  *)
(* least; the handle itself is as after a failed call.                       *)
LEMMA LineWritten ==
    ASSUME NEW live \in Lives, NEW file \in Seq(Events), NEW ack \in Seq(Events), Recorded(file, ack),
           NEW s \in 0..Len(live.mem.events), NEW m \in 0..Len(live.mem.events),
           Saved(live, file, ack, s, m), NEW k \in s..m, k < Len(live.mem.events)
    PROVE  LET next == Append(file, live.mem.events[k + 1]) IN
           /\ next \in Seq(Events) /\ Recorded(next, ack)
           /\ \E w \in 0..Len(live.mem.events) :
                k + 1 <= w /\ Saved([live EXCEPT !.pending = << >>], next, ack, s, w)
<1> DEFINE log == live.mem.events
           N == Len(log)
           x == log[k + 1]
           next == Append(file, x)
           idle == [live EXCEPT !.pending = << >>]
           n == live.nextSeq
<1>1. /\ log \in Seq(Events) /\ n \in Nat
      /\ \A j \in s..N : \A i \in 1..j : log[i].seq < n + (j - s)
  BY MemoryNumbers, Zenon
<1>2. N \in Nat /\ s \in Nat /\ m \in Nat /\ k \in Nat /\ s <= k /\ k <= m /\ m <= N /\ k + 1 <= N
  BY <1>1
<1>3. /\ s <= m
      /\ \A i \in 1..s : log[i].seq < n
      /\ \A i \in (s + 1)..N : log[i].seq = n + (i - s) - 1
      /\ live.mem.nextSeq = n + (N - s)
      /\ \A i \in 1..m : \E j \in 1..Len(file) : file[j] = log[i]
      /\ \A j \in 1..Len(file) : \E i \in 1..m : file[j] = log[i]
      /\ Below(ack, n)
  BY DEF Saved
<1>4. x \in Events /\ x.seq = n + (k - s)
  <2>1. k + 1 \in 1..N /\ k + 1 \in (s + 1)..N /\ n + ((k + 1) - s) - 1 = n + (k - s)
    BY <1>1, <1>2, SMTT(60), Zenon
  <2> QED
    BY <1>1, <1>3, <2>1, SMTT(60), Zenon
<1>5. idle.mem = live.mem /\ idle.nextSeq = n /\ idle.pending = << >>
  BY WithPending
<1>6. /\ next \in Seq(Events) /\ Len(next) = Len(file) + 1 /\ next[Len(file) + 1] = x
      /\ \A i \in 1..Len(file) : next[i] = file[i]
      /\ Len(file) \in Nat
  BY <1>4
<1> DEFINE w == IF k < m THEN m ELSE m + 1
<1>7. w \in 0..N /\ k + 1 <= w /\ m <= w /\ s <= w /\ w \in Nat /\ (k = m => w = k + 1) /\ (k < m => w = m)
  BY <1>2
<1> HIDE DEF next, idle, x, w, n
<1>8. (\E j \in 1..Len(file) : file[j] = x) \/ Below(file, x.seq)
  <2>1. CASE k < m
    <3>1. k + 1 \in 1..m
      BY <1>2, <2>1
    <3> QED
      BY <1>3, <3>1, Zenon DEF x
  <2>2. CASE k = m
    <3>1. ASSUME NEW j \in 1..Len(file)
          PROVE  file[j].seq < x.seq
      <4>1. PICK i \in 1..m : file[j] = log[i]
        BY <1>3
      <4>2. m \in s..N
        BY <1>2
      <4>3. log[i].seq < n + (m - s)
        BY <1>1, <4>2
      <4> QED
        BY <1>4, <2>2, <4>1, <4>3
    <3> QED
      BY <3>1 DEF Below
  <2> QED
    BY <1>2, <2>1, <2>2
<1>9. Recorded(next, ack)
  BY <1>4, <1>8, AddLine DEF next
<1>10. ASSUME NEW i \in 1..w
       PROVE  \E j \in 1..Len(next) : next[j] = log[i]
  <2>1. CASE i \in 1..m
    <3>1. PICK j \in 1..Len(file) : file[j] = log[i]
      BY <1>3, <2>1
    <3>2. j \in 1..Len(next) /\ next[j] = log[i]
      BY <1>6, <3>1
    <3> QED
      BY <3>2
  <2>2. CASE i \notin 1..m
    <3>1. i = k + 1
      BY <1>2, <1>7, <2>2
    <3>2. Len(file) + 1 \in 1..Len(next) /\ next[Len(file) + 1] = log[i]
      BY <1>6, <3>1 DEF x
    <3> QED
      BY <3>2
  <2> QED
    BY <2>1, <2>2
<1>11. ASSUME NEW j \in 1..Len(next)
       PROVE  \E i \in 1..w : next[j] = log[i]
  <2>1. CASE j \in 1..Len(file)
    <3>1. PICK i \in 1..m : file[j] = log[i]
      BY <1>3, <2>1
    <3>2. i \in 1..w /\ next[j] = log[i]
      BY <1>2, <1>6, <1>7, <2>1, <3>1, SMTT(60), Zenon
    <3> QED
      BY <3>2
  <2>2. CASE j = Len(file) + 1
    <3>1. k + 1 \in 1..w /\ next[j] = log[k + 1]
      BY <1>2, <1>6, <1>7, <2>2 DEF x
    <3> QED
      BY <3>1
  <2> QED
    BY <1>6, <2>1, <2>2
<1>12. Saved(idle, next, ack, s, w)
  BY <1>3, <1>5, <1>7, <1>10, <1>11 DEF Saved, n
<1> QED
  BY <1>6, <1>7, <1>9, <1>12 DEF next, idle, x

(* A handle with a call under way, with a new pending part behind k. *)
LEMMA StillPending ==
    ASSUME NEW live \in Lives, NEW file, NEW ack, NEW s \in 0..Len(live.mem.events),
           NEW w \in 0..Len(live.mem.events), Saved([live EXCEPT !.pending = << >>], file, ack, s, w),
           NEW pending \in Seq(Events), NEW k \in s..w,
           Len(pending) = Len(live.mem.events) - k,
           \A i \in 1..(Len(live.mem.events) - k) : pending[i] = live.mem.events[k + i]
    PROVE  Saved([live EXCEPT !.pending = pending], file, ack, s, w)
<1> DEFINE idle == [live EXCEPT !.pending = << >>]
           busy == [live EXCEPT !.pending = pending]
<1>1. /\ idle.mem = live.mem /\ idle.nextSeq = live.nextSeq
      /\ busy.mem = live.mem /\ busy.nextSeq = live.nextSeq /\ busy.pending = pending
  BY DEF Lives
<1> HIDE DEF idle, busy
<1>2. Saved(idle, file, ack, s, w)
  BY DEF idle
<1>3. Saved(busy, file, ack, s, w)
  BY <1>1, <1>2 DEF Saved
<1> QED
  BY <1>3 DEF busy

(* A handle just opened on a thread tracks its file. *)
LEMMA OpenedTracks ==
    ASSUME NEW file \in Seq(Events), NEW ack \in Seq(Events), Recorded(file, ack),
           NEW th \in Threads, Known(th), th.events = file,
           NEW target, target.thread \in ThreadIDs, target.branch \in BranchIDs
    PROVE  LiveOf(target, th) \in Lives /\ Tracks(LiveOf(target, th), file, ack)
<1> DEFINE live == LiveOf(target, th)
           N == Len(file)
           n == MaxSeqOf(file) + 1
<1>1. /\ n \in Nat /\ N \in Nat /\ MaxSeqOf(file) \in Nat
      /\ \A i \in 1..N : file[i].seq <= MaxSeqOf(file) /\ file[i].seq \in Nat
  BY MaxSeqIs, LogNumbers, SMTT(60), Zenon
<1>2. live = [thread |-> target.thread, branch |-> target.branch, nextSeq |-> n, mem |-> th, pending |-> << >>]
  BY DEF LiveOf, NextSeq
<1>3. live \in Lives
  BY <1>1, <1>2 DEF Lives
<1>4. live.mem = th /\ live.nextSeq = n /\ live.pending = << >> /\ th.nextSeq = n
  BY <1>2 DEF Known
<1>5. \A i \in 1..N : file[i].seq < n
  BY <1>1
<1>6. Below(ack, n)
  BY <1>5 DEF Below, Recorded, Within
<1> HIDE DEF live, n
<1>7. Saved(live, file, ack, N, N)
  BY <1>1, <1>4, <1>5, <1>6, SMTT(60), Zenon DEF Saved
<1>8. Tracks(live, file, ack)
  BY <1>1, <1>4, <1>7 DEF Tracks
<1> QED
  BY <1>3, <1>8 DEF live

(* Append up to the file: the batch goes behind what was left over. *)
LEMMA BatchTaken ==
    ASSUME NEW live \in Lives, NEW file \in Seq(Events), NEW ack \in Seq(Events),
           Tracks(live, file, ack), NEW batch \in Seq(NewEvents)
    PROVE  LET mem == AppendLocked(live.mem, live.branch, batch)
               next == [live EXCEPT !.mem = mem, !.pending = Unsaved(mem.events, live.nextSeq)]
           IN  next \in Lives /\ Tracks(next, file, ack)
<1> DEFINE old == live.mem.events
           M == Len(old)
           mem == AppendLocked(live.mem, live.branch, batch)
           log == mem.events
           N == Len(log)
           n == live.nextSeq
           pending == Unsaved(log, n)
           next == [live EXCEPT !.mem = mem, !.pending = pending]
<1>1. PICK s \in 0..M, m \in 0..M : Saved(live, file, ack, s, m)
  BY DEF Tracks
<1>2. live.mem \in Threads /\ n \in Nat /\ live.branch \in BranchIDs /\ Len(batch) \in Nat
  BY DEF Lives
<1>3. old \in Seq(Events) /\ M \in Nat /\ live.mem.nextSeq \in Nat /\ s \in Nat /\ m \in Nat /\ s <= M /\ m <= M
  BY <1>2 DEF Threads
<1>4. /\ mem \in Threads
      /\ mem.nextSeq = live.mem.nextSeq + Len(batch)
      /\ N = M + Len(batch)
      /\ \A i \in 1..M : log[i] = old[i]
      /\ \A i \in 1..Len(batch) : log[M + i].seq = live.mem.nextSeq + i - 1
  BY <1>2, AppendBatch, Zenon
<1>5. /\ s <= m
      /\ \A i \in 1..s : old[i].seq < n
      /\ \A i \in (s + 1)..M : old[i].seq = n + (i - s) - 1
      /\ live.mem.nextSeq = n + (M - s)
      /\ \A i \in 1..m : \E j \in 1..Len(file) : file[j] = old[i]
      /\ \A j \in 1..Len(file) : \E i \in 1..m : file[j] = old[i]
      /\ Below(ack, n)
  BY <1>1 DEF Saved
<1> HIDE DEF mem
<1>6. log \in Seq(Events) /\ N \in Nat /\ M <= N
  BY <1>2, <1>3, <1>4 DEF Threads
<1>7. \A i \in 1..s : log[i].seq < n
  <2>1. \A i \in 1..s : i \in 1..M
    BY <1>3
  <2> QED
    BY <1>4, <1>5, <2>1, Zenon
<1>8. ASSUME NEW i \in (s + 1)..N
      PROVE  log[i].seq = n + (i - s) - 1
  <2>1. CASE i <= M
    <3>1. i \in 1..M /\ i \in (s + 1)..M
      BY <1>3, <2>1
    <3> QED
      BY <1>4, <1>5, <3>1, Zenon
  <2>2. CASE i > M
    <3>1. i - M \in 1..Len(batch) /\ M + (i - M) = i
      BY <1>2, <1>3, <1>4, <2>2
    <3>2. log[M + (i - M)].seq = live.mem.nextSeq + (i - M) - 1
      BY <1>4, <3>1, Zenon
    <3>3. live.mem.nextSeq + (i - M) - 1 = n + (i - s) - 1
      BY <1>2, <1>3, <1>5, SMTT(60), Zenon
    <3> QED
      BY <3>1, <3>2, <3>3, Zenon
  <2> QED
    BY <1>3, <2>1, <2>2
<1>9. \A i \in (s + 1)..N : log[i].seq >= n
  BY <1>2, <1>3, <1>6, <1>8
<1>10. /\ pending \in Seq(Events)
       /\ Len(pending) = N - s
       /\ \A i \in 1..(N - s) : pending[i] = log[s + i]
  <2>1. s \in 0..N
    BY <1>3, <1>6
  <2> QED
    BY <1>2, <1>6, <1>7, <1>9, <2>1, UnsavedIs, Zenon
<1> HIDE DEF pending
<1>11. next \in Lives /\ next.mem = mem /\ next.nextSeq = n /\ next.pending = pending
  BY <1>4, <1>10, Zenon DEF Lives
<1> HIDE DEF next
<1>12. mem.nextSeq = n + (N - s)
  BY <1>2, <1>3, <1>4, <1>5, SMTT(60), Zenon
<1>13. /\ \A i \in 1..m : \E j \in 1..Len(file) : file[j] = log[i]
       /\ \A j \in 1..Len(file) : \E i \in 1..m : file[j] = log[i]
  <2>1. \A i \in 1..m : i \in 1..M
    BY <1>3
  <2>2. \A i \in 1..m : log[i] = old[i]
    BY <1>4, <2>1, Zenon
  <2>3. ASSUME NEW i \in 1..m
        PROVE  \E j \in 1..Len(file) : file[j] = log[i]
    <3>1. PICK j \in 1..Len(file) : file[j] = old[i]
      BY <1>5, Zenon
    <3> QED
      BY <2>2, <3>1, Zenon
  <2>4. ASSUME NEW j \in 1..Len(file)
        PROVE  \E i \in 1..m : file[j] = log[i]
    <3>1. PICK i \in 1..m : file[j] = old[i]
      BY <1>5, Zenon
    <3> QED
      BY <2>2, <3>1, Zenon
  <2> QED
    BY <2>3, <2>4, Zenon
<1>14. s \in s..m /\ s \in 0..N /\ m \in 0..N
  BY <1>3, <1>5, <1>6, SMTT(60), Zenon
<1>15. Saved(next, file, ack, s, m)
  BY <1>5, <1>7, <1>8, <1>10, <1>11, <1>12, <1>13, <1>14, Zenon DEF Saved
<1>16. Tracks(next, file, ack)
  BY <1>11, <1>14, <1>15 DEF Tracks
<1> QED
  BY <1>11, <1>16 DEF next, pending, mem

(* A line that is not the last one of its call. *)
LEMMA LineTracks ==
    ASSUME NEW live \in Lives, NEW file \in Seq(Events), NEW ack \in Seq(Events), Recorded(file, ack),
           Tracks(live, file, ack), live.pending # << >>
    PROVE  LET next == Append(file, Head(live.pending)) IN
           /\ next \in Seq(Events) /\ Recorded(next, ack)
           /\ [live EXCEPT !.pending = Tail(@)] \in Lives
           /\ Tracks([live EXCEPT !.pending = Tail(@)], next, ack)
           /\ [live EXCEPT !.pending = << >>] \in Lives
           /\ Tracks([live EXCEPT !.pending = << >>], next, ack)
<1> DEFINE log == live.mem.events
           N == Len(log)
           P == live.pending
           next == Append(file, Head(P))
           idle == [live EXCEPT !.pending = << >>]
<1>1. PICK s \in 0..N, m \in 0..N : Saved(live, file, ack, s, m)
  BY DEF Tracks
<1>2. PICK k \in s..m : Len(P) = N - k /\ \A i \in 1..(N - k) : P[i] = log[k + i]
  BY <1>1 DEF Saved
<1>3. P \in Seq(Events) /\ log \in Seq(Events) /\ N \in Nat
  BY DEF Lives, Threads
<1>4. s \in Nat /\ m \in Nat /\ k \in Nat /\ s <= k /\ k <= m /\ m <= N
  BY <1>3
<1>5. k < N /\ Head(P) = log[k + 1] /\ Tail(P) \in Seq(Events) /\ Len(Tail(P)) = N - (k + 1)
  BY <1>2, <1>3, <1>4
<1>6. ASSUME NEW i \in 1..(N - (k + 1))
      PROVE  Tail(P)[i] = log[(k + 1) + i]
  <2>0. i \in 1..Len(Tail(P))
    BY <1>5, Zenon
  <2>1. i + 1 \in 1..(N - k) /\ k + (i + 1) = (k + 1) + i /\ i \in 1..Len(Tail(P))
    <3> HIDE DEF N, P
    <3> QED
      BY <1>3, <1>4, <2>0, SMTT(60), Zenon
  <2>2. Tail(P)[i] = P[i + 1]
    BY <1>3, <2>1
  <2> QED
    BY <1>2, <2>1, <2>2
<1>7. /\ next \in Seq(Events) /\ Recorded(next, ack)
      /\ \E w \in 0..N : k + 1 <= w /\ Saved(idle, next, ack, s, w)
  BY <1>1, <1>5, LineWritten, Zenon
<1> HIDE DEF next
<1>8. PICK w \in 0..N : k + 1 <= w /\ Saved(idle, next, ack, s, w)
  BY <1>7
<1>9. k + 1 \in s..w
  BY <1>4, <1>8
<1> DEFINE busy == [live EXCEPT !.pending = Tail(P)]
<1>10. Saved(busy, next, ack, s, w)
  BY <1>5, <1>6, <1>8, <1>9, StillPending, Zenon
<1>11. /\ idle \in Lives /\ idle.mem = live.mem
       /\ busy \in Lives /\ busy.mem = live.mem
  <2>1. << >> \in Seq(Events)
    OBVIOUS
  <2> QED
    BY <1>5, <2>1, WithPending, Zenon
<1> HIDE DEF idle, busy
<1>12. Tracks(idle, next, ack) /\ Tracks(busy, next, ack)
  BY <1>8, <1>10, <1>11 DEF Tracks
<1> QED
  BY <1>7, <1>11, <1>12 DEF idle, busy, next

(* The last line of a call: all of the memory is saved and acknowledged. *)
LEMMA LineAcked ==
    ASSUME NEW live \in Lives, NEW file \in Seq(Events), NEW ack \in Seq(Events), Recorded(file, ack),
           Tracks(live, file, ack), Len(live.pending) = 1
    PROVE  LET next == Append(file, Head(live.pending))
               told == ack \o Unsaved(live.mem.events, live.nextSeq)
               done == [live EXCEPT !.pending = << >>, !.nextSeq = NextSeq(live.mem.events)]
           IN  /\ next \in Seq(Events) /\ told \in Seq(Events) /\ done \in Lives
               /\ Recorded(next, told) /\ Tracks(done, next, told)
<1> DEFINE log == live.mem.events
           N == Len(log)
           P == live.pending
           n == live.nextSeq
           next == Append(file, Head(P))
           idle == [live EXCEPT !.pending = << >>]
           new == Unsaved(log, n)
           told == ack \o new
           done == [live EXCEPT !.pending = << >>, !.nextSeq = NextSeq(log)]
<1>1. PICK s \in 0..N, m \in 0..N : Saved(live, file, ack, s, m)
  BY DEF Tracks
<1>2. P \in Seq(Events) /\ log \in Seq(Events) /\ N \in Nat /\ n \in Nat /\ P # << >>
  <2>1. P \in Seq(Events) /\ live.mem \in Threads /\ n \in Nat
    BY DEF Lives
  <2>2. log \in Seq(Events)
    BY <2>1 DEF Threads
  <2>3. N \in Nat
    BY <2>2
  <2>4. Len(P) = 1
    OBVIOUS
  <2>5. P # << >>
    <3>1. Len(<< >>) = 0
      OBVIOUS
    <3> SUFFICES ASSUME P = << >>
                 PROVE  FALSE
      OBVIOUS
    <3>2. Len(P) = Len(<< >>)
      BY Zenon
    <3> HIDE DEF P
    <3> QED
      BY <2>4, <3>1, <3>2
  <2> QED
    BY <2>1, <2>2, <2>3, <2>5
<1>3. PICK k \in s..m : Len(P) = N - k /\ \A i \in 1..(N - k) : P[i] = log[k + i]
  BY <1>1, <1>2 DEF Saved
<1>4. s \in Nat /\ m \in Nat /\ k \in Nat /\ s <= k /\ k <= m /\ m <= N /\ k + 1 = N /\ k < N
  <2>1. s \in Nat /\ m \in Nat /\ k \in Nat /\ s <= k /\ k <= m /\ m <= N
    BY <1>2
  <2>2. N - k = 1
    BY <1>3, Zenon
  <2> QED
    BY <1>2, <2>1, <2>2
<1>5. Head(P) = log[k + 1]
  BY <1>2, <1>3, <1>4
<1>6. /\ next \in Seq(Events) /\ Recorded(next, ack)
      /\ \E w \in 0..N : k + 1 <= w /\ Saved(idle, next, ack, s, w)
  BY <1>1, <1>4, <1>5, LineWritten
<1> HIDE DEF next
<1>7. Saved(idle, next, ack, s, N)
  BY <1>2, <1>4, <1>6
<1>8. idle.mem = live.mem /\ idle.nextSeq = n
  BY WithPending
<1> HIDE DEF idle
<1>9. /\ \A i \in 1..s : log[i].seq < n
      /\ \A i \in (s + 1)..N : log[i].seq = n + (i - s) - 1
      /\ live.mem.nextSeq = n + (N - s)
      /\ \A i \in 1..N : \E j \in 1..Len(next) : next[j] = log[i]
      /\ \A j \in 1..Len(next) : \E i \in 1..N : next[j] = log[i]
      /\ Below(ack, n)
  <2>1. /\ \A i \in 1..s : idle.mem.events[i].seq < idle.nextSeq
        /\ \A i \in (s + 1)..Len(idle.mem.events) : idle.mem.events[i].seq = idle.nextSeq + (i - s) - 1
        /\ idle.mem.nextSeq = idle.nextSeq + (Len(idle.mem.events) - s)
        /\ \A i \in 1..N : \E j \in 1..Len(next) : next[j] = idle.mem.events[i]
        /\ \A j \in 1..Len(next) : \E i \in 1..N : next[j] = idle.mem.events[i]
        /\ Below(ack, idle.nextSeq)
    BY <1>7, Zenon DEF Saved
  <2>2. idle.mem = live.mem /\ idle.mem.events = log /\ Len(idle.mem.events) = N /\ idle.nextSeq = n
    BY <1>8, Zenon
  <2> HIDE DEF log, N, n
  <2>3. live.mem.nextSeq = n + (N - s) /\ Below(ack, n)
    BY <2>1, <2>2, Zenon
  <2>4. \A i \in 1..s : log[i].seq < n
    BY <2>1, <2>2, Zenon
  <2>5. \A i \in (s + 1)..N : log[i].seq = n + (i - s) - 1
    BY <2>1, <2>2, Zenon
  <2>6. \A i \in 1..N : \E j \in 1..Len(next) : next[j] = log[i]
    BY <2>1, <2>2, Zenon
  <2>7. \A j \in 1..Len(next) : \E i \in 1..N : next[j] = log[i]
    BY <2>1, <2>2, Zenon
  <2> QED
    BY <2>3, <2>4, <2>5, <2>6, <2>7, Zenon
<1>10. /\ new \in Seq(Events) /\ Len(new) = N - s
       /\ \A i \in 1..(N - s) : new[i] = log[s + i]
  <2>1. ASSUME NEW i \in (s + 1)..N
        PROVE  log[i].seq >= n
    <3> DEFINE x == log[i].seq
    <3>1. x = n + (i - s) - 1
      BY <1>9, Zenon
    <3>2. n \in Nat /\ N \in Nat /\ s \in Nat
      BY <1>2, <1>4, Zenon
    <3> HIDE DEF x, n, N
    <3>3. x >= n
      BY <3>1, <3>2, SMTT(60), Zenon
    <3> QED
      BY <3>3, Zenon DEF x
  <2> QED
    BY <1>2, <1>9, <2>1, UnsavedIs, Zenon
<1> HIDE DEF new
<1>11. \A i \in 1..N : log[i].seq < n + (N - s)
  <2>1. \A j \in s..N : \A i \in 1..j : log[i].seq < n + (j - s)
    BY <1>1, MemoryNumbers, Zenon
  <2>2. N \in s..N
    <3> HIDE DEF log, N, P, n
    <3> QED
      BY <1>2, <1>4
  <2> QED
    BY <2>1, <2>2, Zenon
<1>12. NextSeq(log) = n + (N - s)
  <2>0. N \in 1..N /\ N \in (s + 1)..N
    BY <1>2, <1>4
  <2>1. log[N].seq = n + (N - s) - 1
    BY <1>9, <2>0, Zenon
  <2>2. \A i \in 1..N : log[i].seq \in Nat
    BY <1>2, LogNumbers
  <2>3. \A i \in 1..N : log[i].seq <= log[N].seq
    <3> TAKE i \in 1..N
    <3>1. log[i].seq \in Nat /\ log[i].seq < n + (N - s)
      BY <1>11, <2>2
    <3>2. n \in Nat /\ N - s \in Nat
      BY <1>2, <1>4
    <3> HIDE DEF log, N, n
    <3> QED
      BY <2>1, <3>1, <3>2
  <2>4. MaxSeqOf(log) = log[N].seq
    BY <1>2, <2>0, <2>3, MaxSeqUnique, Zenon
  <2>5. n \in Nat /\ N - s \in Nat
    BY <1>2, <1>4
  <2> HIDE DEF log, N, n
  <2> QED
    BY <2>1, <2>4, <2>5 DEF NextSeq
<1>13. done \in Lives /\ done.mem = live.mem /\ done.nextSeq = n + (N - s) /\ done.pending = << >>
  <2>1. n + (N - s) \in Nat
    <3> HIDE DEF log, N, P, n
    <3> QED
      BY <1>2, <1>4
  <2>2. NextSeq(log) \in Nat
    BY <1>12, <2>1, Zenon
  <2>3. done \in Lives /\ done.mem = live.mem /\ done.nextSeq = NextSeq(log) /\ done.pending = << >>
    BY <2>2, WithNumber, Zenon
  <2> QED
    BY <1>12, <2>3, Zenon
<1> HIDE DEF done
<1>14. /\ told \in Seq(Events) /\ Len(told) = Len(ack) + (N - s) /\ Len(ack) \in Nat
       /\ \A i \in 1..Len(ack) : told[i] = ack[i]
       /\ \A i \in 1..(N - s) : told[Len(ack) + i] = log[s + i]
  <2>1. /\ told \in Seq(Events) /\ Len(told) = Len(ack) + Len(new)
        /\ \A i \in 1..Len(ack) : told[i] = ack[i]
        /\ \A i \in 1..Len(new) : told[Len(ack) + i] = new[i]
    <3>1. new \in Seq(Events)
      BY <1>10
    <3>2. told \in Seq(Events)
      BY <3>1
    <3> QED
      BY <3>1, <3>2, JoinElements
  <2> HIDE DEF told
  <2>2. Len(told) = Len(ack) + (N - s) /\ Len(ack) \in Nat
    BY <1>10, <2>1
  <2>3. \A i \in 1..(N - s) : told[Len(ack) + i] = log[s + i]
    <3> TAKE i \in 1..(N - s)
    <3>1. i \in 1..Len(new) /\ new[i] = log[s + i]
      BY <1>10
    <3>2. told[Len(ack) + i] = new[i]
      BY <2>1, <3>1, SMTT(60), Zenon
    <3> QED
      BY <3>1, <3>2
  <2> QED
    BY <2>1, <2>2, <2>3, Zenon
<1> DEFINE A == Len(ack)
<1> HIDE DEF told
<1>15. ASSUME NEW i \in 1..Len(told)
       PROVE  \/ i \in 1..Len(ack) /\ told[i] = ack[i] /\ told[i].seq < n
              \/ /\ i - Len(ack) \in 1..(N - s) /\ s + (i - Len(ack)) \in 1..N
                 /\ told[i] = log[s + (i - Len(ack))]
                 /\ told[i].seq = n + (i - Len(ack)) - 1
  <2>1. CASE i <= Len(ack)
    <3>1. i \in 1..Len(ack)
      BY <2>1
    <3>2. told[i] = ack[i] /\ ack[i].seq < n
      BY <1>9, <1>14, <3>1, SMTT(60), Zenon DEF Below
    <3> QED
      BY <3>1, <3>2
  <2>2. CASE i > Len(ack)
    <3> DEFINE j == i - Len(ack)
    <3>1. j \in 1..(N - s) /\ Len(ack) + j = i /\ s + j \in (s + 1)..N /\ s + j \in 1..N
          /\ (s + j) - s = j
      <4> DEFINE L == Len(told)
      <4>1. A \in Nat /\ L = A + (N - s) /\ i \in 1..L /\ i > A
        BY <1>14, <2>2, SMTT(60), Zenon
      <4> HIDE DEF A, L, N
      <4> QED
        BY <1>2, <1>4, <4>1 DEF A
    <3> HIDE DEF j
    <3>2. told[i] = log[s + j]
      BY <1>14, <3>1, Zenon, SMTT(60)
    <3>3. log[s + j].seq = n + j - 1
      <4>1. log[s + j].seq = n + ((s + j) - s) - 1
        BY <1>9, <3>1
      <4> QED
        BY <3>1, <4>1
    <3> QED
      BY <3>1, <3>2, <3>3 DEF j
  <2>3. i \in Int /\ Len(ack) \in Int
    BY <1>14
  <2> QED
    BY <2>1, <2>2, <2>3, SMTT(60), Zenon
<1>16. Increasing(told)
  <2> SUFFICES ASSUME NEW i \in 1..Len(told), NEW j \in 1..Len(told), i < j
               PROVE  told[i].seq < told[j].seq
    BY DEF Increasing
  <2>0. told[i].seq \in Nat /\ told[j].seq \in Nat
    BY <1>14, LogNumbers, SMTT(60), Zenon
  <2>1. CASE j <= Len(ack)
    <3>0. i \in 1..Len(ack) /\ j \in 1..Len(ack)
      BY <1>14, <2>1
    <3>1. told[i] = ack[i] /\ told[j] = ack[j]
      BY <1>14, <3>0
    <3> QED
      BY <3>0, <3>1 DEF Recorded, Increasing
  <2>2. CASE j > Len(ack)
    <3>1. j - Len(ack) \in 1..(N - s) /\ told[j].seq = n + (j - Len(ack)) - 1
      <4>1. ~(j \in 1..Len(ack))
        BY <1>14, <2>2
      <4> QED
        BY <1>15, <4>1, Zenon, SMTT(60)
    <3>2. told[i].seq < n \/ (told[i].seq = n + (i - Len(ack)) - 1)
      BY <1>15
    <3>3. A \in Nat /\ i \in Int /\ j \in Int /\ i < j /\ j > A /\ n \in Nat
      BY <1>2, <1>14, <2>2
    <3> DEFINE x == told[i].seq
               y == told[j].seq
    <3>4. x \in Nat /\ y \in Nat /\ y = n + (j - A) - 1 /\ (x < n \/ x = n + (i - A) - 1)
      BY <2>0, <3>1, <3>2
    <3> HIDE DEF x, y, A, n
    <3>5. x < y
      BY <3>3, <3>4
    <3> QED
      BY <3>5 DEF x, y
  <2>3. j \in Int /\ Len(ack) \in Int
    BY <1>14
  <2> QED
    BY <2>1, <2>2, <2>3
<1>17. Within(told, next)
  <2> SUFFICES ASSUME NEW i \in 1..Len(told)
               PROVE  \E j \in 1..Len(next) : next[j] = told[i]
    BY SMTT(60), Zenon DEF Within
  <2>1. CASE i \in 1..Len(ack) /\ told[i] = ack[i]
    BY <1>6, <2>1 DEF Recorded, Within
  <2>2. CASE s + (i - Len(ack)) \in 1..N /\ told[i] = log[s + (i - Len(ack))]
    BY <1>9, <2>2, Zenon
  <2> QED
    BY <1>15, <2>1, <2>2
<1>18. Recorded(next, told)
  BY <1>6, <1>16, <1>17 DEF Recorded
<1>19. Below(told, n + (N - s))
  <2> SUFFICES ASSUME NEW i \in 1..Len(told)
               PROVE  told[i].seq < n + (N - s)
    BY DEF Below
  <2>0. told[i].seq \in Nat /\ n \in Nat /\ N - s \in Nat
    BY <1>2, <1>4, <1>14, LogNumbers, SMTT(60), Zenon
  <2>1. CASE told[i].seq < n
    <3> HIDE DEF n, N
    <3> QED
      BY <2>0, <2>1
  <2>2. CASE s + (i - Len(ack)) \in 1..N /\ told[i] = log[s + (i - Len(ack))]
    BY <1>11, <2>2, Zenon
  <2> QED
    BY <1>15, <2>1, <2>2, Zenon, SMTT(60)
<1>20. Saved(done, next, told, N, N)
  <2>1. \A i \in (N + 1)..N : FALSE
    BY <1>2
  <2>2. (n + (N - s)) + (N - N) = n + (N - s)
    BY <1>2, <1>4, SMTT(60), Zenon
  <2>3. N <= N /\ done.mem.events = log /\ done.mem.nextSeq = done.nextSeq + (N - N)
    BY <1>2, <1>9, <1>13, <2>2, SMTT(60), Zenon
  <2>4. \A i \in 1..N : log[i].seq < done.nextSeq
    BY <1>11, <1>13
  <2>5. Below(told, done.nextSeq)
    BY <1>13, <1>19
  <2> HIDE DEF log, N, n
  <2>6. Len(done.mem.events) = N
    BY <2>3 DEF N
  <2>7. /\ N <= N
        /\ \A i \in 1..N : done.mem.events[i].seq < done.nextSeq
        /\ \A i \in (N + 1)..Len(done.mem.events) : done.mem.events[i].seq = done.nextSeq + (i - N) - 1
        /\ done.mem.nextSeq = done.nextSeq + (Len(done.mem.events) - N)
    BY <2>1, <2>3, <2>4, <2>6, SMTT(60), Zenon
  <2>8. /\ \A i \in 1..N : \E j \in 1..Len(next) : next[j] = done.mem.events[i]
        /\ \A j \in 1..Len(next) : \E i \in 1..N : next[j] = done.mem.events[i]
    BY <1>9, <2>3
  <2>9. done.pending # << >> =>
          \E q \in N..N : /\ Len(done.pending) = Len(done.mem.events) - q
                         /\ \A i \in 1..(Len(done.mem.events) - q) : done.pending[i] = done.mem.events[q + i]
    BY <1>13
  <2> QED
    BY <2>5, <2>7, <2>8, <2>9, Zenon DEF Saved
<1>21. Tracks(done, next, told)
  <2>1. N \in 0..Len(done.mem.events)
    BY <1>2, <1>13
  <2> HIDE DEF N
  <2> QED
    BY <1>20, <2>1, Zenon DEF Tracks
<1> QED
  BY <1>6, <1>13, <1>14, <1>18, <1>21 DEF done, next, told, new

-----------------------------------------------------------------------------
(* Steps *)

(* A step of one handle on its own file, while no file is being rewritten. *)
LEMMA HandleStep ==
    ASSUME IInv, \A c \in Clients : ops[c] = NoOp, NEW h \in Handles, lives[h] # NoLive,
           NEW live \in Lives, NEW file \in Seq(Events), NEW ack \in Seq(Events),
           live.thread = lives[h].thread, Recorded(file, ack), Tracks(live, file, ack),
           lives' = [lives EXCEPT ![h] = live], files' = [files EXCEPT ![live.thread] = file],
           acked' = [acked EXCEPT ![live.thread] = ack], ops' = ops
    PROVE  IInv'
<1> DEFINE t == live.thread
<1>1. t \in ThreadIDs
  BY DEF Lives
<1>2. /\ files \in [ThreadIDs -> Seq(Events)] /\ acked \in [ThreadIDs -> Seq(Events)]
      /\ lives \in [Handles -> Lives \cup {NoLive}]
  BY DEF IInv, TypeOK
<1>3. /\ files' \in [ThreadIDs -> Seq(Events)] /\ acked' \in [ThreadIDs -> Seq(Events)]
      /\ lives' \in [Handles -> Lives \cup {NoLive}]
      /\ files'[t] = file /\ acked'[t] = ack /\ lives'[h] = live
      /\ \A u \in ThreadIDs : u # t => files'[u] = files[u] /\ acked'[u] = acked[u]
      /\ \A g \in Handles : g # h => lives'[g] = lives[g]
  BY <1>1, <1>2
<1>4. TypeOK'
  BY <1>3 DEF IInv, TypeOK
<1>5. FilesInv'
  BY <1>3 DEF IInv, FilesInv
<1>6. \A g \in Handles : lives'[g] # NoLive => lives[g] # NoLive /\ lives'[g].thread = lives[g].thread
  BY <1>3
<1>7. ASSUME NEW g \in Handles, lives'[g] # NoLive
      PROVE  Tracks(lives'[g], files'[lives'[g].thread], acked'[lives'[g].thread])
  <2>1. CASE g = h
    BY <1>3, <2>1
  <2>2. CASE g # h
    <3>1. /\ lives[g] # NoLive /\ lives[g] \in Lives /\ lives[g].thread # lives[h].thread
          /\ Tracks(lives[g], files[lives[g].thread], acked[lives[g].thread])
      BY <1>2, <1>6, <1>7, <2>2, SMTT(60), Zenon DEF IInv, LivesInv
    <3>2. lives[g].thread \in ThreadIDs
      BY <3>1 DEF Lives
    <3> QED
      BY <1>3, <2>2, <3>1, <3>2, SMTT(60), Zenon
  <2> QED
    BY <2>1, <2>2
<1>8. LivesInv'
  <2>1. \A g, f \in Handles : g # f /\ lives'[g] # NoLive /\ lives'[f] # NoLive =>
            lives'[g].thread # lives'[f].thread
    BY <1>6, SMTT(60), Zenon DEF IInv, LivesInv
  <2> QED
    BY <1>7, <2>1 DEF LivesInv
<1>9. OpsInv'
  BY DEF OpsInv
<1> QED
  BY <1>4, <1>5, <1>8, <1>9 DEF IInv

(* A handle is opened on a thread that nobody has open, when no file is left *)
(* to rewrite.                                                               *)
LEMMA OpenStep ==
    ASSUME IInv, NEW h \in Handles, lives[h] = NoLive, NEW target, NEW th \in Threads, Known(th),
           target.thread \in ThreadIDs, target.branch \in BranchIDs,
           th.events = files[target.thread], Unopened(lives, target.thread),
           lives' = [lives EXCEPT ![h] = LiveOf(target, th)], files' = files, acked' = acked,
           ops' \in [Clients -> {NoOp}]
    PROVE  IInv'
<1> DEFINE t == target.thread
           live == LiveOf(target, th)
<1>1. /\ files \in [ThreadIDs -> Seq(Events)] /\ acked \in [ThreadIDs -> Seq(Events)]
      /\ lives \in [Handles -> Lives \cup {NoLive}]
  BY DEF IInv, TypeOK
<1>2. Recorded(files[t], acked[t]) /\ files[t] \in Seq(Events) /\ acked[t] \in Seq(Events)
  BY <1>1 DEF IInv, FilesInv
<1>3. live \in Lives /\ Tracks(live, files[t], acked[t])
  BY <1>2, OpenedTracks
<1>4. live.thread = t
  BY DEF LiveOf
<1> HIDE DEF live
<1>5. lives' = [lives EXCEPT ![h] = live]
  BY DEF live
<1>6. /\ lives' \in [Handles -> Lives \cup {NoLive}] /\ lives'[h] = live
      /\ \A g \in Handles : g # h => lives'[g] = lives[g]
  BY <1>1, <1>3, <1>5
<1>7. TypeOK'
  BY <1>1, <1>6 DEF TypeOK
<1>8. FilesInv'
  BY DEF IInv, FilesInv
<1>9. ASSUME NEW g \in Handles, lives'[g] # NoLive
      PROVE  Tracks(lives'[g], files'[lives'[g].thread], acked'[lives'[g].thread])
  <2>1. CASE g = h
    BY <1>3, <1>4, <1>6, <2>1, SMTT(60), Zenon
  <2>2. CASE g # h
    BY <1>6, <1>9, <2>2 DEF IInv, LivesInv
  <2> QED
    BY <2>1, <2>2, SMTT(60), Zenon
<1>10. ASSUME NEW g \in Handles, NEW f \in Handles, g # f, lives'[g] # NoLive, lives'[f] # NoLive
       PROVE  lives'[g].thread # lives'[f].thread
  <2>1. CASE g = h
    BY <1>4, <1>6, <1>10, <2>1, SMTT(60), Zenon DEF Unopened
  <2>2. CASE f = h
    BY <1>4, <1>6, <1>10, <2>2, SMTT(60), Zenon DEF Unopened
  <2>3. CASE g # h /\ f # h
    BY <1>6, <1>10, <2>3, SMTT(60), Zenon DEF IInv, LivesInv
  <2> QED
    BY <2>1, <2>2, <2>3, SMTT(60), Zenon
<1>11. LivesInv'
  BY <1>9, <1>10 DEF LivesInv
<1>12. OpsInv'
  BY DEF OpsInv
<1> QED
  BY <1>7, <1>8, <1>11, <1>12, SMTT(60), Zenon DEF IInv

(* What loadMemory brings in. *)
LEMMA LoadedIs ==
    ASSUME TypeOK
    PROVE  /\ LoadMemory \in Memories
           /\ \A t \in ThreadIDs : LoadMemory[t] # NoThread =>
                /\ LoadMemory[t] \in Threads /\ Known(LoadMemory[t]) /\ LoadMemory[t].events = files[t]
           /\ \A t \in ThreadIDs : LoadMemory[t] = NoThread => files[t] = << >>
<1>1. files \in [ThreadIDs -> Seq(Events)]
  BY DEF TypeOK
<1>2. ASSUME NEW t \in ThreadIDs
      PROVE  /\ files[t] # << >> => /\ Import(files[t]) \in Threads /\ Known(Import(files[t]))
                                    /\ Import(files[t]).events = files[t]
             /\ LoadMemory[t] = IF files[t] = << >> THEN NoThread ELSE Import(files[t])
  <2>1. files[t] \in Seq(Events)
    BY <1>1
  <2> QED
    BY <2>1, ImportKnown DEF LoadMemory
<1>3. \A t \in ThreadIDs : LoadMemory[t] \in Threads \cup {NoThread}
  BY <1>2, SMTT(60), Zenon
<1>4. LoadMemory = [t \in ThreadIDs |-> LoadMemory[t]]
  BY DEF LoadMemory
<1>5. LoadMemory \in Memories
  <2> DEFINE mem == LoadMemory
  <2> HIDE DEF mem
  <2>1. mem = [t \in ThreadIDs |-> mem[t]] /\ \A t \in ThreadIDs : mem[t] \in Threads \cup {NoThread}
    BY <1>3, <1>4 DEF mem
  <2>2. mem \in Memories
    BY <2>1 DEF Memories
  <2> QED
    BY <2>2 DEF mem
<1>6. \A t \in ThreadIDs : LoadMemory[t] = NoThread => files[t] = << >>
  BY <1>2, JsonlStoreAssumption
<1> QED
  BY <1>2, <1>5, <1>6

(* With Serial a call starts when no other is under way. *)
LEMMA QuietIs ==
    ASSUME Serial, Quiet
    PROVE  /\ \A c \in Clients : ops[c] = NoOp
           /\ \A h \in Handles : lives[h] # NoLive => lives[h].pending = << >>
BY SMTT(60), Zenon DEF Quiet

(* A rewrite starts from the loaded memory with one thread in it changed. *)
LEMMA StartStep ==
    ASSUME IInv, Quiet, NEW c \in Clients, NEW t \in ThreadIDs, Unopened(lives, t),
           NEW th \in Threads, Known(th), Continues(th, files[t]),
           NEW target \in Targets \cup {NoLive},
           target # NoLive => lives[target.handle] = NoLive /\ target.thread = t,
           StartRewrite(c, [LoadMemory EXCEPT ![t] = th], target)
    PROVE  IInv'
<1> DEFINE mem == [LoadMemory EXCEPT ![t] = th]
           op == [mem |-> mem, todo |-> {u \in ThreadIDs : mem[u] # NoThread}, target |-> target]
<1>1. /\ LoadMemory \in Memories
      /\ \A u \in ThreadIDs : LoadMemory[u] # NoThread =>
           /\ LoadMemory[u] \in Threads /\ Known(LoadMemory[u]) /\ LoadMemory[u].events = files[u]
  BY LoadedIs, SMTT(60), Zenon DEF IInv
<1>2. th # NoThread
  BY JsonlStoreAssumption, SMTT(60), Zenon
<1>3. mem \in Memories /\ mem[t] = th /\ \A u \in ThreadIDs : u # t => mem[u] = LoadMemory[u]
  BY <1>1, SMTT(60), Zenon DEF Memories
<1>4. ops' = [ops EXCEPT ![c] = op] /\ files' = files /\ lives' = lives /\ acked' = acked
  BY SMTT(60), Zenon DEF StartRewrite
<1> HIDE DEF mem
<1>5. /\ op \in [mem: Memories, todo: SUBSET ThreadIDs, target: Targets \cup {NoLive}]
      /\ op.mem = mem /\ op.target = target /\ op.todo = {u \in ThreadIDs : mem[u] # NoThread}
  BY <1>3, SMTT(60), Zenon
<1> HIDE DEF op
<1>6. /\ ops' \in [Clients -> [mem: Memories, todo: SUBSET ThreadIDs, target: Targets \cup {NoLive}] \cup {NoOp}]
      /\ ops'[c] = op /\ \A d \in Clients : d # c => ops'[d] = ops[d]
  <2> DEFINE R == [mem: Memories, todo: SUBSET ThreadIDs, target: Targets \cup {NoLive}]
  <2>1. ops \in [Clients -> R \cup {NoOp}] /\ op \in R
    BY <1>5, ZenonT(60), SMTT(60) DEF IInv, TypeOK
  <2> HIDE DEF R
  <2>2. ops' \in [Clients -> R \cup {NoOp}] /\ ops'[c] = op /\ \A d \in Clients : d # c => ops'[d] = ops[d]
    BY <1>4, <2>1
  <2> QED
    BY <2>2, Zenon DEF R
<1>7. TypeOK'
  BY <1>4, <1>6, Zenon DEF IInv, TypeOK
<1>8. FilesInv' /\ LivesInv'
  BY <1>4, Zenon DEF IInv, FilesInv, LivesInv
<1>9. /\ \A d \in Clients : ops[d] = NoOp
      /\ \A h \in Handles : lives[h] # NoLive => lives[h].pending = << >>
  BY QuietIs, SMTT(60), Zenon DEF IInv
<1>10. ASSUME NEW u \in ThreadIDs, mem[u] # NoThread
       PROVE  Replaces(op, u, files', lives')
  <2>1. Known(op.mem[u]) /\ (files[u] = op.mem[u].events \/ (u \in op.todo /\ Unopened(lives, u) /\ Continues(op.mem[u], files[u])))
    <3>1. CASE u = t
      BY <1>2, <1>3, <1>5, <3>1, SMTT(60), Zenon
    <3>2. CASE u # t
      BY <1>1, <1>3, <1>5, <1>10, <3>2, SMTT(60), Zenon
    <3> QED
      BY <3>1, <3>2, SMTT(60), Zenon
  <2>2. Unopened(lives', u) <=> Unopened(lives, u)
    BY <1>4, ZenonT(60), SMTT(60) DEF Unopened
  <2> QED
    BY <1>4, <2>1, <2>2, ZenonT(60), SMTT(60) DEF Replaces
<1>11. Awaits(op, lives')
  <2>1. Unopened(lives', t)
    BY <1>4, Zenon, SMTT(60) DEF Unopened
  <2> QED
    BY <1>2, <1>3, <1>4, <1>5, <2>1, SMTT(60), Zenon DEF Awaits
<1>12. OpsInv'
  <2> SUFFICES ASSUME NEW d \in Clients, ops'[d] # NoOp
               PROVE  /\ \A b \in Clients : b # d => ops'[b] = NoOp
                      /\ \A h \in Handles : lives'[h] # NoLive => lives'[h].pending = << >>
                      /\ \A u \in ops'[d].todo : ops'[d].mem[u] # NoThread
                      /\ \A u \in ThreadIDs : ops'[d].mem[u] # NoThread => Replaces(ops'[d], u, files', lives')
                      /\ Awaits(ops'[d], lives')
    BY SMTT(60), Zenon DEF OpsInv
  <2>1. d = c /\ ops'[d] = op
    BY <1>6, <1>9, SMTT(60), Zenon
  <2>2. \A b \in Clients : b # d => ops'[b] = NoOp
    BY <1>6, <1>9, <2>1, SMTT(60), Zenon
  <2>3. \A h \in Handles : lives'[h] # NoLive => lives'[h].pending = << >>
    BY <1>4, <1>9, SMTT(60), Zenon
  <2>4. \A u \in op.todo : op.mem[u] # NoThread
    BY <1>5, SMTT(60), Zenon
  <2>5. \A u \in ThreadIDs : op.mem[u] # NoThread => Replaces(ops'[d], u, files', lives')
    BY <1>5, <1>10, <2>1, SMTT(60), Zenon DEF Replaces
  <2>6. Awaits(ops'[d], lives')
    BY <1>11, <2>1, Zenon, SMTT(60) DEF Awaits
  <2> QED
    BY <2>1, <2>2, <2>3, <2>4, <2>5, <2>6, Zenon, SMTT(60)
<1> QED
  BY <1>7, <1>8, <1>12, SMTT(60), Zenon DEF IInv

(* Create, Fork, Archive and Unarchive up to their rewrite. *)
LEMMA CreateStep ==
    ASSUME IInv, NEW c \in Clients, NEW h \in Handles, NEW t \in ThreadIDs, NEW b \in BranchIDs,
           Create(c, h, t, b)
    PROVE  IInv'
<1> DEFINE target == [handle |-> h, thread |-> t, branch |-> b]
<1>1. NewThread(b) \in Threads /\ Known(NewThread(b)) /\ Continues(NewThread(b), << >>)
  BY NewThreadKnown, SMTT(60), Zenon
<1>2. files[t] = << >>
  BY LoadedIs, SMTT(60), Zenon DEF Create, IInv
<1>3. Quiet /\ Unopened(lives, t) /\ lives[h] = NoLive
  BY DEF Create, MayOpen, Unopened, IInv, Free
<1>4. target \in Targets \cup {NoLive} /\ target.handle = h /\ target.thread = t
  BY DEF Targets
<1>5. StartRewrite(c, [LoadMemory EXCEPT ![t] = NewThread(b)], target)
  BY SMTT(60), Zenon DEF Create
<1> HIDE DEF target
<1> QED
  BY <1>1, <1>2, <1>3, <1>4, <1>5, StartStep, SMTT(60), Zenon

(* Fork loads the memory and adds a branch to its copy. *)
LEMMA ForkStep ==
    ASSUME IInv, NEW c \in Clients, NEW h \in Handles, NEW t \in ThreadIDs,
           NEW from \in BranchIDs, NEW to \in BranchIDs, Fork(c, h, t, from, to)
    PROVE  IInv'
<1> DEFINE target == [handle |-> h, thread |-> t, branch |-> to]
           old == LoadMemory[t]
           th == ForkThread(old, from, to)
<1>1. old \in Threads /\ Known(old) /\ old.events = files[t]
  BY LoadedIs, SMTT(60), Zenon DEF Fork, IInv
<1>2. th \in Threads /\ Known(th) /\ Continues(th, files[t])
  BY <1>1, ForkKnown, Zenon, SMTT(60)
<1>3. Quiet /\ Unopened(lives, t) /\ lives[h] = NoLive
  BY DEF Fork, MayOpen, Unopened, IInv, Free
<1>4. target \in Targets \cup {NoLive} /\ target.handle = h /\ target.thread = t
  BY DEF Targets
<1>5. StartRewrite(c, [LoadMemory EXCEPT ![t] = ForkThread(@, from, to)], target)
  BY DEF Fork
<1>6. [LoadMemory EXCEPT ![t] = ForkThread(@, from, to)] = [LoadMemory EXCEPT ![t] = th]
  OBVIOUS
<1>7. StartRewrite(c, [LoadMemory EXCEPT ![t] = th], target)
  BY <1>5, <1>6, SMTT(60), Zenon
<1> HIDE DEF target, th
<1> QED
  BY <1>2, <1>3, <1>4, <1>7, StartStep, Zenon, SMTT(60)

(* Archive and Unarchive add one event. *)
LEMMA ArchiveStep ==
    ASSUME IInv, NEW c \in Clients, NEW t \in ThreadIDs, NEW archived \in BOOLEAN,
           SetArchived(c, t, archived)
    PROVE  IInv'
<1> DEFINE old == LoadMemory[t]
           th == ArchiveThread(old, archived)
<1>1. old \in Threads /\ Known(old) /\ old.events = files[t]
  BY LoadedIs, SMTT(60), Zenon DEF SetArchived, IInv
<1>2. th \in Threads /\ Known(th) /\ Continues(th, files[t])
  BY <1>1, ArchiveKnown
<1>3. Quiet /\ Unopened(lives, t)
  BY DEF SetArchived, MayOpen, Unopened, IInv
<1>4. StartRewrite(c, [LoadMemory EXCEPT ![t] = ArchiveThread(@, archived)], NoLive)
  BY DEF SetArchived
<1>5. [LoadMemory EXCEPT ![t] = ArchiveThread(@, archived)] = [LoadMemory EXCEPT ![t] = th]
  OBVIOUS
<1>6. StartRewrite(c, [LoadMemory EXCEPT ![t] = th], NoLive)
  BY <1>4, <1>5
<1> HIDE DEF th
<1> QED
  BY <1>2, <1>3, <1>6, StartStep, SMTT(60), Zenon

(* One file is replaced by what the operation has in memory. *)
LEMMA RewriteStep ==
    ASSUME IInv, NEW c \in Clients, NEW t \in ThreadIDs, RewriteFile(c, t)
    PROVE  /\ IInv'
           /\ \A u \in ThreadIDs : files'[u] = files[u] \/ \E e \in Events : files'[u] = Append(files[u], e)
<1> DEFINE op == ops[c]
           th == op.mem[t]
           left == [op EXCEPT !.todo = @ \ {t}]
<1>1. /\ files \in [ThreadIDs -> Seq(Events)] /\ acked \in [ThreadIDs -> Seq(Events)]
      /\ lives \in [Handles -> Lives \cup {NoLive}]
      /\ ops \in [Clients -> [mem: Memories, todo: SUBSET ThreadIDs, target: Targets \cup {NoLive}] \cup {NoOp}]
  BY DEF IInv, TypeOK
<1>2. /\ op # NoOp /\ t \in op.todo
      /\ files' = [files EXCEPT ![t] = th.events] /\ ops' = [ops EXCEPT ![c].todo = @ \ {t}]
      /\ lives' = lives /\ acked' = acked
  BY DEF RewriteFile
<1>3. op \in [mem: Memories, todo: SUBSET ThreadIDs, target: Targets \cup {NoLive}]
  BY <1>1, <1>2
<1>4. /\ \A d \in Clients : d # c => ops[d] = NoOp
      /\ \A h \in Handles : lives[h] # NoLive => lives[h].pending = << >>
      /\ \A u \in op.todo : op.mem[u] # NoThread
      /\ \A u \in ThreadIDs : op.mem[u] # NoThread => Replaces(op, u, files, lives)
      /\ Awaits(op, lives)
  BY <1>2 DEF IInv, OpsInv
<1>5. th # NoThread /\ th \in Threads /\ th.events \in Seq(Events)
  BY <1>2, <1>3, <1>4 DEF Memories, Threads
<1>6. /\ ops' = [ops EXCEPT ![c] = left] /\ ops'[c] = left
      /\ \A d \in Clients : d # c => ops'[d] = NoOp
      /\ left \in [mem: Memories, todo: SUBSET ThreadIDs, target: Targets \cup {NoLive}]
      /\ left.mem = op.mem /\ left.target = op.target /\ left.todo = op.todo \ {t}
  BY <1>1, <1>2, <1>3, <1>4, Zenon
<1>7. files'[t] = th.events /\ \A u \in ThreadIDs : u # t => files'[u] = files[u]
  BY <1>1, <1>2, SMTT(60), Zenon
<1>8. Replaces(op, t, files, lives)
  BY <1>4, <1>5, SMTT(60), Zenon
<1> HIDE DEF op, th, left
<1>9. TypeOK'
  <2>1. files' \in [ThreadIDs -> Seq(Events)]
    BY <1>1, <1>2, <1>5, SMTT(60), Zenon
  <2>2. ops' \in [Clients -> [mem: Memories, todo: SUBSET ThreadIDs, target: Targets \cup {NoLive}] \cup {NoOp}]
    BY <1>1, <1>6, SMTT(60), Zenon
  <2> QED
    BY <1>1, <1>2, <2>1, <2>2 DEF TypeOK
<1>10. th.events = files[t] \/ (Unopened(lives, t) /\ Continues(th, files[t]))
  BY <1>8 DEF Replaces, th
<1>11. /\ files[t] \in Seq(Events) /\ acked[t] \in Seq(Events) /\ Recorded(files[t], acked[t])
  BY <1>1, SMTT(60), Zenon DEF IInv, FilesInv
<1>12. Recorded(th.events, acked[t])
  <2>1. CASE Continues(th, files[t])
    <3>1. PICK e \in Events : th.events = Append(files[t], e) /\ Below(files[t], e.seq)
      BY <2>1 DEF Continues
    <3> QED
      BY <1>11, <3>1, AddLine
  <2> QED
    BY <1>10, <1>11, <2>1, SMTT(60), Zenon
<1>13. FilesInv'
  BY <1>2, <1>7, <1>12, SMTT(60), Zenon DEF IInv, FilesInv
<1>14. \A h \in Handles : lives[h] # NoLive => files'[lives[h].thread] = files[lives[h].thread]
  <2> SUFFICES ASSUME NEW h \in Handles, lives[h] # NoLive
               PROVE  files'[lives[h].thread] = files[lives[h].thread]
    OBVIOUS
  <2>1. lives[h].thread \in ThreadIDs
    BY <1>1 DEF Lives
  <2> QED
    BY <1>7, <1>10, <2>1, SMTT(60), Zenon DEF Unopened
<1>15. LivesInv'
  BY <1>2, <1>14 DEF IInv, LivesInv
<1>16. \A u \in ThreadIDs : Unopened(lives', u) <=> Unopened(lives, u)
  BY <1>2 DEF Unopened
<1>17. ASSUME NEW u \in ThreadIDs, left.mem[u] # NoThread
       PROVE  Replaces(left, u, files', lives')
  <2>1. CASE u = t
    BY <1>4, <1>6, <1>7, <1>17, <2>1, Zenon, SMTT(60) DEF Replaces, th
  <2>2. CASE u # t
    <3>1. Replaces(op, u, files, lives)
      BY <1>4, <1>6, <1>17
    <3> QED
      BY <1>6, <1>7, <1>16, <2>2, <3>1, SMTT(60), Zenon DEF Replaces
  <2> QED
    BY <2>1, <2>2, Zenon, SMTT(60)
<1>18. Awaits(left, lives')
  <2>1. left.target # NoLive => left.target \in Targets
    BY <1>6
  <2> QED
    BY <1>2, <1>4, <1>6, <1>16, <2>1, SMTT(60), Zenon DEF Awaits, Targets
<1>19. OpsInv'
  <2> SUFFICES ASSUME NEW d \in Clients, ops'[d] # NoOp
               PROVE  /\ \A b \in Clients : b # d => ops'[b] = NoOp
                      /\ \A h \in Handles : lives'[h] # NoLive => lives'[h].pending = << >>
                      /\ \A u \in ops'[d].todo : ops'[d].mem[u] # NoThread
                      /\ \A u \in ThreadIDs : ops'[d].mem[u] # NoThread => Replaces(ops'[d], u, files', lives')
                      /\ Awaits(ops'[d], lives')
    BY SMTT(60), Zenon DEF OpsInv
  <2>1. d = c /\ ops'[d] = left
    BY <1>6, SMTT(60), Zenon
  <2>2. \A u \in left.todo : left.mem[u] # NoThread
    BY <1>4, <1>6, SMTT(60), Zenon
  <2>3. \A u \in ThreadIDs : left.mem[u] # NoThread => Replaces(ops'[d], u, files', lives')
    BY <1>17, <2>1, SMTT(60), Zenon DEF Replaces
  <2>4. Awaits(ops'[d], lives')
    BY <1>18, <2>1, SMTT(60), Zenon DEF Awaits
  <2> QED
    BY <1>2, <1>4, <1>6, <2>1, <2>2, <2>3, <2>4, ZenonT(60), SMTT(60)
<1>20. \A u \in ThreadIDs : files'[u] = files[u] \/ \E e \in Events : files'[u] = Append(files[u], e)
  BY <1>7, <1>10 DEF Continues
<1> QED
  BY <1>9, <1>13, <1>15, <1>19, <1>20, SMTT(60), Zenon DEF IInv

(* The operation returns, with a handle or with an error. *)
LEMMA FinishStep ==
    ASSUME IInv, NEW c \in Clients, FinishRewrite(c)
    PROVE  IInv'
<1> DEFINE op == ops[c]
           target == op.target
           th == op.mem[target.thread]
<1>1. /\ files \in [ThreadIDs -> Seq(Events)] /\ acked \in [ThreadIDs -> Seq(Events)]
      /\ lives \in [Handles -> Lives \cup {NoLive}]
      /\ ops \in [Clients -> [mem: Memories, todo: SUBSET ThreadIDs, target: Targets \cup {NoLive}] \cup {NoOp}]
  BY SMTT(60), Zenon DEF IInv, TypeOK
<1>2. /\ op # NoOp /\ op.todo = {} /\ files' = files /\ acked' = acked /\ ops' = [ops EXCEPT ![c] = NoOp]
      /\ lives' = IF target = NoLive THEN lives ELSE [lives EXCEPT ![target.handle] = LiveOf(target, th)]
  BY SMTT(60), Zenon DEF FinishRewrite
<1>3. op \in [mem: Memories, todo: SUBSET ThreadIDs, target: Targets \cup {NoLive}]
  BY <1>1, <1>2, SMTT(60), Zenon
<1>4. /\ \A d \in Clients : d # c => ops[d] = NoOp
      /\ \A u \in ThreadIDs : op.mem[u] # NoThread => Replaces(op, u, files, lives)
      /\ Awaits(op, lives)
  BY <1>2, SMTT(60), Zenon DEF IInv, OpsInv
<1>5. ops' \in [Clients -> {NoOp}]
  BY <1>1, <1>2, <1>4
<1>6. CASE target = NoLive
  <2>1. lives' = lives
    BY <1>2, <1>6, SMTT(60), Zenon
  <2>2. TypeOK'
    BY <1>1, <1>2, <1>5, <2>1, Zenon DEF TypeOK
  <2>3. FilesInv' /\ LivesInv'
    BY <1>2, <2>1, Zenon DEF IInv, FilesInv, LivesInv
  <2>4. OpsInv'
    BY <1>5, SMTT(60), Zenon DEF OpsInv
  <2> QED
    BY <2>2, <2>3, <2>4, SMTT(60), Zenon DEF IInv
<1>7. CASE target # NoLive
  <2>1. /\ target \in Targets /\ target.handle \in Handles /\ target.thread \in ThreadIDs
        /\ target.branch \in BranchIDs
    BY <1>3, <1>7, SMTT(60), Zenon DEF Targets
  <2>2. lives[target.handle] = NoLive /\ Unopened(lives, target.thread) /\ th # NoThread
    BY <1>4, <1>7, SMTT(60), Zenon DEF Awaits
  <2>3. th \in Threads
    BY <1>3, <2>1, <2>2 DEF Memories
  <2>4. Known(th) /\ th.events = files[target.thread]
    <3>1. Replaces(op, target.thread, files, lives)
      BY <1>4, <2>1, <2>2, Zenon
    <3>2. /\ Known(op.mem[target.thread])
          /\ files[target.thread] = op.mem[target.thread].events \/ target.thread \in op.todo
      BY <3>1, Zenon DEF Replaces
    <3>3. target.thread \notin op.todo
      BY <1>2, Zenon
    <3> QED
      BY <3>2, <3>3, Zenon
  <2>5. lives' = [lives EXCEPT ![target.handle] = LiveOf(target, th)]
    BY <1>2, <1>7, SMTT(60), Zenon
  <2> HIDE DEF target, th
  <2> QED
    BY <1>2, <1>5, <2>1, <2>2, <2>3, <2>4, <2>5, OpenStep, Zenon
<1> QED
  BY <1>6, <1>7

(* Resume opens a thread as it is on disk. *)
LEMMA ResumeStep ==
    ASSUME IInv, NEW c \in Clients, NEW h \in Handles, NEW t \in ThreadIDs, NEW b \in BranchIDs,
           Resume(c, h, t, b)
    PROVE  IInv'
<1> DEFINE target == [handle |-> h, thread |-> t, branch |-> b]
           th == LoadMemory[t]
<1>1. th \in Threads /\ Known(th) /\ th.events = files[t]
  BY LoadedIs, SMTT(60), Zenon DEF Resume, IInv
<1>2. Quiet /\ Unopened(lives, t) /\ lives[h] = NoLive
  BY DEF Resume, MayOpen, Unopened, IInv, Free
<1>3. /\ lives' = [lives EXCEPT ![h] = LiveOf(target, th)]
      /\ files' = files /\ ops' = ops /\ acked' = acked
  BY SMTT(60), Zenon DEF Resume
<1>4. ops' \in [Clients -> {NoOp}]
  BY <1>2, <1>3, QuietIs, SMTT(60), Zenon DEF IInv, TypeOK
<1>5. target.thread = t /\ target.branch = b
  OBVIOUS
<1> HIDE DEF target, th
<1> QED
  BY <1>1, <1>2, <1>3, <1>4, <1>5, OpenStep, ZenonT(60), SMTT(60)

(* A batch a caller may append is a sequence of unstamped events. *)
LEMMA BatchesTyped ==
    ASSUME NEW batch \in Batches
    PROVE  batch \in Seq(NewEvents)
<1>1. PICK n \in 1..MaxBatch : batch \in [1..n -> {UserEvent(p) : p \in Payloads}]
  BY DEF Batches
<1>2. \A p \in Payloads : UserEvent(p) \in NewEvents
  BY DEF UserEvent, NewEvents, Kinds
<1>3. n \in Nat
  BY JsonlStoreAssumption, SMTT(60), Zenon
<1> QED
  BY <1>1, <1>2, <1>3

(* What the invariant says of an open handle and its file. *)
LEMMA HandleIs ==
    ASSUME IInv, NEW h \in Handles, lives[h] # NoLive
    PROVE  LET t == lives[h].thread IN
           /\ lives[h] \in Lives /\ t \in ThreadIDs
           /\ files[t] \in Seq(Events) /\ acked[t] \in Seq(Events)
           /\ Recorded(files[t], acked[t]) /\ Tracks(lives[h], files[t], acked[t])
           /\ files = [files EXCEPT ![t] = files[t]] /\ acked = [acked EXCEPT ![t] = acked[t]]
           /\ lives[h].pending # << >> => \A c \in Clients : ops[c] = NoOp
<1>1. /\ files \in [ThreadIDs -> Seq(Events)] /\ acked \in [ThreadIDs -> Seq(Events)]
      /\ lives \in [Handles -> Lives \cup {NoLive}]
  BY SMTT(60), Zenon DEF IInv, TypeOK
<1>2. lives[h] \in Lives /\ lives[h].thread \in ThreadIDs
  BY <1>1, SMTT(60), Zenon DEF Lives
<1>3. lives[h].pending # << >> => \A c \in Clients : ops[c] = NoOp
  BY DEF IInv, OpsInv
<1> QED
  BY <1>1, <1>2, <1>3, SMTT(60), Zenon DEF IInv, FilesInv, LivesInv

(* Append takes its batch into memory and writes nothing yet. *)
LEMMA AppendStartStep ==
    ASSUME IInv, NEW h \in Handles, NEW batch \in Batches, AppendStart(h, batch)
    PROVE  IInv'
<1> DEFINE live == lives[h]
           t == live.thread
           mem == AppendLocked(live.mem, live.branch, batch)
           next == [live EXCEPT !.mem = mem, !.pending = Unsaved(mem.events, live.nextSeq)]
<1>1. /\ live # NoLive /\ Quiet /\ files' = files /\ ops' = ops /\ acked' = acked
      /\ lives' = [lives EXCEPT ![h].mem = mem, ![h].pending = Unsaved(mem.events, live.nextSeq)]
  BY DEF AppendStart
<1>2. /\ live \in Lives /\ t \in ThreadIDs
      /\ files[t] \in Seq(Events) /\ acked[t] \in Seq(Events)
      /\ Recorded(files[t], acked[t]) /\ Tracks(live, files[t], acked[t])
      /\ files = [files EXCEPT ![t] = files[t]] /\ acked = [acked EXCEPT ![t] = acked[t]]
  BY <1>1, HandleIs
<1>3. next \in Lives /\ Tracks(next, files[t], acked[t])
  BY <1>2, BatchesTyped, BatchTaken, Zenon
<1>4. lives' = [lives EXCEPT ![h] = next]
  BY <1>1, Zenon DEF IInv, TypeOK
<1>5. next.thread = t
  BY <1>2 DEF Lives
<1>6. \A c \in Clients : ops[c] = NoOp
  BY <1>1, QuietIs DEF IInv
<1> HIDE DEF next
<1>7. files' = [files EXCEPT ![next.thread] = files[t]] /\ acked' = [acked EXCEPT ![next.thread] = acked[t]]
  BY <1>1, <1>2, <1>5, SMTT(60), Zenon
<1> DEFINE file == files[t]
           ack == acked[t]
<1> HIDE DEF file, ack
<1>8. /\ file \in Seq(Events) /\ ack \in Seq(Events) /\ Recorded(file, ack) /\ Tracks(next, file, ack)
      /\ files' = [files EXCEPT ![next.thread] = file] /\ acked' = [acked EXCEPT ![next.thread] = ack]
  BY <1>2, <1>3, <1>7, SMTT(60), Zenon DEF file, ack
<1> QED
  BY <1>1, <1>3, <1>4, <1>5, <1>6, <1>8, HandleStep, Zenon

(* A line is written; the last one ends the call. *)
LEMMA WriteLineStep ==
    ASSUME IInv, NEW h \in Handles, WriteLine(h)
    PROVE  IInv' /\ \E e \in Events : files' = [files EXCEPT ![lives[h].thread] = Append(@, e)]
<1> DEFINE live == lives[h]
           t == live.thread
           P == live.pending
           file == Append(files[t], Head(P))
<1>1. live # NoLive /\ P # << >> /\ ops' = ops /\ files' = [files EXCEPT ![t] = file]
  BY SMTT(60), Zenon DEF WriteLine
<1>2. /\ live \in Lives /\ t \in ThreadIDs
      /\ files[t] \in Seq(Events) /\ acked[t] \in Seq(Events)
      /\ Recorded(files[t], acked[t]) /\ Tracks(live, files[t], acked[t])
      /\ acked = [acked EXCEPT ![t] = acked[t]]
      /\ \A c \in Clients : ops[c] = NoOp
  BY <1>1, HandleIs, SMTT(60), Zenon
<1>3. P \in Seq(Events) /\ Head(P) \in Events
  BY <1>1, <1>2, SMTT(60), Zenon DEF Lives
<1>4. CASE Len(P) = 1
  <2> DEFINE told == acked[t] \o Unsaved(live.mem.events, live.nextSeq)
             done == [live EXCEPT !.pending = << >>, !.nextSeq = NextSeq(live.mem.events)]
  <2>1. /\ file \in Seq(Events) /\ told \in Seq(Events) /\ done \in Lives
        /\ Recorded(file, told) /\ Tracks(done, file, told)
    BY <1>2, <1>4, LineAcked, Zenon
  <2>2. Tail(P) = << >>
    <3> HIDE DEF P
    <3> QED
      BY <1>3, <1>4, LastTaken, SMTT(60), Zenon
  <2>3. acked' = [acked EXCEPT ![t] = told]
    BY <1>4, SMTT(60), Zenon DEF WriteLine
  <2>4. lives' = [lives EXCEPT ![h].pending = Tail(P), ![h].nextSeq = NextSeq(live.mem.events)]
    BY <1>4 DEF WriteLine
  <2>5. lives' = [lives EXCEPT ![h] = done]
    BY <2>2, <2>4, Zenon DEF IInv, TypeOK
  <2>6. done.thread = t
    BY <1>2, SMTT(60), Zenon DEF Lives
  <2> HIDE DEF done, told, file
  <2>7. files' = [files EXCEPT ![done.thread] = file] /\ acked' = [acked EXCEPT ![done.thread] = told]
    BY <1>1, <2>3, <2>6
  <2>8. IInv'
    BY <1>1, <1>2, <2>1, <2>5, <2>6, <2>7, HandleStep, Zenon
  <2> QED
    BY <1>1, <1>3, <2>8, Zenon DEF file
<1>5. CASE Len(P) # 1
  <2> DEFINE busy == [live EXCEPT !.pending = Tail(P)]
  <2>1. /\ file \in Seq(Events) /\ Recorded(file, acked[t])
        /\ busy \in Lives /\ Tracks(busy, file, acked[t])
    BY <1>1, <1>2, LineTracks, Zenon
  <2>2. acked' = [acked EXCEPT ![t] = acked[t]]
    BY <1>5 DEF WriteLine
  <2>3. lives' = [lives EXCEPT ![h].pending = Tail(P), ![h].nextSeq = live.nextSeq]
    BY <1>5 DEF WriteLine
  <2>4. lives' = [lives EXCEPT ![h] = busy]
    BY <1>2, <2>3, Zenon DEF IInv, TypeOK, Lives
  <2>5. busy.thread = t
    BY <1>2 DEF Lives
  <2> HIDE DEF busy, file
  <2>6. files' = [files EXCEPT ![busy.thread] = file] /\ acked' = [acked EXCEPT ![busy.thread] = acked[t]]
    BY <1>1, <2>2, <2>5
  <2>7. IInv'
    <3> DEFINE ack == acked[t]
    <3> HIDE DEF ack
    <3>1. /\ ack \in Seq(Events) /\ Recorded(file, ack) /\ Tracks(busy, file, ack)
          /\ acked' = [acked EXCEPT ![busy.thread] = ack]
      BY <1>2, <2>1, <2>6 DEF ack
    <3> QED
      BY <1>1, <1>2, <2>1, <2>4, <2>5, <2>6, <3>1, HandleStep, ZenonT(60), SMTT(60)
  <2> QED
    BY <1>1, <1>3, <2>7, Zenon DEF file
<1> QED
  BY <1>4, <1>5

(* A call fails before a line, or with its last line written. *)
LEMMA WriteFailsStep ==
    ASSUME IInv, NEW h \in Handles, WriteFails(h)
    PROVE  IInv'
<1> DEFINE live == lives[h]
           t == live.thread
           idle == [live EXCEPT !.pending = << >>]
<1>1. /\ live # NoLive /\ live.pending # << >> /\ files' = files /\ ops' = ops /\ acked' = acked
      /\ lives' = [lives EXCEPT ![h].pending = << >>]
  BY DEF WriteFails
<1>2. /\ live \in Lives /\ t \in ThreadIDs
      /\ files[t] \in Seq(Events) /\ acked[t] \in Seq(Events)
      /\ Recorded(files[t], acked[t]) /\ Tracks(live, files[t], acked[t])
      /\ files = [files EXCEPT ![t] = files[t]] /\ acked = [acked EXCEPT ![t] = acked[t]]
      /\ \A c \in Clients : ops[c] = NoOp
  BY <1>1, HandleIs
<1>3. /\ idle \in Lives /\ idle.thread = t /\ idle.mem = live.mem /\ idle.nextSeq = live.nextSeq
      /\ idle.pending = << >>
  <2>1. << >> \in Seq(Events)
    OBVIOUS
  <2> QED
    BY <1>2, <2>1, WithPending, Zenon
<1>4. lives' = [lives EXCEPT ![h] = idle]
  BY <1>1, SMTT(60), Zenon DEF IInv, TypeOK
<1> HIDE DEF idle
<1> DEFINE file == files[t]
           ack == acked[t]
<1>5. Tracks(idle, file, ack)
  <2>1. PICK s \in 0..Len(live.mem.events), m \in 0..Len(live.mem.events) : Saved(live, file, ack, s, m)
    BY <1>2, SMTT(60), Zenon DEF Tracks
  <2> HIDE DEF file, ack, live
  <2>2. Saved(idle, file, ack, s, m)
    BY <1>3, <2>1 DEF Saved
  <2> QED
    BY <1>3, <2>2, SMTT(60), Zenon DEF Tracks
<1>6. files' = [files EXCEPT ![idle.thread] = file] /\ acked' = [acked EXCEPT ![idle.thread] = ack]
  BY <1>1, <1>2, <1>3, SMTT(60), Zenon
<1>7. file \in Seq(Events) /\ ack \in Seq(Events) /\ Recorded(file, ack)
  BY <1>2
<1> HIDE DEF file, ack
<1> QED
  BY <1>1, <1>2, <1>3, <1>4, <1>5, <1>6, <1>7, HandleStep, Zenon

(* The last line is written and the call fails nevertheless. *)
LEMMA SyncFailsStep ==
    ASSUME IInv, NEW h \in Handles, SyncFails(h)
    PROVE  IInv' /\ \E e \in Events : files' = [files EXCEPT ![lives[h].thread] = Append(@, e)]
<1> DEFINE live == lives[h]
           t == live.thread
           P == live.pending
           file == Append(files[t], Head(P))
           idle == [live EXCEPT !.pending = << >>]
<1>1. /\ live # NoLive /\ Len(P) = 1 /\ ops' = ops /\ acked' = acked
      /\ files' = [files EXCEPT ![t] = file] /\ lives' = [lives EXCEPT ![h].pending = << >>]
  BY DEF SyncFails
<1>2. P # << >>
  BY <1>1
<1>3. /\ live \in Lives /\ t \in ThreadIDs
      /\ files[t] \in Seq(Events) /\ acked[t] \in Seq(Events)
      /\ Recorded(files[t], acked[t]) /\ Tracks(live, files[t], acked[t])
      /\ acked = [acked EXCEPT ![t] = acked[t]]
      /\ \A c \in Clients : ops[c] = NoOp
  BY <1>1, <1>2, HandleIs, SMTT(60), Zenon
<1>4. Head(P) \in Events
  BY <1>2, <1>3 DEF Lives
<1>5. /\ file \in Seq(Events) /\ Recorded(file, acked[t])
      /\ idle \in Lives /\ Tracks(idle, file, acked[t])
  <2> DEFINE f == files[t]
             a == acked[t]
  <2>1. /\ live \in Lives /\ f \in Seq(Events) /\ a \in Seq(Events) /\ Recorded(f, a) /\ Tracks(live, f, a)
        /\ live.pending # << >>
    BY <1>2, <1>3
  <2> HIDE DEF f, a, live
  <2>2. /\ Append(f, Head(live.pending)) \in Seq(Events) /\ Recorded(Append(f, Head(live.pending)), a)
        /\ [live EXCEPT !.pending = << >>] \in Lives
        /\ Tracks([live EXCEPT !.pending = << >>], Append(f, Head(live.pending)), a)
    BY <2>1, LineTracks, Zenon
  <2> QED
    BY <2>2, SMTT(60), Zenon DEF f, a
<1>6. lives' = [lives EXCEPT ![h] = idle]
  BY <1>1 DEF IInv, TypeOK
<1>7. idle.thread = t
  BY <1>3 DEF Lives
<1> HIDE DEF idle, file
<1>8. files' = [files EXCEPT ![idle.thread] = file] /\ acked' = [acked EXCEPT ![idle.thread] = acked[t]]
  BY <1>1, <1>3, <1>7
<1>9. IInv'
  <2> DEFINE ack == acked[t]
  <2> HIDE DEF ack
  <2>1. /\ ack \in Seq(Events) /\ Recorded(file, ack) /\ Tracks(idle, file, ack)
        /\ acked' = [acked EXCEPT ![idle.thread] = ack]
    BY <1>3, <1>5, <1>8 DEF ack
  <2> QED
    BY <1>1, <1>3, <1>5, <1>6, <1>7, <1>8, <2>1, HandleStep, Zenon
<1> QED
  BY <1>1, <1>4, <1>9, Zenon DEF file

(* Handles are closed, which opens nothing. *)
LEMMA CloseStep ==
    ASSUME IInv, NEW h \in Handles, Shutdown(h)
    PROVE  IInv'
<1>1. /\ lives' = [lives EXCEPT ![h] = NoLive] /\ files' = files /\ ops' = ops /\ acked' = acked
  BY DEF Shutdown
<1>2. lives \in [Handles -> Lives \cup {NoLive}]
  BY DEF IInv, TypeOK
<1>3. /\ lives' \in [Handles -> Lives \cup {NoLive}] /\ lives'[h] = NoLive
      /\ \A g \in Handles : g # h => lives'[g] = lives[g]
  BY <1>1, <1>2
<1>4. \A g \in Handles : lives'[g] # NoLive => lives'[g] = lives[g]
  BY <1>3, SMTT(60), Zenon
<1>5. TypeOK' /\ FilesInv'
  BY <1>1, <1>3, SMTT(60), Zenon DEF IInv, TypeOK, FilesInv
<1>6. LivesInv'
  BY <1>1, <1>4, SMTT(60), Zenon DEF IInv, LivesInv
<1>7. \A t \in ThreadIDs : Unopened(lives, t) => Unopened(lives', t)
  BY <1>4, SMTT(60), Zenon DEF Unopened
<1>8. OpsInv'
  <2> SUFFICES ASSUME NEW c \in Clients, ops[c] # NoOp
               PROVE  /\ \A b \in Clients : b # c => ops'[b] = NoOp
                      /\ \A g \in Handles : lives'[g] # NoLive => lives'[g].pending = << >>
                      /\ \A u \in ops'[c].todo : ops'[c].mem[u] # NoThread
                      /\ \A u \in ThreadIDs : ops'[c].mem[u] # NoThread => Replaces(ops'[c], u, files', lives')
                      /\ Awaits(ops'[c], lives')
    BY <1>1, ZenonT(60), SMTT(60) DEF OpsInv
  <2>1. /\ \A d \in Clients : d # c => ops[d] = NoOp
        /\ \A g \in Handles : lives[g] # NoLive => lives[g].pending = << >>
        /\ \A u \in ops[c].todo : ops[c].mem[u] # NoThread
        /\ \A u \in ThreadIDs : ops[c].mem[u] # NoThread => Replaces(ops[c], u, files, lives)
        /\ Awaits(ops[c], lives)
    BY SMTT(60), Zenon DEF IInv, OpsInv
  <2>2. \A g \in Handles : lives'[g] # NoLive => lives'[g].pending = << >>
    BY <1>4, <2>1, SMTT(60), Zenon
  <2>3. \A u \in ThreadIDs : ops[c].mem[u] # NoThread => Replaces(ops'[c], u, files', lives')
    BY <1>1, <1>7, <2>1, Zenon DEF Replaces
  <2>4. ops[c].target # NoLive => ops[c].target.handle \in Handles /\ ops[c].target.thread \in ThreadIDs
    BY SMTT(60), Zenon DEF IInv, TypeOK, Targets
  <2>5. Awaits(ops'[c], lives')
    <3>1. \A g \in Handles : lives[g] = NoLive => lives'[g] = NoLive
      BY <1>3
    <3> QED
      BY <1>1, <1>7, <2>1, <2>4, <3>1, Zenon DEF Awaits
  <2> QED
    BY <1>1, <2>1, <2>2, <2>3, <2>5, Zenon
<1> QED
  BY <1>5, <1>6, <1>8 DEF IInv

(* Discard removes the file with its handle. *)
LEMMA DiscardStep ==
    ASSUME IInv, NEW h \in Handles, Discard(h)
    PROVE  IInv'
<1> DEFINE t == lives[h].thread
<1>1. /\ lives[h] # NoLive /\ Quiet /\ lives' = [lives EXCEPT ![h] = NoLive] /\ ops' = ops
      /\ files' = [files EXCEPT ![t] = << >>] /\ acked' = [acked EXCEPT ![t] = << >>]
  BY DEF Discard
<1>2. /\ files \in [ThreadIDs -> Seq(Events)] /\ acked \in [ThreadIDs -> Seq(Events)]
      /\ lives \in [Handles -> Lives \cup {NoLive}]
  BY DEF IInv, TypeOK
<1>3. \A g \in Handles : lives[g] # NoLive => lives[g].thread \in ThreadIDs
  BY <1>2, SMTT(60), Zenon DEF Lives
<1>4. /\ files' \in [ThreadIDs -> Seq(Events)] /\ acked' \in [ThreadIDs -> Seq(Events)]
      /\ lives' \in [Handles -> Lives \cup {NoLive}]
      /\ files'[t] = << >> /\ acked'[t] = << >> /\ lives'[h] = NoLive
      /\ \A u \in ThreadIDs : u # t => files'[u] = files[u] /\ acked'[u] = acked[u]
      /\ \A g \in Handles : g # h => lives'[g] = lives[g]
  BY <1>1, <1>2, <1>3, SMTT(60), Zenon
<1>5. TypeOK'
  BY <1>1, <1>4, SMTT(60), Zenon DEF IInv, TypeOK
<1>6. Recorded(<< >>, << >>)
  BY SMTT(60), Zenon DEF Recorded, Rising, OneEach, Increasing, Within
<1>7. FilesInv'
  BY <1>4, <1>6, Zenon DEF IInv, FilesInv
<1>8. \A g \in Handles : lives'[g] # NoLive =>
          /\ lives'[g] = lives[g] /\ lives[g].thread # t
          /\ files'[lives[g].thread] = files[lives[g].thread] /\ acked'[lives[g].thread] = acked[lives[g].thread]
  BY <1>1, <1>3, <1>4, Zenon, SMTT(60) DEF IInv, LivesInv
<1>9. LivesInv'
  BY <1>8, SMTT(60), Zenon DEF IInv, LivesInv
<1>10. OpsInv'
  BY <1>1, QuietIs DEF IInv, OpsInv
<1> QED
  BY <1>5, <1>7, <1>9, <1>10, SMTT(60), Zenon DEF IInv

(* The process dies, or an operation gives up: nothing is left to rewrite. *)
LEMMA CrashStep ==
    ASSUME IInv, Crash
    PROVE  IInv'
<1>1. /\ ops' = [c \in Clients |-> NoOp] /\ lives' = [h \in Handles |-> NoLive]
      /\ files' = files /\ acked' = acked
  BY SMTT(60), Zenon DEF Crash
<1>2. TypeOK' /\ FilesInv'
  BY <1>1, Zenon, SMTT(60) DEF IInv, TypeOK, FilesInv
<1>3. LivesInv' /\ OpsInv'
  BY <1>1 DEF LivesInv, OpsInv
<1> QED
  BY <1>2, <1>3 DEF IInv

(* A rewrite fails and leaves the files it has not come to. *)
LEMMA GiveUpStep ==
    ASSUME IInv, NEW c \in Clients, RewriteFails(c)
    PROVE  IInv'
<1>1. /\ ops[c] # NoOp /\ ops' = [ops EXCEPT ![c] = NoOp] /\ files' = files /\ lives' = lives /\ acked' = acked
  BY Zenon, SMTT(60) DEF RewriteFails
<1>2. \A d \in Clients : ops'[d] = NoOp
  BY <1>1, SMTT(60), Zenon DEF IInv, OpsInv, TypeOK
<1>3. TypeOK' /\ FilesInv' /\ LivesInv'
  BY <1>1, SMTT(60), Zenon DEF IInv, TypeOK, FilesInv, LivesInv
<1>4. OpsInv'
  BY <1>2, SMTT(60), Zenon DEF OpsInv
<1> QED
  BY <1>3, <1>4 DEF IInv

(* A step leaves a file as it is, adds a line to it or discards it. *)
Grows(u) ==
    \/ files'[u] = files[u]
    \/ \E e \in Events : files'[u] = Append(files[u], e)
    \/ \E h \in Handles : Discard(h) /\ lives[h].thread = u

(* Every step keeps the invariant. *)
LEMMA StepIs ==
    ASSUME IInv, [Next]_vars
    PROVE  IInv' /\ \A u \in ThreadIDs : Grows(u)
<1>0. files \in [ThreadIDs -> Seq(Events)]
  BY DEF IInv, TypeOK
<1>s. ASSUME files' = files
      PROVE  \A u \in ThreadIDs : Grows(u)
  BY <1>s DEF Grows
<1>a. ASSUME NEW t, \E e \in Events : files' = [files EXCEPT ![t] = Append(@, e)]
      PROVE  \A u \in ThreadIDs : Grows(u)
  <2>1. PICK e \in Events : files' = [files EXCEPT ![t] = Append(@, e)]
    BY <1>a, Zenon
  <2>2. \A u \in ThreadIDs : files'[u] = IF u = t THEN Append(files[u], e) ELSE files[u]
    BY <1>0, <2>1, SMTT(60), Zenon
  <2> QED
    BY <2>2, Zenon DEF Grows
<1>1. ASSUME NEW c \in Clients, NEW h \in Handles, NEW t \in ThreadIDs, NEW b \in BranchIDs, Create(c, h, t, b)
      PROVE  IInv' /\ \A u \in ThreadIDs : Grows(u)
  BY <1>1, <1>s, CreateStep, SMTT(60), Zenon DEF Create, StartRewrite
<1>2. ASSUME NEW c \in Clients, NEW h \in Handles, NEW t \in ThreadIDs,
             NEW from \in BranchIDs, NEW to \in BranchIDs, Fork(c, h, t, from, to)
      PROVE  IInv' /\ \A u \in ThreadIDs : Grows(u)
  BY <1>2, <1>s, ForkStep, SMTT(60), Zenon DEF Fork, StartRewrite
<1>3. ASSUME NEW c \in Clients, NEW t \in ThreadIDs, NEW archived \in BOOLEAN, SetArchived(c, t, archived)
      PROVE  IInv' /\ \A u \in ThreadIDs : Grows(u)
  BY <1>3, <1>s, ArchiveStep, SMTT(60), Zenon DEF SetArchived, StartRewrite
<1>4. ASSUME NEW c \in Clients, NEW t \in ThreadIDs, RewriteFile(c, t)
      PROVE  IInv' /\ \A u \in ThreadIDs : Grows(u)
  BY <1>4, RewriteStep DEF Grows
<1>5. ASSUME NEW c \in Clients, FinishRewrite(c)
      PROVE  IInv' /\ \A u \in ThreadIDs : Grows(u)
  BY <1>5, <1>s, FinishStep, Zenon DEF FinishRewrite
<1>6. ASSUME NEW c \in Clients, RewriteFails(c)
      PROVE  IInv' /\ \A u \in ThreadIDs : Grows(u)
  BY <1>6, <1>s, GiveUpStep, Zenon DEF RewriteFails
<1>7. ASSUME NEW c \in Clients, NEW h \in Handles, NEW t \in ThreadIDs, NEW b \in BranchIDs, Resume(c, h, t, b)
      PROVE  IInv' /\ \A u \in ThreadIDs : Grows(u)
  BY <1>7, <1>s, ResumeStep, Zenon DEF Resume
<1>8. ASSUME NEW h \in Handles, NEW batch \in Batches, AppendStart(h, batch)
      PROVE  IInv' /\ \A u \in ThreadIDs : Grows(u)
  BY <1>8, <1>s, AppendStartStep, Zenon DEF AppendStart
<1>9. ASSUME NEW h \in Handles, WriteLine(h)
      PROVE  IInv' /\ \A u \in ThreadIDs : Grows(u)
  BY <1>9, <1>a, WriteLineStep
<1>10. ASSUME NEW h \in Handles, WriteFails(h)
       PROVE  IInv' /\ \A u \in ThreadIDs : Grows(u)
  BY <1>10, <1>s, WriteFailsStep, Zenon DEF WriteFails
<1>11. ASSUME NEW h \in Handles, SyncFails(h)
       PROVE  IInv' /\ \A u \in ThreadIDs : Grows(u)
  BY <1>11, <1>a, SyncFailsStep
<1>12. ASSUME NEW h \in Handles, Shutdown(h)
       PROVE  IInv' /\ \A u \in ThreadIDs : Grows(u)
  BY <1>12, <1>s, CloseStep, Zenon DEF Shutdown
<1>13. ASSUME NEW h \in Handles, Discard(h)
       PROVE  IInv' /\ \A u \in ThreadIDs : Grows(u)
  <2>1. files' = [files EXCEPT ![lives[h].thread] = << >>]
    BY <1>13 DEF Discard
  <2>2. \A u \in ThreadIDs : u # lives[h].thread => files'[u] = files[u]
    BY <1>0, <2>1, SMTT(60), Zenon
  <2>3. \A u \in ThreadIDs : Grows(u)
    BY <1>13, <2>2 DEF Grows
  <2> QED
    BY <1>13, <2>3, DiscardStep, SMTT(60), Zenon
<1>14. ASSUME Crash
       PROVE  IInv' /\ \A u \in ThreadIDs : Grows(u)
  BY <1>14, <1>s, CrashStep DEF Crash
<1>15. ASSUME UNCHANGED vars
       PROVE  IInv' /\ \A u \in ThreadIDs : Grows(u)
  <2>1. files' = files /\ ops' = ops /\ lives' = lives /\ acked' = acked
    BY <1>15 DEF vars
  <2>2. IInv'
    BY <2>1, Zenon DEF IInv, TypeOK, FilesInv, LivesInv, OpsInv, Replaces, Awaits, Unopened
  <2> QED
    BY <1>s, <2>1, <2>2
<1> QED
  BY <1>1, <1>2, <1>3, <1>4, <1>5, <1>6, <1>7, <1>8, <1>9, <1>10, <1>11, <1>12, <1>13, <1>14, <1>15, SMTT(60), Zenon DEF Next

(* An empty directory satisfies the invariant. *)
LEMMA InitIs == Serial /\ Init => IInv
<1> SUFFICES ASSUME Serial, Init
             PROVE  IInv
  OBVIOUS
<1>1. TypeOK
  BY DEF Init, TypeOK
<1>2. Recorded(<< >>, << >>)
  BY SMTT(60), Zenon DEF Recorded, Rising, OneEach, Increasing, Within
<1>3. FilesInv /\ LivesInv /\ OpsInv
  BY <1>2, SMTT(60), Zenon DEF Init, FilesInv, LivesInv, OpsInv
<1> QED
  BY <1>1, <1>3 DEF IInv

-----------------------------------------------------------------------------
(* What the invariant says *)

(* Acknowledged events are on disk in their order. *)
LEMMA Durable ==
    ASSUME IInv
    PROVE  AckedDurable
<1> SUFFICES ASSUME NEW t \in ThreadIDs
             PROVE  /\ Range(acked[t]) \subseteq Range(files[t])
                    /\ \A i, j \in DOMAIN acked[t] : i < j => FirstLine(t, acked[t][i]) < FirstLine(t, acked[t][j])
  BY DEF AckedDurable
<1> DEFINE file == files[t]
           ack == acked[t]
<1>1. file \in Seq(Events) /\ ack \in Seq(Events) /\ Recorded(file, ack)
  BY DEF IInv, TypeOK, FilesInv
<1>2. DOMAIN ack = 1..Len(ack) /\ DOMAIN file = 1..Len(file) /\ Len(file) \in Nat
  BY <1>1, SMTT(60), Zenon
<1>3. Range(ack) \subseteq Range(file)
  BY <1>1, <1>2, Zenon, SMTT(60) DEF Recorded, Within, Range
<1>4. ASSUME NEW i \in 1..Len(ack), NEW j \in 1..Len(ack), i < j
      PROVE  FirstLine(t, ack[i]) < FirstLine(t, ack[j])
  <2> DEFINE a == FirstLine(t, ack[i])
             b == FirstLine(t, ack[j])
  <2>1. /\ a \in 1..Len(file) /\ file[a] = ack[i] /\ \A k \in 1..(a - 1) : file[k] # ack[i]
    BY <1>1, FirstLineIs, SMTT(60), Zenon DEF Recorded, Within
  <2>2. /\ b \in 1..Len(file) /\ file[b] = ack[j]
    BY <1>1, FirstLineIs, SMTT(60), Zenon DEF Recorded, Within
  <2> HIDE DEF a, b
  <2>3. ack[i].seq < ack[j].seq /\ ack[i].seq \in Nat /\ ack[j].seq \in Nat
    BY <1>1, <1>4, LogNumbers, SMTT(60), Zenon DEF Recorded, Increasing
  <2>4. a # b
    BY <2>1, <2>2, <2>3, SMTT(60), Zenon
  <2>5. CASE b < a
    <3>1. \A k \in 1..(a - 1) : file[k].seq < file[a].seq
      BY <1>1, <2>1, SMTT(60), Zenon DEF Recorded, Rising
    <3>2. b \in 1..(a - 1)
      BY <2>1, <2>2, <2>5, <1>2, SMTT(60), Zenon
    <3> QED
      BY <2>1, <2>2, <2>3, <3>1, <3>2, SMTT(60), Zenon
  <2> QED
    BY <1>2, <2>1, <2>2, <2>4, <2>5, SMTT(60), Zenon DEF a, b
<1> QED
  BY <1>2, <1>3, <1>4, SMTT(60), Zenon

(* A handle knows its file, and numbers identify events. *)
LEMMA Knowing ==
    ASSUME IInv
    PROVE  LiveKnowsDisk /\ NumbersIdentifyEvents
<1>1. ASSUME NEW h \in Handles, lives[h] # NoLive
      PROVE  /\ Range(files[lives[h].thread]) \subseteq Range(lives[h].mem.events)
             /\ \A e \in Range(lives[h].mem.events) : e.seq < lives[h].nextSeq => e \in Range(files[lives[h].thread])
  <2> DEFINE live == lives[h]
             file == files[live.thread]
             log == live.mem.events
             N == Len(log)
  <2>1. live \in Lives /\ file \in Seq(Events) /\ Tracks(live, file, acked[live.thread])
    BY <1>1, HandleIs, Zenon, SMTT(60)
  <2>2. log \in Seq(Events) /\ N \in Nat /\ DOMAIN log = 1..N /\ DOMAIN file = 1..Len(file) /\ live.nextSeq \in Nat
    BY <2>1, SMTT(60), Zenon DEF Lives, Threads
  <2>3. PICK s \in 0..N, m \in 0..N : Saved(live, file, acked[live.thread], s, m)
    BY <2>1, Zenon, SMTT(60) DEF Tracks
  <2>4. /\ s <= m
        /\ \A i \in (s + 1)..N : log[i].seq = live.nextSeq + (i - s) - 1
        /\ \A i \in 1..m : \E j \in 1..Len(file) : file[j] = log[i]
        /\ \A j \in 1..Len(file) : \E i \in 1..m : file[j] = log[i]
    BY <2>3, Zenon, SMTT(60) DEF Saved
  <2>5. \A i \in 1..m : i \in 1..N
    BY <2>2, SMTT(60), Zenon
  <2>6. Range(file) \subseteq Range(log)
    <3> SUFFICES ASSUME NEW e \in Range(file)
                 PROVE  e \in Range(log)
      BY SMTT(60), Zenon
    <3>1. PICK j \in 1..Len(file) : e = file[j]
      BY <2>2, SMTT(60), Zenon DEF Range
    <3>2. PICK i \in 1..m : file[j] = log[i]
      BY <2>4, SMTT(60), Zenon
    <3>3. i \in DOMAIN log
      BY <2>2, <2>5, SMTT(60), Zenon
    <3> QED
      BY <3>1, <3>2, <3>3, SMTT(60), Zenon DEF Range
  <2>7. ASSUME NEW i \in 1..N, log[i].seq < live.nextSeq
        PROVE  log[i] \in Range(file)
    <3>1. i <= s
      <4>1. CASE i > s
        <5>1. log[i].seq = live.nextSeq + (i - s) - 1
          BY <2>2, <2>4, <4>1, SMTT(60), Zenon
        <5> QED
          BY <2>2, <2>7, <4>1, <5>1, SMTT(60), Zenon
      <4> QED
        BY <2>2, <4>1, SMTT(60), Zenon
    <3>2. i \in 1..m
      BY <2>2, <2>4, <3>1, SMTT(60), Zenon
    <3> QED
      BY <2>2, <2>4, <3>2, Zenon DEF Range
  <2>8. \A e \in Range(log) : \E i \in 1..N : e = log[i]
    BY <2>2, SMTT(60), Zenon DEF Range
  <2> QED
    BY <2>6, <2>7, <2>8, SMTT(60), Zenon
<1>2. NumbersIdentifyEvents
  <2>1. \A t \in ThreadIDs : files[t] \in Seq(Events) /\ OneEach(files[t])
    BY DEF IInv, TypeOK, FilesInv, Recorded
  <2>2. \A t \in ThreadIDs : DOMAIN files[t] = 1..Len(files[t])
    BY <2>1, SMTT(60), Zenon
  <2> QED
    BY <2>1, <2>2, SMTT(60), Zenon DEF OneEach, NumbersIdentifyEvents
<1> QED
  BY <1>1, <1>2, SMTT(60), Zenon DEF LiveKnowsDisk

(* A step that adds a line keeps the earlier ones in their places. *)
LEMMA Appends ==
    ASSUME IInv, NEW t \in ThreadIDs, Grows(t)
    PROVE  \/ Len(files[t]) <= Len(files'[t]) /\ \A i \in DOMAIN files[t] : files'[t][i] = files[t][i]
           \/ \E h \in Handles : Discard(h) /\ lives[h].thread = t
<1> DEFINE f == files[t]
<1>1. f \in Seq(Events)
  BY DEF IInv, TypeOK
<1>2. CASE files'[t] = f
  BY <1>1, <1>2
<1>3. ASSUME NEW e \in Events, files'[t] = Append(f, e)
      PROVE  Len(f) <= Len(files'[t]) /\ \A i \in DOMAIN f : files'[t][i] = f[i]
  <2> HIDE DEF f
  <2>1. Len(f) <= Len(Append(f, e)) /\ \A i \in DOMAIN f : Append(f, e)[i] = f[i]
    BY <1>1
  <2> QED
    BY <1>3, <2>1
<1> QED
  BY <1>2, <1>3 DEF Grows

(* In one session files, handles and acknowledgements agree whatever writes  *)
(* fail and wherever the process dies: what was acknowledged is on disk in   *)
(* its order, a handle knows its file, and a number stands for one event     *)
(* (liveThread.Append, appendThreadFile, Store.rewrite).                     *)
THEOREM SessionIsSafe == Serial /\ Spec => []HandlesAgreeWithFiles
<1>1. IInv /\ [Next]_vars => IInv'
  BY StepIs
<1>2. IInv => HandlesAgreeWithFiles
  BY Durable, Knowing DEF HandlesAgreeWithFiles, IInv
<1> QED
  BY InitIs, <1>1, <1>2, PTL DEF Spec

(* In one session the log on disk only grows: a rewrite, which replaces      *)
(* every file of the store, loses no line (Store.rewrite, writeThreadFile).  *)
THEOREM DiskOnlyGrows == Serial /\ Spec => AppendOnly
<1>1. IInv /\ [Next]_vars =>
        /\ IInv'
        /\ [\A t \in ThreadIDs :
             \/ Len(files[t]) <= Len(files'[t]) /\ \A i \in DOMAIN files[t] : files'[t][i] = files[t][i]
             \/ \E h \in Handles : Discard(h) /\ lives[h].thread = t]_vars
  BY StepIs, Appends
<1> QED
  BY InitIs, <1>1, PTL DEF Spec, AppendOnly

=============================================================================
