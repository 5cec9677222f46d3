------------------------------- MODULE Files -------------------------------
(***************************************************************************)
(* The writing file tools (tools/filesystem) as they run side by side:     *)
(* calls of several sessions and of the parallel steps of a workflow work  *)
(* on the same directory tree, and no lock is taken.  A system call that   *)
(* looks at the tree or changes it is a step of its own, and may fail;     *)
(* what a call found in an earlier one may be stale.  os.ReadFile is one   *)
(* step, os.WriteFile two: it truncates, then writes.                      *)
(*                                                                         *)
(* disk maps the paths that exist to nodes: a directory, or the identity   *)
(* of a file, which is the call and the path that created it.  data maps   *)
(* the files that have a path or that a call has open to their content,    *)
(* so a call goes on writing into the file it opened wherever that is by   *)
(* now.  Content is the sequence of the calls whose text it holds, so that *)
(* a lost edit shows; Torn is that of a file cut short, or mixed by two    *)
(* writers.  How an edit computes its text is the matter of module Edits:  *)
(* here call c adds itself to what it read.  Symbolic links are refused    *)
(* before anything is touched and are left out.                            *)
(***************************************************************************)
EXTENDS Integers, Sequences, FiniteSets
LOCAL INSTANCE SequencesExt
LOCAL INSTANCE Functions

CONSTANTS Calls,        \* the tool calls, each made once
          Tree,         \* the paths at the start: whether each is a directory
          Targets,      \* the paths that calls name
          Edited,       \* the lists of files that a call of file_edit names
          MaxDepth      \* paths longer than this are refused by the file system

VARIABLES disk,   \* path -> node
          data,   \* file -> content
          call,   \* call -> its state
          clean   \* call -> files no other call has touched since it verified them (history)

vars == <<disk, data, call, clean>>

Torn == <<"torn">>
NoFile == <<>>
Dir == [dir |-> TRUE, file |-> NoFile]
File(f) == [dir |-> FALSE, file |-> f]

Exists(p) == p \in DOMAIN disk
IsDir(p) == Exists(p) /\ disk[p].dir
IsFile(p) == Exists(p) /\ ~disk[p].dir
Content(p) == data[disk[p].file]

(* The temporary beside a file: its path with ".tmp" at the end. *)
TempOf(p) == Append(Front(p), Last(p) \o ".tmp")

Within(dir) == {p \in DOMAIN disk : IsPrefix(dir, p)}
IsLeaf(p) == Within(p) = {p}
Above(p) == [n \in 1..(Len(p) - 1) |-> SubSeq(p, 1, n)]
UpTo(p) == Append(Above(p), p)

(* Where the file system lets a new entry be made. *)
InDir(p) == Len(p) <= MaxDepth /\ (Len(p) = 1 \/ IsDir(Front(p)))

isSubpath(parent, child) == IsPrefix(parent, child)

Put(d, p, node) == [q \in DOMAIN d \cup {p} |-> IF q = p THEN node ELSE d[q]]
Without(d, ps) == Restrict(d, DOMAIN d \ ps)

-----------------------------------------------------------------------------
(* A call and what it does to the disk. *)

Idle == [pc |-> "idle"]
Done == [pc |-> "done", error |-> FALSE]
Failed == [pc |-> "done", error |-> TRUE]

(* The files a call has open: from to read, to to write. *)
Open(s) == {s[f] : f \in DOMAIN s \cap {"from", "to"}}

Init == /\ disk = [p \in DOMAIN Tree |-> IF Tree[p] THEN Dir ELSE File(<<"tree", p>>)]
        /\ data = [f \in {<<"tree", p>> : p \in {q \in DOMAIN Tree : ~Tree[q]}} |-> <<>>]
        /\ call = [c \in Calls |-> Idle]
        /\ clean = [c \in Calls |-> {}]

(* Paths that a change to disk d and contents t touches. *)
Touched(d, t) ==
  {p \in DOMAIN disk \cup DOMAIN d :
     ~ /\ p \in DOMAIN disk /\ p \in DOMAIN d
       /\ disk[p] = d[p]
       /\ d[p].dir \/ data[d[p].file] = t[d[p].file]}

(* A file lives while it has a path or is open. *)
Do(c, d, t, s) ==
  /\ call' = [call EXCEPT ![c] = s]
  /\ disk' = d
  /\ data' = LET live == {d[p].file : p \in DOMAIN d} \cup UNION {Open(call'[o]) : o \in Calls}
             IN  Restrict(t, DOMAIN t \cap live)
  /\ clean' = [o \in Calls |->
       IF o = c THEN clean[o]
       ELSE {p \in clean[o] : {p, TempOf(p)} \cap Touched(d, t) = {}}]

Become(c, s) == Do(c, disk, data, s)

Begin(c, s) == call[c].pc = "idle" /\ Become(c, s)

(* os.WriteFile opens path p, creating or truncating it ... *)
OpenTruncated(c, p, s, failed) ==
  LET f == IF IsFile(p) THEN disk[p].file ELSE <<c, p>>
  IN  \/ /\ ~IsDir(p) /\ InDir(p)
         /\ Do(c, Put(disk, p, File(f)), Put(data, f, Torn), [s EXCEPT !.to = f])
      \/ Become(c, failed)

(* ... and writes into the file it opened, over what others wrote since. *)
Filled(c, text, done, failed) ==
  LET f == call[c].to
  IN  \/ \E new \in IF data[f] = Torn THEN {text} ELSE {text, Torn} :
           Do(c, disk, Put(data, f, new), done)
      \/ \E t \in {data, Put(data, f, Torn)} : Do(c, disk, t, failed)

-----------------------------------------------------------------------------
(***************************************************************************)
(* file_edit reads and resolves its files in order, verifies that none has *)
(* changed, writes all temporaries, and renames them one by one.  A file   *)
(* that fails is skipped with allow_partial and ends the call without it.  *)
(***************************************************************************)
fileEdit(c) ==
  \E files \in Edited, partial, dry \in BOOLEAN :
    Begin(c, [pc |-> "read", partial |-> partial, dry |-> dry, todo |-> files,
              kept |-> <<>>, read |-> <<>>, failed |-> {}, to |-> NoFile])

(* The phase after the one a step belongs to, and the phase's first step. *)
NextPhase == [read |-> "verify", verify |-> "open", write |-> "stat"]
FirstStep(pc) == CASE pc = "write" -> "open" [] pc \in {"rename", "drop"} -> "stat" [] OTHER -> pc

(* The first file of the phase is through; keep says whether the next phase has it. *)
Through(s, keep) ==
  LET kept == IF keep THEN Append(s.kept, Head(s.todo)) ELSE s.kept
      step == FirstStep(s.pc)
  IN  CASE Tail(s.todo) # <<>> ->
             [s EXCEPT !.pc = step, !.todo = Tail(@), !.kept = kept, !.to = NoFile]
        [] Tail(s.todo) = <<>> /\ (kept = <<>> \/ step = "stat" \/ (step = "read" /\ s.dry)) -> Done
        [] OTHER -> [s EXCEPT !.pc = NextPhase[@], !.todo = kept, !.kept = <<>>, !.to = NoFile]

FailsFile(s, keep) ==
  IF s.partial THEN Through([s EXCEPT !.failed = @ \cup {Head(s.todo)}], keep) ELSE Failed

editRead(c) ==
  LET s == call[c] p == Head(s.todo)
  IN  /\ s.pc = "read"
      /\ \/ IsFile(p) /\ Become(c, Through([s EXCEPT !.read = Put(@, p, Content(p))], TRUE))
         \/ IsFile(p) /\ Become(c, Through(s, FALSE))     \* nothing to change
         \/ Become(c, FailsFile(s, FALSE))                \* unreadable, or refused

Verified(c, p) == /\ call' = [call EXCEPT ![c] = Through(@, TRUE)]
                  /\ clean' = [clean EXCEPT ![c] = @ \cup {p}]
                  /\ UNCHANGED <<disk, data>>

(* Mutant: the second read is not compared with the first. *)
editVerifyExists(c) ==
  LET s == call[c] p == Head(s.todo)
  IN  /\ s.pc = "verify"
      /\ (IsFile(p) /\ Verified(c, p)) \/ Become(c, FailsFile(s, FALSE))

editVerify(c) ==
  LET s == call[c] p == Head(s.todo)
  IN  /\ s.pc = "verify"
      /\ \/ IsFile(p) /\ Content(p) = s.read[p] /\ Verified(c, p)
         \/ Become(c, FailsFile(s, FALSE))                \* changed, or unreadable

(* A write that fails may have created the temporary.  With allow_partial *)
(* the file stays in the list that is renamed.                            *)
editOpenTemp(c) ==
  LET s == call[c]
  IN  /\ s.pc = "open"
      /\ OpenTruncated(c, TempOf(Head(s.todo)), [s EXCEPT !.pc = "write"],
                       FailsFile([s EXCEPT !.pc = "write"], TRUE))

editWriteTemp(c) ==
  LET s == call[c]
  IN  /\ s.pc = "write"
      /\ Filled(c, Append(s.read[Head(s.todo)], c), Through(s, TRUE), FailsFile(s, TRUE))

(* A missing temporary is passed over. *)
editStat(c) ==
  LET s == call[c]
  IN  /\ s.pc = "stat"
      /\ \/ Exists(TempOf(Head(s.todo))) /\ Become(c, [s EXCEPT !.pc = "rename"])
         \/ Become(c, Through(s, FALSE))

(* What is renamed is whatever the temporary holds by now. *)
editRename(c) ==
  LET s == call[c] p == Head(s.todo) tmp == TempOf(p)
  IN  /\ s.pc = "rename"
      /\ \/ /\ IsFile(tmp) /\ ~IsDir(p)
            /\ Do(c, Put(Without(disk, {tmp}), p, disk[tmp]), data, Through(s, FALSE))
         \/ Become(c, [s EXCEPT !.pc = "drop"])

editDropTemp(c) ==
  LET s == call[c]
  IN  /\ s.pc = "drop"
      /\ \E gone \in {{}, {TempOf(Head(s.todo))}} :
           Do(c, Without(disk, gone), data, FailsFile(s, FALSE))

-----------------------------------------------------------------------------
(***************************************************************************)
(* The other tools share the steps of os.MkdirAll: dirs holds the          *)
(* directories still to make, then the step that follows them.             *)
(***************************************************************************)
Job(tool, src, dst) ==
  [pc |-> "begun", tool |-> tool, src |-> src, dst |-> dst,
   srcDir |-> FALSE, dstDir |-> FALSE, overwrite |-> FALSE,
   dirs |-> <<>>, then |-> "", todo |-> <<>>, from |-> NoFile, to |-> NoFile]

Making(s, dirs, then) ==
  IF dirs = <<>> THEN [s EXCEPT !.pc = then]
  ELSE [s EXCEPT !.pc = "mkdir", !.dirs = dirs, !.then = then]

mkdirAll(c) ==
  LET s == call[c]
      p == Head(s.dirs)
      rest == IF Tail(s.dirs) = <<>> /\ s.then = "done" THEN Done
              ELSE Making([s EXCEPT !.dirs = <<>>, !.then = ""], Tail(s.dirs), s.then)
  IN  /\ s.pc = "mkdir"
      /\ \/ IsDir(p) /\ Become(c, rest)
         \/ ~Exists(p) /\ InDir(p) /\ Do(c, Put(disk, p, Dir), data, rest)
         \/ Become(c, Failed)

(* file_write looks for the file first and truncates whatever is there then. *)
fileWrite(c) ==
  \E p \in Targets, overwrite \in BOOLEAN :
    Begin(c, IF Exists(p) /\ ~overwrite THEN Failed
             ELSE Making(Job("write", p, p), Above(p), "truncate"))

writeOpen(c) ==
  LET s == call[c]
  IN  s.pc = "truncate" /\ OpenTruncated(c, s.dst, [s EXCEPT !.pc = "content"], Failed)

writeContent(c) == call[c].pc = "content" /\ Filled(c, <<c>>, Done, Failed)

-----------------------------------------------------------------------------
(***************************************************************************)
(* file_copy and file_move look at the source, then at the destination.    *)
(* A copy removes the destination it found before it makes directories, a  *)
(* move after.                                                             *)
(***************************************************************************)
fileCopy(c) ==
  \E src, dst \in Targets, overwrite, recursive \in BOOLEAN :
    Begin(c, IF \/ src = dst \/ ~Exists(src)
                \/ IsDir(src) /\ (~recursive \/ isSubpath(src, dst))
             THEN Failed
             ELSE [Job("copy", src, dst) EXCEPT !.srcDir = IsDir(src), !.overwrite = overwrite])

fileMove(c) ==
  \E src, dst \in Targets, overwrite \in BOOLEAN :
    Begin(c, IF src = dst \/ ~Exists(src) \/ (IsDir(src) /\ isSubpath(src, dst)) THEN Failed
             ELSE [Job("move", src, dst) EXCEPT !.srcDir = IsDir(src), !.overwrite = overwrite])

(* copyDir makes its own directory, copyFile the ones above the file. *)
Copying(s) ==
  IF s.srcDir THEN Making(s, UpTo(s.dst), "root")
  ELSE Making([s EXCEPT !.todo = <<[path |-> s.src, dir |-> FALSE]>>], Above(s.dst), "from")

prepareCopyMove(c) ==
  /\ call[c].pc = "begun"
  /\ LET found == Exists(call[c].dst)
         s == [call[c] EXCEPT !.dstDir = IsDir(call[c].dst)]
     IN  \/ found /\ ~s.overwrite /\ Become(c, Failed)
         \/ /\ ~found \/ s.overwrite
            /\ Become(c, IF s.tool = "move"
                         THEN Making(s, Above(s.dst), IF found THEN "remove" ELSE "move")
                         ELSE IF found THEN [s EXCEPT !.pc = "remove"] ELSE Copying(s))

(* The kind of the destination is the one found before.  A directory goes *)
(* with all it holds, one entry after the other, also when the source is  *)
(* below it.                                                              *)
removeExistingDestination(c) ==
  LET s == call[c]
      next == IF s.tool = "move" THEN [s EXCEPT !.pc = "move"] ELSE Copying(s)
  IN  /\ s.pc = "remove"
      /\ \/ \E p \in IF s.dstDir THEN Within(s.dst) ELSE {s.dst} :
              /\ IsLeaf(p)
              /\ Do(c, Without(disk, {p}), data, IF p = s.dst THEN next ELSE s)
         \/ s.dstDir /\ ~Exists(s.dst) /\ Become(c, next)
         \/ Become(c, Failed)

Target(s, p) == s.dst \o SubSeq(p, Len(s.src) + 1, Len(p))

(* The walk of copyDir: todo holds the entries it has still to visit, with *)
(* the kind they had when their directory was read.                        *)
Visiting(s) ==
  IF s.todo = <<>> THEN Done
  ELSE [s EXCEPT !.pc = "visit", !.from = NoFile, !.to = NoFile]

copyWalkRoot(c) ==
  LET s == call[c]
  IN  /\ s.pc = "root"
      /\ Become(c, CASE IsDir(s.src) -> [s EXCEPT !.pc = "list", !.todo = <<[path |-> s.src, dir |-> TRUE]>>]
                     [] IsFile(s.src) -> Done
                     [] OTHER -> Failed)

copyReadDir(c) ==
  LET s == call[c]
      dir == Head(s.todo).path
      entries == {[path |-> p, dir |-> IsDir(p)] :
                    p \in {q \in Within(dir) : Len(q) = Len(dir) + 1}}
  IN  /\ s.pc = "list"
      /\ \/ IsDir(dir) /\ Become(c, Visiting([s EXCEPT !.todo = SetToSeq(entries) \o Tail(@)]))
         \/ Become(c, Failed)

copyVisit(c) ==
  LET s == call[c] e == Head(s.todo) to == Target(s, e.path)
  IN  /\ s.pc = "visit"
      /\ \/ Exists(e.path) /\ Become(c, IF e.dir THEN Making(s, UpTo(to), "list")
                                        ELSE Making(s, Above(to), "from"))
         \/ Become(c, Failed)

copyOpenSource(c) ==
  LET s == call[c] p == Head(s.todo).path
  IN  /\ s.pc = "from"
      /\ \/ Exists(p) /\ Become(c, [s EXCEPT !.pc = "create", !.from = disk[p].file])
         \/ Become(c, Failed)

(* Mutant: the destination is created without O_EXCL. *)
CreatableAnew(p) == ~IsDir(p)

Creatable(p) == ~Exists(p)

copyCreate(c) ==
  LET s == call[c] to == Target(s, Head(s.todo).path) f == <<c, to>>
  IN  /\ s.pc = "create"
      /\ \/ /\ Creatable(to) /\ InDir(to)
            /\ Do(c, Put(disk, to, File(f)), Put(data, f, Torn), [s EXCEPT !.pc = "copy", !.to = f])
         \/ Become(c, Failed)

(* io.Copy reads what the source holds by now; a directory cannot be read. *)
copyContent(c) ==
  LET s == call[c]
  IN  /\ s.pc = "copy"
      /\ \/ /\ s.from # NoFile
            /\ Filled(c, data[s.from], Visiting([s EXCEPT !.todo = Tail(@)]), Failed)
         \/ s.from = NoFile /\ Become(c, Failed)

moveRename(c) ==
  LET s == call[c]
      rest == Without(disk, Within(s.src) \cup {s.dst})
      new == {Target(s, p) : p \in Within(s.src)}
  IN  /\ s.pc = "move"
      /\ \/ /\ Exists(s.src) /\ InDir(s.dst) /\ ~isSubpath(s.src, s.dst)
            /\ ~Exists(s.dst) \/ (IsLeaf(s.dst) /\ IsDir(s.dst) = IsDir(s.src))
            /\ Do(c, [q \in DOMAIN rest \cup new |->
                        IF q \in new THEN disk[CHOOSE p \in Within(s.src) : Target(s, p) = q]
                        ELSE rest[q]], data, Done)
         \/ Become(c, Failed)

-----------------------------------------------------------------------------
fileDelete(c) ==
  \E p \in Targets :
    Begin(c, IF IsFile(p) THEN [Job("delete", p, p) EXCEPT !.pc = "delete"] ELSE Failed)

deleteRemove(c) ==
  LET p == call[c].dst
  IN  /\ call[c].pc = "delete"
      /\ \/ Exists(p) /\ IsLeaf(p) /\ Do(c, Without(disk, {p}), data, Done)
         \/ Become(c, Failed)

dirCreate(c) ==
  /\ call[c].pc = "idle"
  /\ \E p \in Targets :
       \/ Become(c, Making(Job("dirs", p, p), UpTo(p), "done"))    \* parents
       \/ ~Exists(p) /\ InDir(p) /\ Do(c, Put(disk, p, Dir), data, Done)
       \/ Become(c, Failed)

Next ==
  \E c \in Calls :
    \/ fileEdit(c) \/ editRead(c) \/ editVerify(c) \/ editOpenTemp(c) \/ editWriteTemp(c)
    \/ editStat(c) \/ editRename(c) \/ editDropTemp(c)
    \/ fileWrite(c) \/ mkdirAll(c) \/ writeOpen(c) \/ writeContent(c)
    \/ fileCopy(c) \/ fileMove(c) \/ prepareCopyMove(c) \/ removeExistingDestination(c)
    \/ copyWalkRoot(c) \/ copyReadDir(c) \/ copyVisit(c)
    \/ copyOpenSource(c) \/ copyCreate(c) \/ copyContent(c) \/ moveRename(c)
    \/ fileDelete(c) \/ deleteRemove(c) \/ dirCreate(c)

Spec == Init /\ [][Next]_vars

-----------------------------------------------------------------------------
(***************************************************************************)
(* EditsInstallWhatTheyVerified: a rename of file_edit that changes a file *)
(* nobody else touched after this call verified it, replaces exactly the   *)
(* content the call had read by exactly the text the call computed from    *)
(* it, unless the call itself reports the file as failed.  The hash check  *)
(* does that; it covers nothing that happens after it.                     *)
(***************************************************************************)
EditsInstallWhatTheyVerified ==
  [][\A c \in Calls : \A p \in clean[c] :
       LET s == call[c]
       IN  (/\ s.pc = "rename" /\ Head(s.todo) = p /\ p \notin s.failed
            /\ call'[c] # s
            /\ p \in DOMAIN disk' /\ disk'[p] # disk[p])
           => /\ Content(p) = s.read[p]
              /\ data'[disk'[p].file] = Append(s.read[p], c)]_vars

(***************************************************************************)
(* CopiesOnlyAdd: once file_copy has removed the destination it was told   *)
(* to replace, it takes no path away and writes only into files that it    *)
(* created itself (O_EXCL): a file that somebody else created there        *)
(* meanwhile, or moved there, keeps its content.  What a file_write with   *)
(* overwrite puts into the very file the copy created, before io.Copy      *)
(* writes, is not protected.                                               *)
(***************************************************************************)
CopiesOnlyAdd ==
  [][\A c \in Calls :
       LET s == call[c]
       IN  (/\ "tool" \in DOMAIN s /\ s.tool = "copy" /\ s.pc # "remove"
            /\ call'[c] # s)
           => /\ \A p \in DOMAIN disk : p \in DOMAIN disk' /\ disk'[p] = disk[p]
              /\ \A f \in DOMAIN data \cap DOMAIN data' :
                   data'[f] # data[f] => f[1] = c]_vars
=============================================================================
