----------------------------- MODULE FileViews -----------------------------
(***************************************************************************)
(* What the reading file tools show (tools/filesystem/tools.go): the line  *)
(* ranges of file_read, the listings of dir_tree, and the searches glob    *)
(* and grep, with the limits each of them has.                             *)
(*                                                                         *)
(* A directory is a sequence of entries in the order of their names:       *)
(* [name, dir, hidden, ignored, match, kids], where ignored says that      *)
(* .gitignore matches the entry, match that the pattern does, and kids are *)
(* the entries of a directory.  A path is a sequence of names.             *)
(***************************************************************************)
EXTENDS Integers, Sequences, FiniteSets
LOCAL INSTANCE SequencesExt

CONSTANTS DefaultLimit, MaxLimit,     \* of lines per range
          MaxGlobResults, MaxGrepFiles, MaxGrepMatches

(* What the constants must satisfy. *)
FileViewsAssumption ==
  /\ {DefaultLimit, MaxLimit, MaxGlobResults, MaxGrepFiles, MaxGrepMatches} \subseteq Nat \ {0}
  /\ DefaultLimit <= MaxLimit

-----------------------------------------------------------------------------
(* file_read *)

Bounded(r) ==
  LET s == IF r.start < 1 THEN 1 ELSE r.start
      e == IF r.end < s THEN s + DefaultLimit - 1 ELSE r.end
  IN  [start |-> s, end |-> IF e - s + 1 > MaxLimit THEN s + MaxLimit - 1 ELSE e]

(* Mutant: a range that joins the last one sets its end. *)
MergeTakesLastEnd(merged, r) ==
  IF merged # <<>> /\ r.start <= Last(merged).end + 1
  THEN [merged EXCEPT ![Len(merged)].end = r.end]
  ELSE Append(merged, r)

MergeRange(merged, r) ==
  IF merged # <<>> /\ r.start <= Last(merged).end + 1
  THEN [merged EXCEPT ![Len(merged)].end = IF r.end > @ THEN r.end ELSE @]
  ELSE Append(merged, r)

(* The line numbers shown, in order, and whether the result counts as truncated. *)
readRanges(total, ranges) ==
  LET norm == [i \in DOMAIN ranges |-> Bounded(ranges[i])]
      order == SetToSortSeq(DOMAIN norm, LAMBDA i, j :
                 norm[i].start < norm[j].start \/ (norm[i].start = norm[j].start /\ i < j))
      merged == FoldLeft(LAMBDA acc, i : MergeRange(acc, norm[i]), <<>>, order)
      To(r) == IF r.end > total THEN total ELSE r.end
      Lines(r) == IF r.start > total THEN <<>>
                  ELSE [k \in 1..(To(r) - r.start + 1) |-> r.start + k - 1]
      shown == FlattenSeq([i \in DOMAIN merged |-> Lines(merged[i])])
      actualEnd == IF shown = <<>> THEN 0 ELSE Last(shown)
  IN  [shown |-> shown,
       truncated |-> \/ actualEnd < total
                     \/ \E i \in DOMAIN ranges : norm[i].end < ranges[i].end]

-----------------------------------------------------------------------------
(* dir_tree.  opts is [hidden, noIgnore, pattern, depth, max]: show hidden  *)
(* entries, do not read .gitignore, filter files by the pattern, and the    *)
(* limits on depth and entries.                                             *)

Shows(opts, e) ==
  /\ opts.hidden \/ ~e.hidden
  /\ opts.noIgnore \/ ~e.ignored
  /\ e.dir \/ ~opts.pattern \/ e.match

DirsFirst(kids) ==
  SelectSeq(kids, LAMBDA e : e.dir) \o SelectSeq(kids, LAMBDA e : ~e.dir)

Listed(acc, path, max) ==
  [lines |-> Append(acc.lines, path), truncated |-> Len(acc.lines) + 1 >= max]

(* Mutant: one level more than asked for. *)
BelowInclusive(depth, opts) == depth <= opts.depth

Below(depth, opts) == depth < opts.depth

RECURSIVE buildDirTree(_, _, _, _, _)
buildDirTree(kids, path, depth, opts, acc) ==
  LET Visit(a, e) ==
        LET here == Append(path, e.name)
            b == Listed(a, here, opts.max)
        IN  IF a.truncated THEN a
            ELSE IF e.dir /\ ~b.truncated /\ Below(depth + 1, opts)
            THEN buildDirTree(e.kids, here, depth + 1, opts, b)
            ELSE b
  IN  FoldLeft(Visit, acc, DirsFirst(SelectSeq(kids, LAMBDA e : Shows(opts, e))))

(* The flat listing has only files. *)
RECURSIVE collectFiles(_, _, _, _, _)
collectFiles(kids, path, depth, opts, acc) ==
  LET Visit(a, e) ==
        LET here == Append(path, e.name)
        IN  CASE a.truncated -> a
              [] ~a.truncated /\ ~e.dir -> Listed(a, here, opts.max)
              [] ~a.truncated /\ e.dir /\ Below(depth + 1, opts) ->
                   collectFiles(e.kids, here, depth + 1, opts, a)
              [] OTHER -> a
  IN  FoldLeft(Visit, acc, SelectSeq(kids, LAMBDA e : Shows(opts, e)))

dirTree(kids, opts, flat) ==
  LET none == [lines |-> <<>>, truncated |-> FALSE]
  IN  IF flat THEN collectFiles(kids, <<>>, 0, opts, none)
      ELSE buildDirTree(kids, <<>>, 0, opts, none)

-----------------------------------------------------------------------------
(* glob and grep.  A match of a pattern is [path, dir, ignored]; a file to  *)
(* search is [path, binary, hits], hits the number of lines that match.     *)

glob(matches, noIgnore) ==
  LET kept == SelectSeq(matches, LAMBDA m : (noIgnore \/ ~m.ignored) /\ ~m.dir)
  IN  IF Len(kept) > MaxGlobResults THEN SubSeq(kept, 1, MaxGlobResults) ELSE kept

(* Each argument of grep gives a sequence of files; a file is searched once. *)
Candidates(args) ==
  FoldLeft(LAMBDA acc, f : IF \E i \in DOMAIN acc : acc[i].path = f.path
                           THEN acc ELSE Append(acc, f),
           <<>>, FlattenSeq(args))

(* The limits are looked at between files, never within one. *)
grep(args) ==
  LET Search(acc, f) ==
        IF Len(acc.files) >= MaxGrepFiles \/ acc.total >= MaxGrepMatches \/ f.binary
        THEN acc
        ELSE [files |-> IF f.hits > 0 THEN Append(acc.files, f.path) ELSE acc.files,
              total |-> acc.total + f.hits]
  IN  FoldLeft(Search, [files |-> <<>>, total |-> 0], Candidates(args))

-----------------------------------------------------------------------------
(* Properties of one view *)

(***************************************************************************)
(* file_read shows the lines of the requested ranges, each cut to the      *)
(* limit, and every line once and in order however the ranges overlap      *)
(* (readRanges); unless it says "truncated", the last line of the file is  *)
(* among them and no range was cut.                                        *)
(***************************************************************************)
ReadShowsRequestedLines(total, ranges) ==
  LET view == readRanges(total, ranges)
      Cut(i) == Bounded(ranges[i])
  IN  /\ \A i, j \in DOMAIN view.shown : i < j => view.shown[i] < view.shown[j]
      /\ Range(view.shown) = {l \in 1..total : \E i \in DOMAIN ranges :
                                l \in Cut(i).start..Cut(i).end}
      /\ ~view.truncated => /\ total \in {0} \cup Range(view.shown)
                            /\ \A i \in DOMAIN ranges : ranges[i].end <= Cut(i).end

(* The paths a listing is to show, level by level. *)
RECURSIVE Visible(_, _, _, _)
Visible(kids, opts, levels, flat) ==
  LET seen == {e \in Range(kids) : Shows(opts, e)}
  IN  {<<e.name>> : e \in {x \in seen : ~flat \/ ~x.dir}}
      \cup UNION {{<<e.name>> \o p : p \in IF levels = 1 THEN {}
                                             ELSE Visible(e.kids, opts, levels - 1, flat)} :
                  e \in {x \in seen : x.dir}}

(***************************************************************************)
(* A listing that is not marked truncated names everything visible down to *)
(* the depth, once, and nothing else, as a tree and as a flat list; a      *)
(* truncated one has as many entries as allowed, all of them visible       *)
(* (buildDirTree, collectFiles).                                           *)
(***************************************************************************)
ListingsAreComplete(kids, opts, flat) ==
  LET view == dirTree(kids, opts, flat)
      visible == Visible(kids, opts, opts.depth, flat)
  IN  /\ Range(view.lines) \subseteq visible
      /\ Cardinality(Range(view.lines)) = Len(view.lines)
      /\ IF view.truncated THEN Len(view.lines) = opts.max ELSE visible \subseteq Range(view.lines)

(***************************************************************************)
(* glob shows files that match and are not ignored, each once, and no more *)
(* than its limit.  It never says that it stopped there: only an answer    *)
(* below the limit is known to be complete.                                *)
(***************************************************************************)
GlobBelowLimitIsComplete(matches, noIgnore) ==
  LET found == glob(matches, noIgnore)
      wanted == {m \in Range(matches) : ~m.dir /\ (noIgnore \/ ~m.ignored)}
  IN  /\ Range(found) \subseteq wanted
      /\ Cardinality(Range(found)) = Len(found)
      /\ Len(found) <= MaxGlobResults
      /\ Len(found) < MaxGlobResults => Range(found) = wanted

(***************************************************************************)
(* grep searches a file once however many arguments name it, and passes    *)
(* the limit on matches at most by those of the last file (Candidates,     *)
(* grep).  It does not say either when it stopped at a limit: an answer    *)
(* below both has every file with a match.                                 *)
(***************************************************************************)
SearchBelowLimitsIsComplete(args) ==
  LET r == grep(args)
      files == UNION {Range(args[i]) : i \in DOMAIN args}
  IN  /\ Cardinality(Range(r.files)) = Len(r.files) /\ Len(r.files) <= MaxGrepFiles
      /\ Len(r.files) < MaxGrepFiles /\ r.total < MaxGrepMatches
         => Range(r.files) = {f.path : f \in {x \in files : ~x.binary /\ x.hits > 0}}
      /\ r.total < MaxGrepMatches \/ \E f \in files : r.total < MaxGrepMatches + f.hits
=============================================================================
