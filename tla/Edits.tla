------------------------------- MODULE Edits -------------------------------
(***************************************************************************)
(* How file_edit turns its operations into the new content of a file       *)
(* (tools/filesystem/edit_impl.go): every operation is resolved against    *)
(* the original content into edits of byte ranges, the edits are checked   *)
(* for conflicts, and all are applied in one pass.                         *)
(*                                                                         *)
(* A content is a sequence of characters.  Offsets are the code's: they    *)
(* count from 0, an edit replaces the characters start+1 .. end.           *)
(***************************************************************************)
EXTENDS Integers, Sequences, FiniteSets
LOCAL INSTANCE SequencesExt

NL == "\n"
Space == " "

(* The characters "-- " and "++ " that follow the mark in a file header. *)
HeaderText == [m \in {"-", "+"} |-> IF m = "-" THEN "-- " ELSE "++ "]

NewLines(s) == {i \in DOMAIN s : s[i] = NL}

(* Offset just after the j-th newline; 0 for j = 0. *)
AfterNewLine(s, j) ==
  IF j = 0 THEN 0
  ELSE CHOOSE i \in NewLines(s) : Cardinality({k \in NewLines(s) : k <= i}) = j

(* strings.Split(s, "\n") *)
Split(s) ==
  LET n == Cardinality(NewLines(s))
      From(j) == AfterNewLine(s, j - 1) + 1
      To(j) == IF j <= n THEN AfterNewLine(s, j) - 1 ELSE Len(s)
  IN  [j \in 1..(n + 1) |-> SubSeq(s, From(j), To(j))]

(* strings.Join(parts, "\n") *)
Join(parts) ==
  FlattenSeq([j \in DOMAIN parts |->
                IF j < Len(parts) THEN Append(parts[j], NL) ELSE parts[j]])

splitLinesPreserveShape(s) ==
  LET parts == Split(s) IN IF Last(parts) = <<>> THEN Front(parts) ELSE parts

byteOffsetForLine(s, line) ==
  IF line <= 1 THEN 0
  ELSE IF line - 1 <= Cardinality(NewLines(s)) THEN AfterNewLine(s, line - 1)
  ELSE Len(s)

advanceOffsetByLine(s, start) ==
  LET after == {i \in NewLines(s) : i > start}
  IN  IF after = {} THEN Len(s) ELSE CHOOSE i \in after : \A j \in after : i <= j

(* Matches are taken from the left and do not overlap. *)
findAllStringMatches(s, needle) ==
  LET n == Len(needle)
      Taken(acc, i) == IF /\ acc = <<>> \/ i >= Last(acc) + n
                          /\ i + n <= Len(s)
                          /\ SubSeq(s, i + 1, i + n) = needle
                       THEN Append(acc, i) ELSE acc
  IN  FoldLeft(Taken, <<>>, [i \in 1..Len(s) |-> i - 1])

getIndent(line) ==
  LET ink == {i \in DOMAIN line : line[i] # Space}
  IN  IF ink = {} THEN line
      ELSE SubSeq(line, 1, (CHOOSE i \in ink : \A j \in ink : i <= j) - 1)

(* Every line gets the indent, the empty one after a final newline excepted. *)
indentInsertedContent(s, indent) ==
  LET parts == Split(s)
      Indented(ps) == [j \in DOMAIN ps |-> indent \o ps[j]]
  IN  IF Last(parts) = <<>>
      THEN Append(Join(Indented(Front(parts))), NL)
      ELSE Join(Indented(parts))

-----------------------------------------------------------------------------
(* Resolving one operation: the edits, or a refusal of the whole file. *)

Edit(op, from, to, text) == [op |-> op, start |-> from, end |-> to, text |-> text]

Refused == [ok |-> FALSE, edits |-> <<>>]
Resolved(edits) == [ok |-> TRUE, edits |-> edits]

resolveReplace(s, op, n) ==
  LET matches == findAllStringMatches(s, op.old)
  IN  CASE op.old = <<>> -> Refused
        [] op.old # <<>> /\ matches = <<>> ->
             IF op.ifMissing # <<>>
             THEN Resolved(<<Edit(n, Len(s), Len(s), op.ifMissing)>>)
             ELSE Refused
        [] OTHER ->
             IF Len(matches) > 1 /\ ~op.all THEN Refused
             ELSE Resolved([i \in DOMAIN matches |->
                    Edit(n, matches[i], matches[i] + Len(op.old), op.new)])

resolveInsert(s, op, n) ==
  LET lines == splitLinesPreserveShape(s)
      target == IF op.line > Len(lines) + 1 THEN Len(lines) + 1 ELSE op.line
      at == byteOffsetForLine(s, target)
      text == IF op.auto /\ target <= Len(lines)
              THEN indentInsertedContent(op.text, getIndent(lines[target]))
              ELSE op.text
  IN  IF op.line < 1 THEN Refused ELSE Resolved(<<Edit(n, at, at, text)>>)

(* By text, the first occurrence; by lines, an inclusive range. *)
resolveRemoveString(s, op, n) ==
  LET matches == findAllStringMatches(s, op.old)
  IN  IF matches = <<>> THEN Refused
      ELSE Resolved(<<Edit(n, matches[1], matches[1] + Len(op.old), <<>>)>>)

resolveRemoveLines(s, op, n) ==
  IF op.from < 1 \/ op.to < op.from \/ op.to > Len(splitLinesPreserveShape(s))
  THEN Refused
  ELSE Resolved(<<Edit(n, byteOffsetForLine(s, op.from),
                          byteOffsetForLine(s, op.to + 1), <<>>)>>)

resolveAppend(s, op, n) ==
  LET text == IF s # <<>> /\ Last(s) # NL THEN <<NL>> \o op.text ELSE op.text
  IN  Resolved(IF op.text = <<>> THEN <<>>
               ELSE <<Edit(n, Len(s), Len(s), text)>>)

-----------------------------------------------------------------------------
(***************************************************************************)
(* Patches.  A line of a patch has a mark and a text: "@" a hunk header,   *)
(* " ", "-", "+" a line of a hunk, "\" the remark about the final newline, *)
(* "" a blank line.  A file header "--- name" is a line marked "-" whose   *)
(* text begins with "-- ", and so is the removal of such a line; "+++" is  *)
(* read in the same way.                                                   *)
(***************************************************************************)
IsFileHeader(l) ==
  l.mark \in DOMAIN HeaderText /\ l.text # <<>> /\ Head(l.text) = HeaderText[l.mark]

(* Mutant: the remark about the newline ends the hunk. *)
ParseLineRemarkEnds(acc, l) ==
  CASE IsFileHeader(l) \/ l.mark = "\\" -> [acc EXCEPT !.open = FALSE]
    [] l.mark = "@" ->
         [hunks |-> Append(acc.hunks, [start |-> l.start, count |-> l.count, lines |-> <<>>]),
          open |-> TRUE]
    [] acc.open /\ l.mark \in {" ", "-", "+"} /\ ~IsFileHeader(l) ->
         [acc EXCEPT !.hunks[Len(acc.hunks)].lines = Append(@, l)]
    [] OTHER -> acc

ParseLine(acc, l) ==
  CASE IsFileHeader(l) -> [acc EXCEPT !.open = FALSE]
    [] l.mark = "@" ->
         [hunks |-> Append(acc.hunks, [start |-> l.start, count |-> l.count, lines |-> <<>>]),
          open |-> TRUE]
    [] acc.open /\ l.mark \in {" ", "-", "+"} /\ ~IsFileHeader(l) ->
         [acc EXCEPT !.hunks[Len(acc.hunks)].lines = Append(@, l)]
    [] OTHER -> acc

(* Lines outside a hunk are skipped, and so are remarks and blank lines.
   The counts of the header are read and never compared with the lines. *)
parseUnifiedDiff(patch) ==
  FoldLeft(ParseLine, [hunks |-> <<>>, open |-> FALSE], patch).hunks

Texts(h, marks) ==
  LET kept == SelectSeq(h.lines, LAMBDA l : l.mark \in marks)
  IN  [i \in DOMAIN kept |-> kept[i].text]

HunkStart(h) == IF h.start = 0 /\ h.count = 0 THEN 0 ELSE h.start - 1

(* The file is checked against the hunks, in order and without overlap. *)
ApplyHunk(lines, acc, h) ==
  LET old == Texts(h, {" ", "-"})
      at == HunkStart(h)
  IN  IF /\ acc.ok
         /\ at >= acc.idx
         /\ at <= Len(lines)
         /\ IsPrefix(old, SubSeq(lines, at + 1, Len(lines)))
      THEN [ok |-> TRUE, idx |-> at + Len(old),
            out |-> acc.out \o SubSeq(lines, acc.idx + 1, at) \o Texts(h, {" ", "+"})]
      ELSE [acc EXCEPT !.ok = FALSE]

applyUnifiedPatch(lines, hunks) ==
  LET acc == FoldLeft(LAMBDA a, h : ApplyHunk(lines, a, h),
                      [ok |-> TRUE, idx |-> 0, out |-> <<>>], hunks)
  IN  [ok |-> acc.ok,
       out |-> acc.out \o SubSeq(lines, acc.idx + 1, Len(lines))]

(***************************************************************************)
(* A hunk becomes one edit per run of removed and added lines; context     *)
(* lines only move the position.  An added line gets a newline unless the  *)
(* position is the end of a content without a final one.                   *)
(***************************************************************************)
NoBlock == <<>>

Flush(s, acc) ==
  LET b == acc.block[1]
      keepsEnd == ~(s # <<>> /\ Last(s) = NL) /\ b.end = Len(s)
      text == IF keepsEnd /\ b.text # <<>> /\ Last(b.text) = NL
              THEN Front(b.text) ELSE b.text
  IN  IF acc.block = NoBlock THEN acc
      ELSE [acc EXCEPT !.block = NoBlock,
                       !.edits = Append(@, [b EXCEPT !.text = text])]

HunkLine(s, n, acc, l) ==
  LET next == advanceOffsetByLine(s, acc.at)
      begun == IF acc.block = NoBlock THEN Edit(n, acc.at, acc.at, <<>>) ELSE acc.block[1]
      newline == \/ acc.at < Len(s)
                 \/ s # <<>> /\ Last(s) = NL
                 \/ acc.line <= Len(splitLinesPreserveShape(s))
  IN  CASE l.mark = " " -> [Flush(s, acc) EXCEPT !.at = next, !.line = @ + 1]
        [] l.mark = "-" -> [acc EXCEPT !.block = <<[begun EXCEPT !.end = next]>>,
                                       !.at = next, !.line = @ + 1]
        [] l.mark = "+" -> [acc EXCEPT !.block = <<[begun EXCEPT !.text =
                              @ \o l.text \o (IF newline THEN <<NL>> ELSE <<>>)]>>]

patchHunkToResolvedEdits(s, h, n) ==
  LET line == IF h.start = 0 /\ h.count = 0 THEN 1 ELSE h.start
      first == [at |-> byteOffsetForLine(s, line), line |-> line,
                block |-> NoBlock, edits |-> <<>>]
  IN  Flush(s, FoldLeft(LAMBDA acc, l : HunkLine(s, n, acc, l), first, h.lines)).edits

(* Unlike splitLinesPreserveShape, an empty content has one empty line. *)
PatchLines(s) == IF s # <<>> /\ Last(s) = NL THEN Front(Split(s)) ELSE Split(s)

resolvePatch(s, op, n) ==
  LET hunks == parseUnifiedDiff(op.patch)
  IN  IF hunks = <<>> \/ ~applyUnifiedPatch(PatchLines(s), hunks).ok
      THEN Refused
      ELSE Resolved(FlattenSeq([i \in DOMAIN hunks |->
                                  patchHunkToResolvedEdits(s, hunks[i], n)]))

-----------------------------------------------------------------------------
resolveSingleOperation(s, op, n) ==
  CASE op.kind = "replace" -> resolveReplace(s, op, n)
    [] op.kind = "insert" -> resolveInsert(s, op, n)
    [] op.kind = "removeString" -> resolveRemoveString(s, op, n)
    [] op.kind = "removeLines" -> resolveRemoveLines(s, op, n)
    [] op.kind = "append" -> resolveAppend(s, op, n)
    [] op.kind = "patch" -> resolvePatch(s, op, n)

resolveOperationsAgainstOriginal(s, ops) ==
  LET each == [i \in DOMAIN ops |-> resolveSingleOperation(s, ops[i], i)]
  IN  IF \E i \in DOMAIN ops : ~each[i].ok THEN Refused
      ELSE Resolved(FlattenSeq([i \in DOMAIN ops |-> each[i].edits]))

zeroWidth(e) == e.start = e.end

(* Mutant: an insertion never conflicts. *)
ConflictIgnoringInserts(a, b) ==
  ~zeroWidth(a) /\ ~zeroWidth(b) /\ a.start < b.end /\ b.start < a.end

(* Insertions conflict only strictly inside a region; regions, when they overlap. *)
editsConflict(a, b) ==
  CASE zeroWidth(a) /\ zeroWidth(b) -> FALSE
    [] zeroWidth(a) /\ ~zeroWidth(b) -> b.start < a.start /\ a.start < b.end
    [] ~zeroWidth(a) /\ zeroWidth(b) -> a.start < b.start /\ b.start < a.end
    [] OTHER -> a.start < b.end /\ b.start < a.end

detectConflicts(edits) ==
  \E i, j \in DOMAIN edits : i < j /\ editsConflict(edits[i], edits[j])

(* Mutant: edits that start at the same offset come in the order of their operations. *)
BeforeByOperation(edits, i, j) ==
  LET a == edits[i] b == edits[j]
  IN  IF a.start # b.start THEN a.start < b.start ELSE i < j

(* By offset, insertions before regions, then by end and operation; the sort is stable. *)
Before(edits, i, j) ==
  LET a == edits[i] b == edits[j]
  IN  CASE a.start # b.start -> a.start < b.start
        [] a.start = b.start /\ zeroWidth(a) # zeroWidth(b) -> zeroWidth(a)
        [] a.start = b.start /\ zeroWidth(a) = zeroWidth(b) /\ a.end # b.end -> a.end < b.end
        [] OTHER -> i < j

InOrder(edits) ==
  LET order == SetToSortSeq(DOMAIN edits, LAMBDA i, j : Before(edits, i, j))
  IN  [k \in DOMAIN order |-> edits[order[k]]]

applyResolvedEdits(s, edits) ==
  LET Apply(acc, e) ==
        IF ~acc.ok \/ e.start < acc.cursor \/ e.end > Len(s) \/ e.start > e.end
        THEN [acc EXCEPT !.ok = FALSE]
        ELSE [ok |-> TRUE, cursor |-> e.end,
              out |-> acc.out \o SubSeq(s, acc.cursor + 1, e.start) \o e.text]
      acc == FoldLeft(Apply, [ok |-> TRUE, cursor |-> 0, out |-> <<>>], InOrder(edits))
  IN  [ok |-> acc.ok, out |-> acc.out \o SubSeq(s, acc.cursor + 1, Len(s))]

(* What file_edit makes of one file: refused, or its new content. *)
EditFile(s, ops) ==
  LET r == resolveOperationsAgainstOriginal(s, ops)
  IN  IF ~r.ok \/ detectConflicts(r.edits) THEN [ok |-> FALSE, out |-> s]
      ELSE applyResolvedEdits(s, r.edits)

-----------------------------------------------------------------------------
(* Properties of one content *)

(***************************************************************************)
(* Operations that do not conflict are all carried out, each against the   *)
(* content the caller saw: every character outside the replaced regions    *)
(* stays, and every text stands where its operation put it, insertions at  *)
(* one place in the order of the operations and before a region that       *)
(* begins there (detectConflicts, applyResolvedEdits).                     *)
(***************************************************************************)
EditsCompose(s, ops) ==
  LET r == resolveOperationsAgainstOriginal(s, ops)
      done == applyResolvedEdits(s, r.edits)
      TextsAt(p, insertions) ==
        LET here == SelectSeq(r.edits, LAMBDA e : e.start = p /\ zeroWidth(e) = insertions)
        IN  FlattenSeq([i \in DOMAIN here |-> here[i].text])
      Kept(i) == \A k \in DOMAIN r.edits : ~(r.edits[k].start < i /\ i <= r.edits[k].end)
      Expected == FlattenSeq([i \in 1..(Len(s) + 1) |->
                    TextsAt(i - 1, TRUE) \o TextsAt(i - 1, FALSE)
                    \o (IF i <= Len(s) /\ Kept(i) THEN <<s[i]>> ELSE <<>>)])
  IN  r.ok /\ ~detectConflicts(r.edits) => done.ok /\ done.out = Expected

(***************************************************************************)
(* A script says for each line of a content whether it is kept, and which  *)
(* lines are added before the first line and after each one; cut is the    *)
(* number of lines the first of two hunks covers (all: one hunk).          *)
(***************************************************************************)
PatchOf(s, script) ==
  LET lines == PatchLines(s)
      n == Len(lines)
      Added(i) == [k \in DOMAIN script.added[i] |-> [mark |-> "+", text |-> script.added[i][k]]]
      Remark(i) == IF i = n /\ Last(s) # NL THEN <<[mark |-> "\\", text |-> <<>>]>> ELSE <<>>
      Old(i) == <<[mark |-> IF script.kept[i] THEN " " ELSE "-", text |-> lines[i]]>>
      Header(from, to) ==
        <<[mark |-> "@", text |-> <<>>, start |-> from, count |-> to - from + 1]>>
      Body(from, to) == FlattenSeq([k \in 1..(to - from + 1) |->
                          Old(from + k - 1) \o Remark(from + k - 1) \o Added(from + k)])
  IN  Header(1, script.cut) \o Added(1) \o Body(1, script.cut)
      \o IF script.cut = n THEN <<>> ELSE Header(script.cut + 1, n) \o Body(script.cut + 1, n)

(***************************************************************************)
(* A patch made from a content changes it as the diff says: the kept and   *)
(* the added lines in order; where the content has no final newline, and   *)
(* the diff remarks on it, up to a final newline (parseUnifiedDiff,        *)
(* patchHunkToResolvedEdits).  Excepted are additions at the end of such a *)
(* content other than one line for its last line: they come out on one     *)
(* line.                                                                   *)
(***************************************************************************)
PatchApplies(s, script) ==
  LET lines == PatchLines(s)
      n == Len(lines)
      ended == Last(s) = NL
      atEnd == script.added[n + 1]
      new == FlattenSeq([i \in 1..(n + 1) |->
               (IF i > 1 /\ script.kept[i - 1] THEN <<lines[i - 1]>> ELSE <<>>) \o script.added[i]])
      r == EditFile(s, <<[kind |-> "patch", patch |-> PatchOf(s, script)]>>)
  IN  ended \/ atEnd = <<>> \/ (~script.kept[n] /\ Len(atEnd) = 1) =>
        /\ r.ok
        /\ IF new = <<>> THEN r.out = <<>>
           ELSE \/ r.out = Append(Join(new), NL)
                \/ ~ended /\ r.out = Join(new)
=============================================================================
