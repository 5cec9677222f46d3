-------------------------------- MODULE Turns --------------------------------
(***************************************************************************)
(* The turns of a thread-backed agent: runner.RunTurn, the context manager *)
(* it renders through, the history it commits to, compaction between       *)
(* turns, and the resume of all of it from the thread's events.            *)
(*                                                                         *)
(* Of the thread's events the model keeps what a resume reads back: the    *)
(* conversation nodes and the render records. An append that fails may     *)
(* leave its lines in the memory of the thread's handle, and some of them  *)
(* on the file; the next append that succeeds writes all of them before    *)
(* its own (jsonlstore.liveThread.Append).                                 *)
(* The provider is external: it answers, fails, or asks for tools. A       *)
(* response id stands for the conversation the provider keeps under it.    *)
(* One turn runs at a time, and compaction runs between turns.             *)
(***************************************************************************)
EXTENDS Conversation

LOCAL INSTANCE SequencesExt

CONSTANTS Fragments,   \* keys of context fragments
          Contents,    \* their contents
          Absent,      \* a fragment that is not there
          MaxSteps,    \* WithMaxSteps
          KeepWindow,  \* CompactOptions.KeepWindow
          MaxTurns,    \* bounds the turns of a behaviour
          MaxFails,    \* bounds the failed appends that leave lines behind
          MaxNodes     \* bounds the conversation: a turn begins below it, a compaction at most one above

(* What the constants must satisfy. *)
TurnsAssumption ==
    /\ Absent \notin Contents
    /\ MaxSteps \in Nat \ {0} /\ KeepWindow \in Nat \ {0}
    /\ {MaxTurns, MaxNodes, MaxFails} \subseteq Nat

VARIABLES thread,    \* the thread's file and the lines its handle keeps
          nodes,     \* History.tree
          floor,     \* its compaction floor
          records,   \* Manager.records
          turns,     \* number of turns started
          turn       \* the turn that runs

vars == <<thread, nodes, floor, records, turns, turn>>

Contexts == [Fragments -> Contents \cup {Absent}]
NoContext == [f \in Fragments |-> Absent]

(* transcript, fragment.continuations and recoveryTranscriptDirty of RunTurn; *)
(* next: the records of the prepared render; view: what the provider's model *)
(* sees of the request that is under way; base: the records when the turn    *)
(* began; hasIDs: the provider's responses carry message ids.                *)
Idle == [at |-> "idle", hasIDs |-> FALSE, step |-> 0, transcript |-> <<>>, continuations |-> <<>>, dirty |-> FALSE,
         next |-> NoContext, view |-> <<>>, base |-> NoContext]

(* Of the file: the path from the root to the node written last, the last    *)
(* render, what the last compaction replaces, and whether a node is on it    *)
(* twice. Of the handle: the lines of failed appends and how many of them    *)
(* are on the file. astray is not in the code: what of the file comes from   *)
(* failed appends only, the node written last, the last render, or any       *)
(* compaction.                                                               *)
NewThread == [path |-> <<>>, rendered |-> NoContext, compacted |-> {}, twice |-> FALSE,
              kept |-> <<>>, onFile |-> 0, astray |-> {}, fails |-> 0]

Init ==
    /\ thread = NewThread
    /\ nodes = <<>> /\ floor = 1 /\ records = NoContext
    /\ turns = 0 /\ turn = Idle

-----------------------------------------------------------------------------
(* A line of the thread: a render, or a node and its depth, which stands for *)
(* its parent.                                                               *)
RenderLine(context) == [line |-> "render", context |-> context]
NodeLines(payloads) ==
    [i \in 1 .. Len(payloads) |-> [line |-> "node", at |-> Len(nodes) + i, node |-> ThreadEvent(payloads[i])]]

(* InsertNode: the node becomes the head, under its parent. *)
Insert(th, line) ==
    IF line.line = "render" THEN [th EXCEPT !.rendered = line.context]
    ELSE [th EXCEPT !.path = Append(SubSeq(@, 1, line.at - 1), line.node),
                    !.compacted = IF line.node.kind = "compaction" THEN line.node.replaces ELSE @]

(* appendThreadFile: the first n lines reach the file. *)
Written(th, lines, n) ==
    [FoldLeft(Insert, th, SubSeq(lines, 1, n)) EXCEPT
       !.twice = @ \/ \E i \in 1 .. n : i <= th.onFile /\ lines[i].line = "node"]

(* What lines decide about a resume. *)
Decides(lines) ==
    {CASE line.line = "render" -> "records" [] OTHER -> "head" : line \in Range(lines)}
Compacts(lines) ==
    {"floor" : line \in {l \in Range(lines) : l.line = "node" /\ l.node.kind = "compaction"}}

(* liveThread.Append succeeds: what failed ones left behind is written too.  *)
Appended(th, lines) ==
    LET all == th.kept \o lines
    IN [Written(th, all, Len(all)) EXCEPT
          !.kept = <<>>, !.onFile = 0,
          !.astray = ((@ \cup Decides(th.kept)) \ Decides(lines)) \cup Compacts(th.kept)]

(* liveThread.Append fails: before the handle's memory takes the events, or  *)
(* after it with n lines on the file.                                        *)
FailedAppends(th, lines) ==
    LET all == th.kept \o lines
        left(n) == [Written(th, all, n) EXCEPT
                      !.kept = all, !.onFile = IF n > @ THEN n ELSE @, !.fails = @ + 1,
                      !.astray = @ \cup Decides(SubSeq(all, 1, n)) \cup Compacts(SubSeq(all, 1, n))]
    IN {th} \cup {left(n) : n \in IF th.fails < MaxFails THEN 0 .. Len(all) ELSE {}}

(* The thread's other writers (usage, skills, capabilities, workflows): what *)
(* they write does not matter here, but what they write with it does.        *)
OtherAppends(th) == {Appended(th, <<>>)} \cup FailedAppends(th, <<>>)

OtherAppend ==
    /\ turn.at # "closed" /\ thread.kept # <<>>
    /\ thread' \in OtherAppends(thread)
    /\ UNCHANGED <<nodes, floor, records, turns, turn>>

-----------------------------------------------------------------------------
(* buildProviderRecord: the fragments that were added, updated or removed. *)
Changed(context) == {f \in Fragments : context[f] # records[f]}

(* Manager.Prepare: what the providers return against the records. *)
Diff(context) == [f \in Changed(context) |-> context[f]]

(* Mutant: the diff always goes to the last message, a tool message included, *)
(* which has no content.                                                      *)
InjectSystemContextDiffLast(messages, diff) ==
    IF diff = NoDiff \/ messages[Len(messages)].role = "tool" THEN messages
    ELSE [messages EXCEPT ![Len(messages)].diff = diff]

(* injectSystemContextDiff *)
InjectSystemContextDiff(messages, diff) ==
    LET last == Len(messages)
    IN CASE diff = NoDiff -> messages
         [] diff # NoDiff /\ messages[last].role = "tool" ->
              Append(messages, Message("user", messages[last].turn, diff, {}, {}))
         [] OTHER -> [messages EXCEPT ![last].diff = diff]

(* ThreadRuntime.PrepareRequest *)
PrepareRequest(messages, context) == InjectSystemContextDiff(messages, Diff(context))

(* defaultProject: with a continuation at the head only the pending messages *)
(* are sent, otherwise all of the history is.                                *)
View(pending) ==
    LET continuations == ContinuationsAtHead(nodes)
    IN (IF continuations # <<>> THEN Head(continuations) ELSE Messages(nodes, floor))
         \o Normalize(pending)

(* consumeEvents: the message a response adds up to. *)
Assistant(calls) == Message("assistant", turns, NoDiff, calls, {})

-----------------------------------------------------------------------------
(* Engine.RunTurn: the user's text becomes the only message of the request. *)
StartTurn(hasIDs) ==
    /\ turn.at = "idle"
    /\ turns < MaxTurns /\ Len(nodes) < MaxNodes
    /\ turns' = turns + 1
    /\ turn' = [Idle EXCEPT !.at = "step", !.hasIDs = hasIDs, !.base = records,
                            !.transcript = <<Message("user", turns + 1, NoDiff, {}, {})>>]
    /\ UNCHANGED <<thread, nodes, floor, records>>

(* The head of the loop: PrepareRequest renders the context and puts the     *)
(* diff into the request, whose messages are the transcript from then on.    *)
StartStep(context) ==
    /\ turn.at = "step" /\ turn.step < MaxSteps
    /\ LET transcript == PrepareRequest(turn.transcript, context)
       IN turn' = [turn EXCEPT !.at = "asked", !.step = @ + 1, !.transcript = transcript,
                               !.next = context, !.view = View(transcript)]
    /\ UNCHANGED <<thread, nodes, floor, records, turns>>

(* The continuations once a response with the given message has been read. *)
Continued(assistant) ==
    IF turn.hasIDs THEN Append(turn.continuations, Append(turn.view, assistant)) ELSE turn.continuations

(* The payloads of a fragment's request messages. *)
RequestMessages(transcript) == [i \in 1 .. Len(transcript) |-> MessageEvent(transcript[i])]

(* The payloads of a completed turn. *)
FinalPayloads ==
    RequestMessages(turn.transcript) \o <<AssistantTurnEvent(Assistant({}), Continued(Assistant({})))>>

(* commitFinalFragment: a response without tool calls ends the turn. The     *)
(* render events and the nodes are one append (appendPayloads), and the tree *)
(* and the records follow when they are on the thread.                       *)
AnswerFinal ==
    /\ turn.at = "asked"
    /\ thread' = Appended(thread, <<RenderLine(turn.next)>> \o NodeLines(FinalPayloads))
    /\ nodes' = nodes \o FinalPayloads
    /\ records' = turn.next
    /\ turn' = Idle
    /\ UNCHANGED <<floor, turns>>

(* commitPreparedRequest: the render is committed in the middle of the turn. *)
CommitPreparedRequest ==
    /\ thread' = Appended(thread, <<RenderLine(turn.next)>>)
    /\ records' = turn.next
    /\ UNCHANGED <<nodes, floor, turns>>

(* The append of a final answer or of a commit in the middle fails. *)
FailedCommits ==
    FailedAppends(thread, <<RenderLine(turn.next)>> \o NodeLines(FinalPayloads))
      \cup FailedAppends(thread, <<RenderLine(turn.next)>>)

(* A failure before the response is read, while it is, which is put on the   *)
(* thread, or of the append of what it commits: the render is rolled back,   *)
(* nothing of the turn is kept in memory.                                    *)
StepFails ==
    /\ \/ turn.at = "asked" /\ thread' \in OtherAppends(thread) \cup FailedCommits
       \/ turn.at = "step" /\ turn.step < MaxSteps /\ UNCHANGED thread
    /\ turn' = Idle
    /\ UNCHANGED <<nodes, floor, records, turns>>

(* A commentary message goes to the transcript and the loop goes on. *)
AnswerCommentary ==
    LET assistant == Assistant({})
    IN /\ turn.at = "asked"
       /\ CommitPreparedRequest
       /\ turn' = [turn EXCEPT !.at = "step", !.dirty = TRUE, !.next = NoContext, !.view = <<>>,
                               !.transcript = Append(@, assistant),
                               !.continuations = Continued(assistant)]

(* A response with a tool call; its id is new to the conversation. *)
AnswerCalls ==
    LET call == Len(nodes) + Len(turn.transcript) + 1
        assistant == Assistant({call})
    IN /\ turn.at = "asked"
       /\ CommitPreparedRequest
       /\ turn' = [turn EXCEPT !.at = "tools", !.next = NoContext, !.view = <<>>,
                               !.transcript = Append(@, assistant),
                               !.continuations = Continued(assistant)]

(* Every call gets a result: that of the tool, of an equal call before it,   *)
(* or that it was canceled.                                                  *)
ToolResults ==
    Message("tool", turns, NoDiff, {}, turn.transcript[Len(turn.transcript)].calls)

RunTools ==
    /\ turn.at = "tools"
    /\ turn' = [turn EXCEPT !.at = "step", !.dirty = TRUE, !.transcript = Append(@, ToolResults)]
    /\ UNCHANGED <<thread, nodes, floor, records, turns>>

(* commitRecoveredTranscript, which may fail. *)
CommitRecoveredTranscript(transcript) ==
    LET payloads == RequestMessages(transcript)
    IN /\ \/ thread' = Appended(thread, NodeLines(payloads)) /\ nodes' = nodes \o payloads
          \/ thread' \in FailedAppends(thread, NodeLines(payloads)) /\ UNCHANGED nodes
       /\ turn' = Idle
       /\ UNCHANGED <<records, floor, turns>>

(* The context of the turn is done when its tools are. *)
RunToolsCanceled ==
    /\ turn.at = "tools"
    /\ CommitRecoveredTranscript(Append(turn.transcript, ToolResults))

(* ErrMaxStepsReached; the transcript is dirty once a step went on. *)
MaxStepsReached ==
    /\ turn.at = "step" /\ turn.step = MaxSteps
    /\ turn.dirty
    /\ CommitRecoveredTranscript(turn.transcript)

-----------------------------------------------------------------------------
(* History.CompactContext: the summary's node and the new floor. *)
CompactContext(event) ==
    /\ nodes' = Append(nodes, event)
    /\ floor' = CompactionFloor(nodes', floor, event.replaces)

(* renderAndCommitContext: a render whose diff goes to no request. The       *)
(* append of its events may fail.                                            *)
RenderAndCommitContext(th, context) ==
    \/ thread' = Appended(th, <<RenderLine(context)>>) /\ records' = context
    \/ thread' \in FailedAppends(th, <<RenderLine(context)>>) /\ UNCHANGED records

(* CompactWithOptions, by the user or after a turn, and                      *)
(* ThreadRuntime.Compact. A failure of the summary changes nothing, one of   *)
(* the first append nothing in memory.                                       *)
Compact(context) ==
    LET replaces == SelectCompactionNodes(nodes, floor, KeepWindow)
        covers == Summarized(nodes, floor, KeepWindow)
        event == CompactionEvent(Message("summary", turns, NoDiff, {}, {}), replaces, covers)
    IN /\ turn.at = "idle" /\ Len(nodes) <= MaxNodes + 1
       /\ replaces # {} /\ covers # {}
       /\ \/ /\ CompactContext(event)
             /\ RenderAndCommitContext(Appended(thread, NodeLines(<<event>>)), context)
          \/ /\ thread' \in FailedAppends(thread, NodeLines(<<event>>))
             /\ UNCHANGED <<nodes, floor, records>>
       /\ UNCHANGED <<turns, turn>>

(* The process stops and the thread is resumed from its file:                *)
(* ResumeHistoryFromThread and ReplayContextRenders. The lines that only     *)
(* the handle had are gone. A node that is on the file twice cannot be       *)
(* inserted, and the session does not open any more.                         *)
Resume ==
    /\ turn.at # "closed"
    /\ thread' = [thread EXCEPT !.kept = <<>>, !.onFile = 0, !.astray = @ \cap {"floor"}]
    /\ \/ /\ ~thread.twice
          /\ nodes' = thread.path
          /\ floor' = ResumedFloor(thread.path, thread.compacted)
          /\ records' = thread.rendered
          /\ turn' = Idle
       \/ /\ thread.twice
          /\ turn' = [Idle EXCEPT !.at = "closed"]
          /\ UNCHANGED <<nodes, floor, records>>
    /\ UNCHANGED turns

Next ==
    \/ \E hasIDs \in BOOLEAN : StartTurn(hasIDs)
    \/ \E context \in Contexts : StartStep(context)
    \/ StepFails
    \/ AnswerFinal
    \/ AnswerCommentary
    \/ AnswerCalls
    \/ RunTools
    \/ RunToolsCanceled
    \/ MaxStepsReached
    \/ \E context \in Contexts : Compact(context)
    \/ OtherAppend
    \/ Resume
    \/ turn.at = "closed" /\ UNCHANGED vars

Spec == Init /\ [][Next]_vars

-----------------------------------------------------------------------------
DiffOK(diff) == DOMAIN diff \subseteq Fragments /\ \A f \in DOMAIN diff : diff[f] \in Contents \cup {Absent}

MessageOK(m) ==
    /\ m.role \in {"user", "assistant", "tool", "summary"}
    /\ m.turn \in 1 .. turns
    /\ DiffOK(m.diff)
    /\ m.calls \cup m.results \subseteq Nat
    /\ m.calls # {} => m.role = "assistant"
    /\ m.results # {} => m.role = "tool"

(* Nodes replace earlier nodes only, and the floor of the path is a node of  *)
(* the conversation or its end.                                              *)
TurnsTypeOK ==
    /\ \A s \in {thread.path, nodes} : \A n \in 1 .. Len(s) :
         /\ MessageOK(s[n].message)
         /\ s[n].replaces \cup s[n].covers \subseteq 1 .. n - 1
    /\ floor \in 1 .. Len(nodes) + 1
    /\ {thread.rendered, records, turn.next, turn.base} \subseteq Contexts
    /\ turn.at \in {"idle", "step", "asked", "tools", "closed"} /\ turn.step \in 0 .. MaxSteps
    /\ \A m \in Range(turn.transcript) : MessageOK(m)

(* No summary replaces nodes before the first ones of an earlier summary.    *)
SummariesInOrder(ns) ==
    \A m, n \in {i \in 1 .. Len(ns) : ns[i].kind = "compaction"} :
      m < n => \E r \in ns[m].replaces : \A q \in ns[n].replaces : r <= q

(* Whatever steps, failures and compactions came before, a resume from the   *)
(* thread's events has the nodes of the process that stopped, projects the   *)
(* same messages, finds the same continuation at the head and compares with  *)
(* the same render records (ResumeHistoryFromThread, ReplayContextRenders).  *)
(* What failed appends left behind shows only where it was written after all *)
(* (liveThread.Append): the node written last, until the next nodes, and the *)
(* last render, until the next one; a compaction among it moves the floor of *)
(* every later resume. Nodes whose failed write is made good by the next     *)
(* append stand on the file twice, and the thread cannot be resumed at all.  *)
(* Apart from that only the order of the summaries may differ, although      *)
(* docs/architecture/safety-compaction-usage.md:211 has sessions "still      *)
(* replay compacted memory correctly after resume": the floor of a resume is *)
(* that of the last compaction alone and may fall back to the root, from     *)
(* where the next compaction replaces again what earlier ones had; whether   *)
(* its summary comes before theirs then depends on the floor.                *)
ResumeRebuilds ==
    LET resumedFloor == ResumedFloor(thread.path, thread.compacted)
        resumed == Messages(thread.path, resumedFloor)
        running == Messages(nodes, floor)
        besides(ms) == SelectSeq(ms, LAMBDA m : m.role # "summary")
    IN turn.at # "closed" =>
         /\ "head" \notin thread.astray => /\ thread.path = [n \in 1 .. Len(nodes) |-> ThreadEvent(nodes[n])]
                                           /\ ContinuationsAtHead(thread.path) = ContinuationsAtHead(nodes)
         /\ thread.astray \cap {"head", "floor"} = {} =>
              /\ besides(resumed) = besides(running)
              /\ Range(ProjectItems(thread.path, resumedFloor)) = Range(ProjectItems(nodes, floor))
              /\ SummariesInOrder(nodes) => resumed = running
         /\ "records" \notin thread.astray => thread.rendered = records

(* Messages, nodes and the floor are well formed (TurnsTypeOK), and in a     *)
(* request that replays the history every tool call is answered by the       *)
(* message after it and every result answers a call, also where a compaction *)
(* has cut between the two (NormalizeItems).                                 *)
ReplayedRequestsArePaired ==
    /\ TurnsTypeOK
    /\ turn.at = "asked" /\ ContinuationsAtHead(nodes) = <<>> =>
      \A i \in 1 .. Len(turn.view) :
        /\ turn.view[i].calls # {} =>
             i < Len(turn.view) /\ turn.view[i + 1].results = turn.view[i].calls
        /\ turn.view[i].results # {} =>
             i > 1 /\ turn.view[i - 1].calls = turn.view[i].results

(* A request that continues a response does so from a state of the provider  *)
(* in which it has seen nothing but this branch: each message it keeps under *)
(* the id is one of the projected history, never of a turn that failed nor   *)
(* one that was compacted since (ContinuationAtBranchHead), unless a failed  *)
(* compaction has reached the file, whose floor a resume takes over with no  *)
(* summary on the path. That it has seen all of them is not claimed: of a    *)
(* turn of several steps the first id is used. Context is not compared: a    *)
(* commentary message gets the next diff put in front of it after the        *)
(* provider has sent it.                                                     *)
ContinuationIsOfThisHistory ==
    LET plain(ms) == {[m EXCEPT !.diff = NoDiff] : m \in Range(ms)}
    IN turn.at = "asked" /\ ContinuationsAtHead(nodes) # <<>> /\ "floor" \notin thread.astray =>
         plain(Head(ContinuationsAtHead(nodes))) \subseteq plain(Messages(nodes, floor))

(* What the nodes last say of a fragment. *)
Told(ns, f) ==
    LET telling == {n \in 1 .. Len(ns) : f \in DOMAIN ns[n].message.diff}
    IN IF telling = {} THEN Absent
       ELSE ns[CHOOSE n \in telling : \A m \in telling : m <= n].message.diff[f]

(* When a turn puts its messages into the history, completed or recovered,   *)
(* they tell of each fragment whose record it changed what the record says,  *)
(* over all of its steps (RunTurn, transcript = stepReq.Messages).           *)
TurnKeepsItsContext ==
    [][turn.at # "idle" /\ Len(nodes') > Len(nodes) /\ thread'.path # thread.path =>
         \A f \in Fragments : records'[f] # turn.base[f] =>
           Told(SubSeq(nodes', Len(nodes) + 1, Len(nodes')), f) = records'[f]]_vars

(* "It generates an LLM summary of older messages ..., then replaces them    *)
(* with a single compaction node": each message a compaction takes out of    *)
(* the projection was part of what a summary was written from                *)
(* (CompactWithOptions).                                                     *)
SummaryCoversReplaced ==
    \A n \in 1 .. Len(nodes) :
      nodes[n].replaces \subseteq UNION {nodes[m].covers : m \in 1 .. n}
=============================================================================
