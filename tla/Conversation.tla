----------------------------- MODULE Conversation -----------------------------
(***************************************************************************)
(* The conversation package and the parts of runtime.History that compute  *)
(* from it: the nodes of one branch, the path above the compaction floor,  *)
(* the items and messages projected from it, and the nodes a compaction    *)
(* replaces.                                                               *)
(*                                                                         *)
(* The branch is the sequence of its nodes from the root to the head, and  *)
(* a node's id is its position: every InsertNode of a history hangs the    *)
(* new node under the head. A floor of 1 is no floor.                      *)
(***************************************************************************)
EXTENDS Integers, Sequences, FiniteSets

LOCAL INSTANCE SequencesExt
LOCAL INSTANCE FiniteSetsExt

(* A message. turn stands for its text, diff for the <system-context> block  *)
(* put in front of it (the fragments it names and their contents), calls and *)
(* results for the ids of tool calls.                                        *)
NoDiff == <<>>

Message(role, turn, diff, calls, results) ==
    [role |-> role, turn |-> turn, diff |-> diff, calls |-> calls, results |-> results]

(* The payloads of a node: MessageEvent, AssistantTurnEvent with the          *)
(* provider continuations of its turn, and CompactionEvent. covers is not in  *)
(* the code: the nodes whose messages the summary was written from.           *)
MessageEvent(m) ==
    [kind |-> "message", message |-> m, continuations |-> <<>>, replaces |-> {}, covers |-> {}]
AssistantTurnEvent(m, conts) ==
    [kind |-> "assistant", message |-> m, continuations |-> conts, replaces |-> {}, covers |-> {}]
CompactionEvent(m, replaces, covers) ==
    [kind |-> "compaction", message |-> m, continuations |-> <<>>,
     replaces |-> replaces, covers |-> covers]

(* What a payload is after a round through the thread's events: an assistant *)
(* message is written and read as an assistant turn, whatever it was.        *)
ThreadEvent(node) ==
    IF node.kind = "message" /\ node.message.role = "assistant"
    THEN AssistantTurnEvent(node.message, <<>>)
    ELSE node

-----------------------------------------------------------------------------
(* Tree.Path: the ids from the floor to the head. *)
Path(nodes, floor) == [i \in 1 .. Len(nodes) - floor + 1 |-> floor + i - 1]

Replaced(nodes, floor) == UNION {nodes[n].replaces : n \in floor .. Len(nodes)}

(* Mutant: a summary whose nodes are off the path stays where it was written. *)
PlaceCompactionLast(nodes, floor, n) ==
    LET onPath == {r \in nodes[n].replaces : r \in floor .. n}
    IN IF onPath # {} THEN Min(onPath) ELSE n

(* Where the summary of compaction n stands: at the first replaced node of   *)
(* the path, or at its beginning when the floor cut all of them off.         *)
PlaceCompaction(nodes, floor, n) ==
    LET onPath == {r \in nodes[n].replaces : r \in floor .. n}
    IN CASE onPath # {} -> Min(onPath)
         [] onPath = {} /\ nodes[n].replaces # {} -> floor
         [] OTHER -> n

(* ProjectItems: the ids of the path in the order they are projected. *)
ProjectItems(nodes, floor) ==
    LET path == Path(nodes, floor)
        compactions == {n \in Range(path) : nodes[n].kind = "compaction"}
        placedAt(i) == SetToSortSeq({n \in compactions : PlaceCompaction(nodes, floor, n) = i}, <)
        kept(i) == IF i \in compactions \cup Replaced(nodes, floor) THEN <<>> ELSE <<i>>
    IN FlattenSeq([i \in 1 .. Len(path) |-> placedAt(path[i]) \o kept(path[i])])

-----------------------------------------------------------------------------
(* NormalizeItems on messages: a call counts where it first occurs, a result *)
(* where it first answers a call made before it; a tool message left without *)
(* results is dropped, and a call nobody answers gets a result that says so. *)
KeptCalls(ms, i) == {c \in ms[i].calls : \A j \in 1 .. i - 1 : c \notin ms[j].calls}

Answers(ms, i) == {c \in ms[i].results : \E j \in 1 .. i - 1 : c \in ms[j].calls}

(* Mutant: results are passed on whether or not their call is there. *)
KeptResultsAll(ms, i) == ms[i].results

KeptResults(ms, i) == {c \in Answers(ms, i) : \A j \in 1 .. i - 1 : c \notin Answers(ms, j)}

Unanswered(ms, i) ==
    {c \in KeptCalls(ms, i) : \A j \in i + 1 .. Len(ms) : c \notin Answers(ms, j)}

NormalizeMessage(ms, i) ==
    LET m == [ms[i] EXCEPT !.calls = KeptCalls(ms, i), !.results = KeptResults(ms, i)]
        missing == Unanswered(ms, i)
    IN CASE m.role = "tool" /\ m.results = {} -> <<>>
         [] missing # {} -> <<m, Message("tool", m.turn, NoDiff, {}, missing)>>
         [] OTHER -> <<m>>

(* MessagesFromItems *)
Normalize(ms) == FlattenSeq([i \in 1 .. Len(ms) |-> NormalizeMessage(ms, i)])

MessagesOf(nodes, ids) == [i \in 1 .. Len(ids) |-> nodes[ids[i]].message]

(* History.Messages *)
Messages(nodes, floor) == Normalize(MessagesOf(nodes, ProjectItems(nodes, floor)))

-----------------------------------------------------------------------------
(* setCompactionFloor: the first node of the path that is not replaced. *)
CompactionFloor(nodes, floor, replaced) ==
    LET left == (floor .. Len(nodes)) \ replaced
    IN IF left = {} THEN floor ELSE Min(left)

(* The floor after ResumeHistoryFromThread: that of the last compaction on   *)
(* the thread, which replaces the given nodes, on the path from the root.    *)
ResumedFloor(nodes, replaced) == IF replaced = {} THEN 1 ELSE CompactionFloor(nodes, 1, replaced)

(* selectCompactionNodes: all but the last keep nodes of the path; earlier   *)
(* compactions are never replaced.                                           *)
SelectCompactionNodes(nodes, floor, keep) ==
    {n \in floor .. Len(nodes) - keep : nodes[n].kind # "compaction"}

(* compactionSummarizeMessages: all but the last keep messages, given by the *)
(* nodes they come from. A summary among them carries what it covers.        *)
Summarized(nodes, floor, keep) ==
    LET ids == ProjectItems(nodes, floor)
        ms == MessagesOf(nodes, ids)
        kept == SelectSeq([i \in 1 .. Len(ids) |-> i], LAMBDA i : NormalizeMessage(ms, i) # <<>>)
        upTo == {ids[kept[i]] : i \in 1 .. Len(kept) - keep}
    IN upTo \cup UNION {nodes[n].covers : n \in upTo}

(* Mutant: the newest continuation of the branch, as ContinuationAtHead. *)
ContinuationsOnPath(nodes) ==
    LET with == {n \in 1 .. Len(nodes) : nodes[n].continuations # <<>>}
    IN IF with = {} THEN <<>> ELSE nodes[Max(with)].continuations

(* ContinuationAtBranchHead: the first continuation of the head. *)
ContinuationsAtHead(nodes) == IF nodes = <<>> THEN <<>> ELSE nodes[Len(nodes)].continuations
=============================================================================
