------------------------------ MODULE ToolData ------------------------------
(***************************************************************************)
(* What tools leave behind: results that are written to a session file and *)
(* read again (tool/result.go), the set of active tools and the tools that *)
(* manage it (toolactivation, tools/toolmgmt), todo lists (tools/todo) and *)
(* the usage tracker (usage).  Every operation runs under one lock and is  *)
(* a function of the state before it, except for tools_activate, which     *)
(* takes the manager's lock three times and is a function of the three     *)
(* states it finds; histories are sequences of calls.                      *)
(***************************************************************************)
EXTENDS Integers, FiniteSets
LOCAL INSTANCE Sequences
LOCAL INSTANCE SequencesExt
LOCAL INSTANCE FiniteSetsExt
LOCAL INSTANCE Functions

----------------------------------------------------------------------------
(* Results: a text [type, content, isError], blocks [type, isError, blocks, *)
(* display], or a tool's own type of result, of which only the type matters *)
(* here.  A block is [type, fields]; a field's zero value is "".  JSON is a *)
(* function from keys to values.                                            *)

\* The fields of each kind of block the model sees, and the key MarshalJSON
\* writes each one under; the data of an image is not written.
llmKeys ==
  [text |-> [Content |-> "content"],
   code |-> [Lang |-> "lang", Content |-> "content"],
   table |-> [Headers |-> "headers", Rows |-> "rows"],
   list |-> [Items |-> "items"],
   section |-> [Title |-> "title", Content |-> "content"],
   attrs |-> [Attrs |-> "attrs"],
   image |-> [Alt |-> "alt", MediaType |-> "media_type", Data |-> ""]]
\* ... and of the blocks that are only displayed.
displayKeys ==
  [diff |-> [Path |-> "path", UnifiedDiff |-> "unified_diff", Added |-> "added", Removed |-> "removed"],
   command |-> [Command |-> "command", Workdir |-> "workdir", Stdout |-> "stdout", Stderr |-> "stderr",
                ExitCode |-> "exit_code", Duration |-> "duration", TimedOut |-> "timed_out"],
   file |-> [Path |-> "path", Content |-> "content", StartLine |-> "start_line", EndLine |-> "end_line",
             TotalLines |-> "total_lines", Truncated |-> "truncated"]]
keysOf(type) == IF type \in DOMAIN llmKeys THEN llmKeys[type] ELSE displayKeys[type]
omitempty == {"lang", "alt", "media_type", "workdir", "stdout", "stderr", "timed_out", "truncated"}

\* The key Unmarshal accepts for a field: its tag, or its name in any case; the
\* image's MediaType has no tag and is not "media_type".
readKey(type, field) ==
  CASE type \in DOMAIN displayKeys -> displayKeys[type][field]
    [] field = "MediaType" -> "mediatype"
    [] field = "Data" -> "data"
    [] OTHER -> llmKeys[type][field]

RECURSIVE marshalResult(_), decodeResult(_)

marshalBlock(b) ==
  LET keys    == keysOf(b.type)
      Written == {f \in DOMAIN keys : /\ keys[f] # ""
                                      /\ keys[f] \in omitempty => b.fields[f] # ""}
      FieldOf(key) == CHOOSE f \in Written : keys[f] = key
      Value(f) == IF b.type = "section" /\ f = "Content" THEN marshalResult(b.fields[f]) ELSE b.fields[f]
  IN [type |-> b.type, json |-> [key \in {keys[f] : f \in Written} |-> Value(FieldOf(key))]]

\* MarshalJSON of TextResult, of BlocksResult and of the tools' own results.
marshalResult(r) ==
  CASE r.type = "text" -> [type |-> "text", json |-> [content |-> r.content, is_error |-> r.isError]]
    [] r.type = "blocks" ->
         [type |-> r.type, isError |-> r.isError,
          blocks |-> [i \in DOMAIN r.blocks |-> marshalBlock(r.blocks[i])],
          display |-> [i \in DOMAIN r.display |-> marshalBlock(r.display[i])]]
    [] OTHER -> [type |-> r.type]

decodeBlock(raw) ==
  LET Value(f) == LET key == readKey(raw.type, f)
                  IN IF key \notin DOMAIN raw.json THEN ""
                     ELSE IF raw.type = "section" /\ f = "Content" THEN decodeResult(raw.json[key])
                     ELSE raw.json[key]
  IN [type |-> raw.type, fields |-> [f \in DOMAIN keysOf(raw.type) |-> Value(f)]]

\* Mutant: the display blocks are forgotten.
decodeBlocksResultLLM(raw) ==
  [type |-> "blocks", isError |-> raw.isError,
   blocks |-> [i \in DOMAIN raw.blocks |-> decodeBlock(raw.blocks[i])], display |-> <<>>]

decodeBlocksResult(raw) ==
  [type |-> "blocks", isError |-> raw.isError,
   blocks |-> [i \in DOMAIN raw.blocks |-> decodeBlock(raw.blocks[i])],
   display |-> [i \in DOMAIN raw.display |-> decodeBlock(raw.display[i])]]

decodeTextResult(raw) ==
  [type |-> "text", content |-> raw.json["content"], isError |-> raw.json["is_error"]]

\* Decode: only these two types are registered; no result is an error.
decodeResult(raw) == IF raw.type = "text" THEN decodeTextResult(raw) ELSE decodeBlocksResult(raw)
Decode(raw) == IF raw.type \in {"text", "blocks"} THEN {decodeResult(raw)} ELSE {}

\* ResultBuilder: calls in any order.
Build(calls) ==
  FoldLeft(LAMBDA r, call : CASE call.op = "error" -> [r EXCEPT !.isError = TRUE]
                              [] call.op = "display" -> [r EXCEPT !.display = Append(@, call.block)]
                              [] OTHER -> [r EXCEPT !.blocks = Append(@, call.block)],
           [type |-> "blocks", isError |-> FALSE, blocks |-> <<>>, display |-> <<>>], calls)

\* A result without what is lost on the way to a session file and back: the
\* data and the media type of images.
RECURSIVE WithoutImages(_)
WithoutImages(r) ==
  LET Less(b) == CASE b.type = "image" -> [b EXCEPT !.fields.Data = "", !.fields.MediaType = ""]
                   [] b.type = "section" -> [b EXCEPT !.fields.Content = WithoutImages(@)]
                   [] OTHER -> b
  IN [r EXCEPT !.blocks = [i \in DOMAIN @ |-> Less(@[i])]]

\* What of a result comes back from a session file.  A text comes back as it
\* was, and blocks with every field of every block, also nested ones and those
\* that are only displayed, but for images: their data is not written (which a
\* comment intends), and their media type is written and not read again (which
\* "a type tag for round-trip decoding" does not tell).  A result of a tool's
\* own type (todo_item, tools_list, ...) is refused, although MarshalJSON is
\* there "so tool results survive process restarts and session resumption"
\* (MarshalJSON and Decode of tool/result.go).
ResultSurvives(r) ==
  Decode(marshalResult(r)) = CASE r.type = "text" -> {r}
                               [] r.type = "blocks" -> {WithoutImages(r)}
                               [] OTHER -> {}

----------------------------------------------------------------------------
(* Activation of tools: [all, active].  matches[pattern] are the names a glob *)
(* pattern matches (filepath.Match).                                          *)

NoTools == [all |-> <<>>, active |-> {}]
Register(m, tools) ==
  FoldLeft(LAMBDA acc, name : IF name \in Range(acc.all) THEN acc
                              ELSE [all |-> Append(acc.all, name), active |-> acc.active \cup {name}],
           m, tools)
ActiveTools(m) == SelectSeq(m.all, LAMBDA name : name \in m.active)
Matched(patterns, matches) == UNION {matches[p] : p \in Range(patterns)}
Activate(m, patterns, matches) ==
  LET names == SelectSeq(m.all, LAMBDA n : n \in Matched(patterns, matches) /\ n \notin m.active)
  IN [m |-> [m EXCEPT !.active = @ \cup Range(names)], names |-> names]
Deactivate(m, patterns, matches) ==
  LET names == SelectSeq(m.all, LAMBDA n : n \in Matched(patterns, matches) /\ n \in m.active)
  IN [m |-> [m EXCEPT !.active = @ \ Range(names)], names |-> names]

toolsList(m) == [active |-> ActiveTools(m), inactive |-> SelectSeq(m.all, LAMBDA n : n \notin Range(ActiveTools(m)))]

\* The order of first occurrence, without repetitions.
Unique(s) == FoldLeft(LAMBDA acc, x : IF x \in Range(acc) THEN acc ELSE Append(acc, x), <<>>, s)

\* Mutant: the active tools are read after the activation.
toolsActivateStale(m1, m2, m3, patterns, matches) ==
  LET done    == Activate(m3, patterns, matches)
      already == FlattenSeq([i \in DOMAIN patterns |->
                   SelectSeq(m1.all, LAMBDA n : n \in matches[patterns[i]] /\ n \in done.m.active)])
  IN [m |-> done.m, activated |-> done.names, already |-> Unique(already),
      notFound |-> SelectSeq(patterns, LAMBDA p : matches[p] \cap Range(m1.all) = {})]

\* tools_activate: all tools as of m1, the active ones as of m2, and the
\* activation in m3.
toolsActivate(m1, m2, m3, patterns, matches) ==
  LET already == FlattenSeq([i \in DOMAIN patterns |->
                   SelectSeq(m1.all, LAMBDA n : n \in matches[patterns[i]] /\ n \in Range(ActiveTools(m2)))])
      done    == Activate(m3, patterns, matches)
  IN [m |-> done.m, activated |-> done.names, already |-> Unique(already),
      notFound |-> SelectSeq(patterns, LAMBDA p : matches[p] \cap Range(m1.all) = {})]

\* A call of the manager or of its tools, in a history.
ManagerCall(m, call, matches) ==
  CASE call.op = "register" -> Register(m, call.names)
    [] call.op = "activate" -> toolsActivate(m, m, m, call.names, matches).m
    [] OTHER -> Deactivate(m, call.names, matches).m
ManagerAfter(m, history, matches) ==
  FoldLeft(LAMBDA acc, call : ManagerCall(acc, call, matches), m, history)

\* After any history of registrations, activations and deactivations, what
\* tools_activate reports is what it did: the activated names are those that
\* became active, everything that matches is active afterwards, a pattern is
\* not found if it matches no tool, tools_list lists each tool once, and undoing
\* the call by name restores the set.  If no other call (between1, between2)
\* comes in between its three lock sections, the activated and the already
\* active names are also disjoint and together all that match (tools/toolmgmt
\* over Manager).
ActivationReported(history, between1, between2, patterns, matches) ==
  LET m1  == ManagerAfter(NoTools, history, matches)
      m2  == ManagerAfter(m1, between1, matches)
      m3  == ManagerAfter(m2, between2, matches)
      rep == toolsActivate(m1, m2, m3, patterns, matches)
      all == Range(m3.all)
      Exactly(names) == [n \in names |-> {n}]
  IN /\ Range(rep.activated) = rep.m.active \ m3.active
     /\ all \cap Matched(patterns, matches) \subseteq rep.m.active
     /\ IsInjective(rep.activated) /\ IsInjective(rep.already)
     /\ \A p \in Range(patterns) : p \in Range(rep.notFound) <=> matches[p] \cap Range(m1.all) = {}
     /\ Deactivate(rep.m, rep.activated, Exactly(all)).m = m3
     /\ ToSet(toolsList(rep.m).active \o toolsList(rep.m).inactive) = all
     /\ IsInjective(toolsList(rep.m).active \o toolsList(rep.m).inactive)
     /\ between1 \o between2 = <<>> =>
          /\ Range(rep.activated) \cup Range(rep.already) = all \cap Matched(patterns, matches)
          /\ Range(rep.activated) \cap Range(rep.already) = {}

----------------------------------------------------------------------------
(* Todo lists: a store [todos, next] per session.  A call's title is "" if  *)
(* not given and " " if blank; done is none or one value.                   *)

EmptyTodos == [todos |-> <<>>, next |-> 1]
sessionStore(sessions, id) ==
  LET key == IF id = "" THEN "default" ELSE id
  IN IF key \in DOMAIN sessions THEN sessions[key] ELSE EmptyTodos
Stored(sessions, id, s) ==
  LET key == IF id = "" THEN "default" ELSE id
  IN [k \in DOMAIN sessions \cup {key} |-> IF k = key THEN s ELSE sessions[k]]
Blank(title) == title \in {"", " "}

\* Mutant: a new todo is numbered by the length of the list.
todoCreateByLength(s, p) ==
  IF Blank(p.title) THEN s
  ELSE [todos |-> Append(s.todos, [id |-> Len(s.todos) + 1, title |-> p.title, done |-> FALSE]),
        next |-> s.next + 1]

todoCreate(s, p) ==
  IF Blank(p.title) THEN s
  ELSE [todos |-> Append(s.todos, [id |-> s.next, title |-> p.title, done |-> FALSE]), next |-> s.next + 1]

\* update: a blank title is refused, also beside a value for done.
todoUpdate(s, p) ==
  IF p.id <= 0 \/ (Blank(p.title) /\ p.done = {}) \/ p.title = " " THEN s
  ELSE [s EXCEPT !.todos = [i \in DOMAIN @ |->
          IF @[i].id # p.id THEN @[i]
          ELSE [@[i] EXCEPT !.title = IF Blank(p.title) THEN @ ELSE p.title,
                            !.done = IF p.done = {} THEN @ ELSE CHOOSE d \in p.done : TRUE]]]

todoDelete(s, p) == [s EXCEPT !.todos = SelectSeq(@, LAMBDA t : t.id # p.id)]

\* The handler of the todo tool.
todoTool(sessions, id, p) ==
  LET s == sessionStore(sessions, id)
  IN Stored(sessions, id, CASE p.action = "create" -> todoCreate(s, p)
                            [] p.action = "update" -> todoUpdate(s, p)
                            [] p.action = "delete" -> todoDelete(s, p)
                            [] OTHER -> s)

\* The nth todo of a session is the one its nth successful create made, as later
\* updates of that number left it, until a delete of that number: no number is
\* used twice, and no session sees the calls of another (todoTool).
TodosAreTheCalls(calls) ==
  LET sessions == FoldLeft(LAMBDA acc, c : todoTool(acc, c.session, c), <<>>, calls)
      Key(c) == IF c.session = "" THEN "default" ELSE c.session
  IN \A key \in DOMAIN sessions :
       LET mine    == SelectSeq(calls, LAMBDA c : Key(c) = key)
           creates == SelectSeq([i \in DOMAIN mine |-> i],
                                LAMBDA i : mine[i].action = "create" /\ ~Blank(mine[i].title))
           Later(n, action) == {i \in DOMAIN mine : i > creates[n] /\ mine[i].id = n /\ mine[i].action = action}
           Sets(n) == {i \in Later(n, "update") : mine[i].title # " "}
           Titles(n) == {creates[n]} \cup {i \in Sets(n) : ~Blank(mine[i].title)}
           Dones(n) == {i \in Sets(n) : mine[i].done # {}}
           Todo(n) == [id |-> n, title |-> mine[Max(Titles(n))].title,
                       done |-> Dones(n) # {} /\ mine[Max(Dones(n))].done = {TRUE}]
           alive   == SelectSeq([n \in DOMAIN creates |-> n], LAMBDA n : Later(n, "delete") = {})
       IN sessions[key].todos = [i \in DOMAIN alive |-> Todo(alive[i])]

----------------------------------------------------------------------------
(* Usage: a sequence of records [estimate, request, turn, provider, model,  *)
(* tokens, costs]; tokens and costs are functions from kinds to amounts.    *)
(* A model's name is a sequence of the parts between slashes.               *)

NonZero(items) == [k \in {k \in DOMAIN items : items[k] # 0} |-> items[k]]

ProviderAndModel(identity, route, fallback) ==
  LET provider1 == IF identity.provider # "" THEN identity.provider ELSE route.provider
      model1    == IF identity.model # <<>> THEN identity.model
                   ELSE IF route.model # <<>> THEN route.model ELSE fallback
      split     == provider1 = "" /\ Len(model1) > 1 /\ model1[1] # ""
      provider  == IF split THEN model1[1] ELSE provider1
      model     == IF split THEN Tail(model1) ELSE model1
  IN [provider |-> provider,
      model |-> IF provider # "" /\ Len(model) > 1 /\ model[1] = provider THEN Tail(model) ELSE model]

\* FromRunnerEvent: the record carries no request.
FromRunnerEvent(ev, route, turn) ==
  LET names == ProviderAndModel(ev.identity, route, ev.model)
  IN [estimate |-> FALSE, request |-> "", turn |-> turn, provider |-> names.provider, model |-> names.model,
      tokens |-> NonZero(ev.tokens), costs |-> NonZero(ev.costs)]

\* Tracker.Record, with a calculator that prices a token at 2 (external) or none.
RecordUsage(records, r, priced) ==
  LET tokens == NonZero(r.tokens)
      costs  == NonZero(r.costs)
  IN Append(records, [r EXCEPT !.tokens = tokens,
                               !.costs = IF costs = <<>> /\ priced THEN [k \in DOMAIN tokens |-> 2 * tokens[k]]
                                         ELSE costs])

Kinds(records, Of(_)) == UNION {DOMAIN Of(r) : r \in Range(records)}
Total(records, Of(_), kind) ==
  FoldLeft(LAMBDA sum, r : sum + (IF kind \in DOMAIN Of(r) THEN Of(r)[kind] ELSE 0), 0, records)
Tokens(r) == r.tokens
Costs(r) == r.costs

\* Merge: sums by kind; the names of the first record that has a provider, else
\* of the last record.
Merge(records) ==
  LET named == SelectSeq(records, LAMBDA r : r.provider # "")
      dims  == IF named # <<>> THEN named[1] ELSE Last(records)
      Sums(Of(_)) == NonZero([k \in Kinds(records, Of) |-> Total(records, Of, k)])
  IN IF records = <<>> THEN [provider |-> "", model |-> <<>>, turn |-> "", tokens |-> <<>>, costs |-> <<>>]
     ELSE [provider |-> dims.provider, model |-> dims.model, turn |-> dims.turn,
           tokens |-> Sums(Tokens), costs |-> Sums(Costs)]

\* Mutant: estimates are counted.
AggregateAll(records) == Merge(records)

Aggregate(records) == Merge(SelectSeq(records, LAMBDA r : ~r.estimate))
AggregateTurn(records, turn) == Merge(SelectSeq(records, LAMBDA r : r.turn = turn /\ ~r.estimate))

\* ComputeDrift: none without an estimate and an actual record; the percentage is
\* none for an estimate of zero.
Input(r) == IF "input" \in DOMAIN r.tokens THEN r.tokens["input"] ELSE 0
ComputeDrift(estimate, actual) ==
  LET delta == Input(actual[1]) - Input(estimate[1])
  IN IF estimate = <<>> \/ actual = <<>> THEN {}
     ELSE {[request |-> actual[1].request, delta |-> delta,
            pct |-> IF Input(estimate[1]) > 0 THEN {(delta * 100) \div Input(estimate[1])} ELSE {}]}
\* Tracker.Drift: the first estimate and the first actual record of a request.
Drift(records, request) ==
  ComputeDrift(SelectSeq(records, LAMBDA r : r.request = request /\ r.estimate),
               SelectSeq(records, LAMBDA r : r.request = request /\ ~r.estimate))
\* Tracker.Drifts: of all requests that have a name, by the time of the actual record.
Drifts(records) ==
  LET actuals == SelectSeq(records, LAMBDA r : r.request # "" /\ ~r.estimate)
      order   == Unique([i \in DOMAIN actuals |-> actuals[i].request])
      drifted == SelectSeq(order, LAMBDA q : Drift(records, q) # {})
  IN [i \in DOMAIN drifted |-> CHOOSE d \in Drift(records, drifted[i]) : TRUE]
DriftStats(records) ==
  LET drifts == Drifts(records)
      rated  == SelectSeq(drifts, LAMBDA d : d.pct # {})
      pcts   == SortSeq([i \in DOMAIN rated |-> CHOOSE x \in rated[i].pct : TRUE], LAMBDA a, b : a < b)
      n      == Len(pcts)
      p95    == (n * 95) \div 100
  IN IF n = 0 THEN [n |-> Len(drifts), stats |-> <<>>]
     ELSE [n |-> Len(drifts),
           stats |-> <<pcts[1], pcts[(n \div 2) + 1], pcts[IF p95 >= n THEN n ELSE p95 + 1], pcts[n]>>]

\* What an agent has used is what its turns and the calls outside turns have
\* used, whatever was estimated: the aggregates of the turns add up to the
\* tracker's by every kind of token and cost, and nothing else has an entry; and
\* the drift statistics are over the requests that have both records, in order
\* (Tracker of usage/usage.go fed by FromRunnerEvent).
UsageAddsUp(records) ==
  LET turns == {r.turn : r \in Range(records)}
      total == Aggregate(records)
      Sum(Of(_), kind) ==
        MapThenSumSet(LAMBDA t : LET a == AggregateTurn(records, t)
                                 IN IF kind \in DOMAIN Of(a) THEN Of(a)[kind] ELSE 0, turns)
      stats == DriftStats(records)
  IN /\ \A kind \in Kinds(records, Tokens) : Sum(Tokens, kind) = Total(<<total>>, Tokens, kind)
     /\ \A kind \in Kinds(records, Costs) : Sum(Costs, kind) = Total(<<total>>, Costs, kind)
     /\ \A kind \in DOMAIN total.tokens : total.tokens[kind] > 0
     /\ stats.n = Cardinality({q \in {r.request : r \in Range(records)} \ {""} :
                     {r.estimate : r \in {x \in Range(records) : x.request = q}} = BOOLEAN})
     /\ \A i, j \in DOMAIN stats.stats : i <= j => stats.stats[i] <= stats.stats[j]

=============================================================================
