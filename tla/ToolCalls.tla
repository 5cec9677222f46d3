----------------------------- MODULE ToolCalls -----------------------------
(***************************************************************************)
(* A call of a tool through its middlewares: the hooks of tools and of     *)
(* actions (tool/middleware.go, action/middleware.go), timeouts (toolmw,   *)
(* actionmw), the risk gate with its assessors (toolmw) and the safety     *)
(* gate with its audit (safety).                                           *)
(*                                                                         *)
(* A tool is [base, layers], an action [layers], with the innermost layer  *)
(* first.  A base is [kind, declares, ops, extra, summary, action]: typed, *)
(* or backed by an action; ops are the operations of its intent, extra the *)
(* analysis that may come with it, summary whether it has a summary.  An   *)
(* input is [object, timeout, args]: whether it is a JSON object, its      *)
(* "timeout" (none, or [parses, secs], where 0 stands for zero or less)    *)
(* and the other arguments, "none" if there is no input.  A context is     *)
(* [deadline, tool, approver, done]; no deadline is 0.  The world of a     *)
(* call, w, is [takes, partial, verdict, summary]: how long the handler    *)
(* takes, whether it gives a part of its result when it is late, and what  *)
(* the risk analyzer answers for the intent and for its summary.           *)
(***************************************************************************)
EXTENDS Integers, FiniteSets
LOCAL INSTANCE Sequences
LOCAL INSTANCE SequencesExt
LOCAL INSTANCE FiniteSetsExt

Outcome(err, isError, data) ==
  [err |-> err, isError |-> isError, data |-> data, label |-> <<>>, runs |-> <<>>, asked |-> 0, audit |-> <<>>,
   events |-> <<>>]

----------------------------------------------------------------------------
(* Timeouts *)

\* OnInput of the tools' TimeoutMiddleware and stripTimeoutFromJSON of the
\* actions': the call's own timeout is taken out of the input; a text that is
\* no duration counts as none.
Requested(input) == input.object /\ input.timeout # {}
Stripped(input) == IF Requested(input) THEN [input EXCEPT !.timeout = {}] ELSE input

Capped(layer, dur) == IF layer.max > 0 /\ dur > layer.max THEN layer.max ELSE dur
Chosen(layer, input) ==
  IF Requested(input) /\ \E t \in input.timeout : t.parses
  THEN (CHOOSE t \in input.timeout : TRUE).secs ELSE layer.default

\* Mutant: the cap is not applied.
TimeoutOfUncapped(layer, input) == Chosen(layer, input)

\* What is no object gets the default as it is.
TimeoutOf(layer, input) == IF ~input.object THEN layer.default ELSE Capped(layer, Chosen(layer, input))

\* extractTimeout: an action's decoded input is not looked into.
ActionTimeoutOf(layer, input, raw) == Capped(layer, IF raw THEN Chosen(layer, input) ELSE layer.default)

\* OnContext: context.WithTimeout keeps an earlier deadline.
WithTimeout(ctx, dur) ==
  IF dur <= 0 THEN ctx
  ELSE [ctx EXCEPT !.deadline = IF @ = 0 \/ dur < @ THEN dur ELSE @]
\* ... and the action's one is no context of a tool any more.
ActionWithTimeout(ctx, dur) ==
  IF dur <= 0 THEN ctx ELSE [WithTimeout(ctx, dur) EXCEPT !.tool = FALSE]

\* OnResult: a deadline error becomes an error result that names the timeout.
TimeoutOnResult(out, dur) ==
  IF out.err # "deadline" THEN out
  ELSE [out EXCEPT !.err = "", !.isError = TRUE, !.label = Append(@, dur)]
\* The action's keeps the error.
ActionTimeoutOnResult(out, dur) ==
  IF out.err # "deadline" THEN out ELSE [out EXCEPT !.label = Append(@, dur)]

----------------------------------------------------------------------------
(* Intents *)

OpaqueIntent == [opaque |-> TRUE, ops |-> <<>>, extra |-> {}, summary |-> FALSE]

\* TypedTool.DeclareIntent: opaque without a declaration or without a parse.
DeclareIntent(base, input) ==
  IF base.kind = "typed" /\ base.declares /\ (input.args = "none" \/ (input.object /\ input.args # "bad"))
  THEN [opaque |-> FALSE, ops |-> base.ops, extra |-> base.extra, summary |-> base.summary]
  ELSE OpaqueIntent

\* OnIntent of the layers, from the inside.
Amended(intent, layers) ==
  FoldLeft(LAMBDA acc, layer : IF layer.kind = "amend" THEN [acc EXCEPT !.ops = Append(@, layer.op)] ELSE acc,
           intent, layers)

\* ExtractIntent: the innermost tool's, amended by every layer around it.
ExtractIntent(t, input) == Amended(DeclareIntent(t.base, input), t.layers)
\* ... and of actions, which may have no operations to declare.
ExtractActionIntent(a) ==
  Amended(IF a.declares THEN [OpaqueIntent EXCEPT !.opaque = FALSE, !.ops = a.ops] ELSE OpaqueIntent,
          a.layers)

----------------------------------------------------------------------------
(* Assessors; a verdict is "fails" when the assessment returns an error, and *)
(* "unknown" for a decision that is none of the four (also an empty one).    *)

opWeight == [read |-> 1, network_read |-> 2, write |-> 4, network_write |-> 5, delete |-> 6,
             execute |-> 5, persistence_modify |-> 7, device_write |-> 8]
localityWeight == [workspace |-> 0, unknown |-> 1, network |-> 2, system |-> 3, sensitive |-> 4, secret |-> 5]
scoreSeverity(op) ==
  LET score == opWeight[op.operation] + localityWeight[op.locality]
  IN IF score > 10 THEN 10 ELSE score

\* Mutant: the last operation decides.
PolicyAssessLast(intent) ==
  LET severity == scoreSeverity(Last(intent.ops))
  IN IF intent.opaque THEN "requires_approval"
     ELSE IF intent.ops = <<>> THEN "allow"
     ELSE IF severity >= 8 THEN "reject" ELSE IF severity >= 5 THEN "requires_approval" ELSE "allow"

\* PolicyAssessor.Assess
PolicyAssess(intent) ==
  LET severity == Max({scoreSeverity(op) : op \in Range(intent.ops)})
  IN IF intent.opaque THEN "requires_approval"
     ELSE IF intent.ops = <<>> THEN "allow"
     ELSE IF severity >= 8 THEN "reject" ELSE IF severity >= 5 THEN "requires_approval" ELSE "allow"

\* mapCmdRiskAssessment: what is no known decision is an allowance.
mapCmdRiskAssessment(verdict) ==
  IF verdict \in {"requires_approval", "reject", "error"} THEN verdict ELSE "allow"

\* CmdRiskAssessor.Assess: an analysis that comes with the intent is used, else
\* that of the operations, else that of the summary, read as a command; what
\* cannot be analyzed needs approval.
CmdRiskAssess(assessor, intent, w) ==
  IF intent.extra # {} THEN mapCmdRiskAssessment(CHOOSE verdict \in intent.extra : TRUE)
  ELSE IF ~assessor.analyzer THEN "requires_approval"
  ELSE IF intent.ops # <<>> /\ w.verdict # "fails" THEN mapCmdRiskAssessment(w.verdict)
  ELSE IF intent.summary /\ w.summary # "fails" THEN mapCmdRiskAssessment(w.summary)
  ELSE "requires_approval"

AssessOne(assessor, intent, w) ==
  CASE assessor.kind = "policy" -> PolicyAssess(intent)
    [] assessor.kind = "cmdrisk" -> CmdRiskAssess(assessor, intent, w)
    [] OTHER -> w.verdict

\* CompositeAssessor.Assess: the first that accepts the intent, or the default.
Assess(assessor, intent, w) ==
  IF assessor.kind # "composite" THEN AssessOne(assessor, intent, w)
  ELSE LET accept == SelectSeq(assessor.assessors, LAMBDA a : intent.opaque \in a.accepts)
       IN IF accept # <<>> THEN AssessOne(accept[1], intent, w)
          ELSE IF assessor.default # <<>> THEN AssessOne(assessor.default[1], intent, w) ELSE "allow"

----------------------------------------------------------------------------
(* Gates *)

\* RiskGate.OnInput: [pass, asked].
GateOnInput(gate, ctx, intent, w) ==
  LET verdict  == Assess(gate.assessor, intent, w)
      approver == IF gate.approver # "none" THEN gate.approver ELSE ctx.approver
  IN IF gate.assessor.kind = "none" THEN [pass |-> TRUE, asked |-> 0]
     ELSE CASE verdict = "fails" -> [pass |-> gate.failOpen, asked |-> 0]
            [] verdict = "requires_approval" ->
                 [pass |-> approver = "yes", asked |-> IF approver = "none" THEN 0 ELSE 1]
            [] verdict \in {"reject", "error"} -> [pass |-> FALSE, asked |-> 0]
            [] OTHER -> [pass |-> TRUE, asked |-> 0]

\* Gate.OnInput of the action: [pass, asked, events]; events are appended to
\* the audit as far as the context is not done.
SafetyOnInput(gate, ctx, intent, w) ==
  LET verdict == Assess(gate.assessor, intent, w)
      R(pass, asked, events) == [pass |-> pass, asked |-> asked, events |-> events]
  IN IF gate.assessor.kind = "none" THEN R(TRUE, 0, <<>>)
     ELSE CASE verdict = "fails" -> R(gate.failOpen, 0, <<"errored">>)
            [] verdict = "allow" -> R(TRUE, 0, <<"assessed", "allowed">>)
            [] verdict = "requires_approval" ->
                 (CASE gate.approver = "none" -> R(FALSE, 0, <<"assessed", "denied">>)
                    [] gate.approver = "error" -> R(FALSE, 1, <<"assessed", "errored">>)
                    [] gate.approver = "no" -> R(FALSE, 1, <<"assessed", "rejected">>)
                    [] OTHER -> R(TRUE, 1, <<"assessed", "approved">>))
            [] verdict = "reject" -> R(FALSE, 0, <<"assessed", "rejected">>)
            [] verdict = "error" -> R(FALSE, 0, <<"assessed", "errored">>)
            [] OTHER -> R(TRUE, 0, <<"assessed">>)
\* AppendSafetyEvent; its error is dropped.
Audited(ctx, events) == IF ctx.done THEN <<>> ELSE events

----------------------------------------------------------------------------
(* Execution *)

\* The handler of a tool or an action (external): late ones fail.
Handler(ctx, input, w) ==
  LET late == ctx.deadline # 0 /\ w.takes > ctx.deadline
      out  == Outcome(IF late THEN "deadline" ELSE "", FALSE, IF late /\ ~w.partial THEN "" ELSE "data")
  IN [out EXCEPT !.runs = <<[args |-> input.args, timeout |-> input.timeout, deadline |-> ctx.deadline]>>]

\* TypedTool.Execute: no input runs with the zero value.
TypedExecute(ctx, input, w) ==
  IF input.args # "none" /\ (~input.object \/ input.args = "bad" \/ input.timeout # {})
  THEN Outcome("invalid", TRUE, "") ELSE Handler(ctx, input, w)

RECURSIVE ActionExecute(_, _, _, _, _), Execute(_, _, _, _)

\* hookedAction.Execute; raw is whether the input is still JSON.  An action made
\* of a tool by ToAction needs the context of a tool.
ActionExecute(a, ctx, input, raw, w) ==
  IF a.layers = <<>>
  THEN IF a.tool = {} THEN Handler(ctx, input, w)
       ELSE IF ~ctx.tool THEN Outcome("context", TRUE, "")
       ELSE Execute(CHOOSE t \in a.tool : TRUE, ctx, input, w)
  ELSE LET layer == Last(a.layers)
           inner == [a EXCEPT !.layers = Front(@)]
       IN CASE layer.kind = "timeout" ->
                 LET dur == ActionTimeoutOf(layer, input, raw)
                 IN ActionTimeoutOnResult(
                      ActionExecute(inner, ActionWithTimeout(ctx, dur),
                                    IF raw THEN Stripped(input) ELSE input, raw, w), dur)
            [] layer.kind = "safety" ->
                 LET gate == SafetyOnInput(layer, ctx, ExtractActionIntent(inner), w)
                     out  == IF gate.pass THEN ActionExecute(inner, ctx, input, raw, w)
                             ELSE [Outcome("refused", TRUE, "") EXCEPT !.events = <<Last(gate.events)>>]
                 IN [out EXCEPT !.audit = Audited(ctx, gate.events) \o @,
                                !.asked = gate.asked + @,
                                !.events = IF out.err = "" /\ Len(gate.events) = 2
                                           THEN <<gate.events[2]>> \o @ ELSE @]
            [] OTHER -> ActionExecute(inner, ctx, input, raw, w)

\* actionTool.Execute and defaultActionResultMapper: the input is decoded before
\* the action's layers see it, unless the action is untyped; an action's error
\* is an error result.
ActionToolExecute(base, ctx, input, w) ==
  LET out == ActionExecute(base.action, ctx, input, base.action.untyped, w)
  IN IF ~base.action.untyped /\ input.args # "none" /\ (~input.object \/ input.args = "bad" \/ input.timeout # {})
     THEN Outcome("invalid", TRUE, "")
     ELSE IF out.err = "" THEN out ELSE [out EXCEPT !.err = "", !.isError = TRUE]

\* hookedTool.Execute
Execute(t, ctx, input, w) ==
  IF t.layers = <<>>
  THEN IF t.base.kind = "typed" THEN TypedExecute(ctx, input, w) ELSE ActionToolExecute(t.base, ctx, input, w)
  ELSE LET layer == Last(t.layers)
           inner == [t EXCEPT !.layers = Front(@)]
       IN CASE layer.kind = "timeout" ->
                 LET dur == TimeoutOf(layer, input)
                 IN TimeoutOnResult(Execute(inner, WithTimeout(ctx, dur), Stripped(input), w), dur)
            [] layer.kind = "gate" ->
                 LET gate == GateOnInput(layer, ctx, ExtractIntent(inner, input), w)
                     out  == IF gate.pass THEN Execute(inner, ctx, input, w) ELSE Outcome("", TRUE, "")
                 IN [out EXCEPT !.asked = gate.asked + @]
            [] OTHER -> Execute(inner, ctx, input, w)

----------------------------------------------------------------------------
(* Properties *)

Positions(t, kind) == {i \in DOMAIN t.layers : t.layers[i].kind = kind}

\* However timeouts are stacked, by the tool's middlewares, by the call's own
\* "timeout" and by the caller's context, the handler never gets more time than
\* any of them allows, never sees the argument, and when it is late the caller
\* gets an error result: the deadline's error does not escape (OnInput, OnContext
\* and OnResult of toolmw/timeout.go under hookedTool.Execute).  There are two
\* exceptions to what TimeoutMiddleware.Max calls "the hard cap": a requested
\* timeout of zero or less switches the outermost layer's timeout off, cap and
\* all, and the cap does not bind the default of a call without an object.
TimeoutsHold(t, ctx, input, w) ==
  LET out    == Execute(t, ctx, input, w)
      layers == Positions(t, "timeout")
      asked  == Requested(input) /\ \E d \in input.timeout : d.parses
      secs   == (CHOOSE d \in input.timeout : TRUE).secs
      Outer(i) == \A j \in layers : j <= i
  IN \A r \in Range(out.runs) :
       /\ \A i \in layers : (t.layers[i].max > 0 /\ input.object /\ (Outer(i) => ~asked \/ secs > 0)) =>
                               r.deadline \in 1..t.layers[i].max
       /\ \A i \in layers : (Outer(i) => ~asked) => r.deadline \in 1..t.layers[i].default
       /\ (asked /\ layers # {} /\ secs > 0) => r.deadline \in 1..secs
       /\ ctx.deadline # 0 => r.deadline \in 1..ctx.deadline
       /\ layers # {} => (input.object => r.timeout = {})
       /\ (layers # {} /\ r.deadline # 0 /\ w.takes > r.deadline) =>
            /\ out.err = "" /\ out.isError
            /\ t.base.kind = "typed" => Len(out.label) = 1
            /\ w.partial => (t.base.kind = "typed" => out.data = "data")

\* What an intent deserves under the policy, from its worst operation.
Deserves(assessor, intent, w) ==
  LET verdict == Assess(assessor, intent, w)
  IN IF assessor.kind # "policy" THEN verdict
     ELSE CASE intent.opaque -> "requires_approval"
            [] ~intent.opaque /\ (\E i \in DOMAIN intent.ops : scoreSeverity(intent.ops[i]) >= 8) -> "reject"
            [] ~intent.opaque /\ (\A i \in DOMAIN intent.ops : scoreSeverity(intent.ops[i]) < 5) -> "allow"
            [] OTHER -> "requires_approval"

\* A tool's handler runs once or not at all, and only if every gate around it
\* allowed the call for what the layers inside the gate say it does, or was given
\* approval, or may let a failed assessment pass, or got a decision it does not
\* know, which lets the call pass without anybody having allowed it; otherwise
\* the caller gets an error result.  An approver is asked once per gate that
\* needs approval (RiskGate.OnInput with its default branch over ExtractIntent,
\* at any depth of hookedTool.Execute).
GatesHold(t, ctx, input, w) ==
  LET out     == Execute(t, ctx, input, w)
      gates   == {i \in Positions(t, "gate") : t.layers[i].assessor.kind # "none"}
      Below(i) == [t EXCEPT !.layers = SubSeq(@, 1, i - 1)]
      Verdict(i) == Deserves(t.layers[i].assessor, ExtractIntent(Below(i), input), w)
      Approver(i) == IF t.layers[i].approver # "none" THEN t.layers[i].approver ELSE ctx.approver
      Cleared(i) == \/ Verdict(i) = "allow"
                    \/ Verdict(i) = "requires_approval" /\ Approver(i) = "yes"
                    \/ Verdict(i) = "fails" /\ t.layers[i].failOpen
                    \/ Verdict(i) = "unknown"
  IN /\ Len(out.runs) <= 1
     /\ out.runs # <<>> => \A i \in gates : Cleared(i)
     /\ (\E i \in gates : ~Cleared(i)) => (out.isError /\ out.err = "")
     /\ t.base.kind = "typed" =>
          out.asked <= Cardinality({i \in gates : Verdict(i) = "requires_approval" /\ Approver(i) # "none"})

\* The audit of a safety gate tells what became of the call: when the handler
\* ran, the last event allowed or approved it, or recorded an assessment that
\* failed under FailOpen, or is the bare assessment of a decision the gate does
\* not know; when it did not run, the last event is neither an allowance nor an
\* approval nor a bare assessment; and a successful result carries the decision
\* (Gate.OnInput and OnResult of safety/safety.go under hookedAction.Execute).
AuditTellsOutcome(a, ctx, input, w) ==
  LET out   == ActionExecute(a, ctx, input, TRUE, w)
      gates == {i \in DOMAIN a.layers : a.layers[i].kind = "safety" /\ a.layers[i].assessor.kind # "none"}
      inner == a.layers[Min(gates)]
      Says(event) == event \in {"allowed", "approved"}
  IN (a.tool = {} /\ gates # {} /\ ~ctx.done) =>
       /\ out.audit # <<>>
       /\ out.runs # <<>> => \/ Says(Last(out.audit))
                             \/ Last(out.audit) = "errored" /\ w.verdict = "fails" /\ inner.failOpen
                             \/ Last(out.audit) = "assessed"
       /\ out.runs = <<>> => ~Says(Last(out.audit))
       /\ Last(out.audit) = "assessed" <=>
            out.runs # <<>> /\ inner.assessor.kind = "custom" /\ w.verdict = "unknown"
       /\ out.err = "" => /\ \A i \in DOMAIN out.events : Says(out.events[i])
                          /\ out.events = SelectSeq(out.audit, Says)

=============================================================================
