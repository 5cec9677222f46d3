------------------------------ MODULE MCWorkflow ------------------------------
(* Two independent steps and one that depends on both, declared first and    *)
(* with a condition on one of them; a chain with a timeout and an action     *)
(* that is not found; a cycle; three independent steps; a single step with   *)
(* a retry. One caller of CancelWorkflow, and two for the single step.       *)
EXTENDS WorkflowRuns

CONSTANTS a, b, c, v, k1, k2

MCStepIDs == {a, b, c}
MCValues == {v}

Always == [step |-> NoStep, test |-> "ran", negate |-> FALSE]
Plain(s, deps) == [id |-> s, deps |-> deps, when |-> Always, attempts |-> 0, backoff |-> FALSE,
                   timeout |-> FALSE, continue |-> FALSE, resolves |-> TRUE]

Join == << [Plain(c, <<a, b>>) EXCEPT !.when = [step |-> a, test |-> v, negate |-> FALSE]],
           [Plain(a, << >>) EXCEPT !.attempts = 2, !.backoff = TRUE, !.continue = TRUE],
           Plain(b, << >>) >>
Chain == << [Plain(b, <<a>>) EXCEPT !.timeout = TRUE, !.attempts = 2, !.continue = TRUE],
            [Plain(a, << >>) EXCEPT !.when = [step |-> c, test |-> "exists", negate |-> TRUE]],
            [Plain(c, <<b>>) EXCEPT !.resolves = FALSE, !.when = [step |-> b, test |-> "ran", negate |-> FALSE]] >>
Cycle == << Plain(a, <<b>>), Plain(b, <<a>>) >>

Wide == << Plain(a, << >>), Plain(b, << >>), Plain(c, << >>) >>

Single == << [Plain(a, << >>) EXCEPT !.attempts = 2, !.backoff = TRUE] >>

MCDefinitions == {Join, Chain, Cycle, Wide, Single}
MCLimits == {0, 2}
MCCallers == {k1, k2}

(* Bound: only the run of the single step has a second caller and may fail *)
(* to write that it is queued.                                             *)
OneCallerOfLongRuns ==
    def = Single \/ (callers[k2].at = "new" /\ (starter = "new" \/ log # << >>))
=============================================================================
