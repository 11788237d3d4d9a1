----------------------------- MODULE FlowClaims -----------------------------
(***************************************************************************)
(* What the API documentation of ArkFlow (api/v1alpha1/arkflow_types.go)   *)
(* says of a flow and the code does not do.  Each is refuted by a run.     *)
(***************************************************************************)
EXTENDS ArkFlow

\* The answers to the tasks submitted for step s or to their retries.
AnswersOf(s) == {r \in DOMAIN results : tasks[results[r].task].prompt = s}

(***************************************************************************)
(* "MaxTokens is the total token budget (input + output) for the entire    *)
(* pipeline run": a flow that succeeded has not spent more.                *)
(***************************************************************************)
Spent ==
  MapThenSumSet(LAMBDA r : results[r].tokens,
                UNION {AnswersOf(s) : s \in Step})

SpendingWithinBudget ==
  api.st.phase = "Succeeded" /\ MaxTokens > 0 => Spent <= MaxTokens

(***************************************************************************)
(* TaskID is "used to correlate results from the agent-tasks-results       *)
(* stream": the answer to a retry of its task reaches a running step.      *)
(***************************************************************************)
RetryAnswered(s) ==
  \E r \in DOMAIN results :
    /\ tasks[results[r].task].prompt = s
    /\ tasks[results[r].task].attempt > 0

RetryReachesStep ==
  \A s \in Step : RetryAnswered(s) ~> api.st.steps[s].phase # "Running"
=============================================================================
