------------------------------ MODULE FlowLogic ------------------------------
(***************************************************************************)
(* The pure logic of an ArkFlow (internal/flow): which steps are ready,    *)
(* what a reconciliation makes of results, loops and conditions, and when  *)
(* the flow ends.  The operator and the local executor both use it.        *)
(*                                                                         *)
(* Steps are numbered in the order of spec.steps; their names are taken    *)
(* to be distinct (FlowValidation.tla treats the case where they are not). *)
(* An answer is an abstract value.  The Go templates of a step are the     *)
(* sets of template data on which they evaluate to something truthy, or    *)
(* on which resolving the inputs fails.                                    *)
(***************************************************************************)
EXTENDS Integers, FiniteSets, FiniteSetsExt

CONSTANTS
  NSteps,          \* len(spec.steps)
  DependsOn,       \* Step -> what it depends on
  Output,          \* what an agent can answer
  Empty,           \* the empty text
  JSONOutput,      \* the answers that contain parseable JSON
  HasSchema,       \* the steps with an outputSchema
  IfHolds,         \* Step -> the data on which its "if" is truthy or absent
  InputFails,      \* Step -> the data on which its inputs do not resolve
  LoopHolds,       \* Step -> the data on which its loop condition is truthy
  MaxIterations,   \* Step -> the cap of its loop, 0 when it has none
  MaxTokens,       \* spec.maxTokens, 0 for no limit
  TimeoutSeconds   \* spec.timeoutSeconds, 0 for no timeout

Step == 1 .. NSteps

\* The template data of one step: BuildTemplateData's entry for it.
StepData == [output : Output \union {Empty}, data : JSONOutput \union {Empty}]

TemplateData == [Step -> StepData]

ASSUME FlowAssumption ==
  /\ NSteps \in Nat \ {0}
  /\ DependsOn \in [Step -> SUBSET Step]
  /\ JSONOutput \subseteq Output
  /\ Empty \notin JSONOutput
  /\ HasSchema \subseteq Step
  /\ DOMAIN IfHolds = Step
  /\ DOMAIN InputFails = Step
  /\ DOMAIN LoopHolds = Step
  /\ MaxIterations \in [Step -> Nat]
  /\ MaxTokens \in Nat
  /\ TimeoutSeconds \in Nat

StepPhase == {"Pending", "Running", "Succeeded", "Failed", "Skipped"}

\* "new" and "none" stand for the empty text of a fresh status.
FlowPhase == {"new", "Running", "Succeeded", "Failed"}

Reason == {"none", "InvalidDAG", "DeploymentNotFound", "NoTaskQueue",
           "Validated", "TimedOut", "BudgetExceeded", "StepFailed",
           "Succeeded"}

NoTask == 0

NoTime == -1

NoData == [s \in Step |-> [output |-> Empty, data |-> Empty]]

\* Slip: only a step that depends on itself is a cycle.
SelfLoopsOnly == \A s \in Step : s \notin DependsOn[s]

\* ValidateDAG, as what it decides (the dependencies are known steps, and
\* every nonempty set of steps has one that depends on none of the set).
ValidDAG ==
  \A S \in SUBSET Step :
    S # {} => \E s \in S : DependsOn[s] \intersect S = {}

IsTerminalPhase(phase) == phase \in {"Succeeded", "Failed"}

StepDone(st) == st.phase \in {"Succeeded", "Skipped"}

\* Slip: a dependency that has begun will do.
DepsBegun(s, steps) ==
  \A d \in DependsOn[s] : d \in Step /\ steps[d].phase # "Pending"

\* Slip: a skipped dependency does not satisfy.
DepsRan(s, steps) ==
  \A d \in DependsOn[s] : d \in Step /\ steps[d].phase = "Succeeded"

\* A dependency that names no step is never done.  The operator does not get
\* here with one: it is rejected, and FlowAssumption excludes it.  The local
\* executor does (LocalExecutor).
DepsSucceeded(s, steps) ==
  \A d \in DependsOn[s] : d \in Step /\ StepDone(steps[d])

FreshStep == [phase |-> "Pending", task |-> NoTask, output |-> Empty,
              json |-> Empty, iterations |-> 0, tokens |-> 0]

InitialStatus == [phase |-> "new", start |-> NoTime, reason |-> "none",
                  steps |-> [s \in Step |-> FreshStep], output |-> NoData]

\* InitializeSteps, on the first reconciliation of the flow.
InitializeSteps(st, now) ==
  IF st.phase # "new" THEN st
  ELSE [st EXCEPT !.phase = "Running", !.start = now, !.reason = "Validated",
                  !.steps = [s \in Step |-> FreshStep]]

\* ParseOutputJSON, for step s.
ParseOutput(s, st) ==
  IF /\ s \in HasSchema
     /\ st.phase = "Succeeded"
     /\ st.json = Empty
     /\ st.output \in JSONOutput
  THEN [st EXCEPT !.json = st.output]
  ELSE st

ParseOutputJSON(steps) == [s \in Step |-> ParseOutput(s, steps[s])]

BuildTemplateData(steps) ==
  [s \in Step |-> [output |-> steps[s].output, data |-> steps[s].json]]

\* Slip: one iteration too many.
LoopsOncePast(s, st, data) ==
  /\ st.phase = "Succeeded"
  /\ st.iterations <= MaxIterations[s]
  /\ data \in LoopHolds[s]

\* EvaluateLoops resets step s: its loop has iterations left and goes on.
LoopsAgain(s, st, data) ==
  /\ st.phase = "Succeeded"
  /\ st.iterations < MaxIterations[s]
  /\ data \in LoopHolds[s]

\* Slip: the parsed output of the finished iteration stays.
ResetKeepingJSON(st) ==
  [st EXCEPT !.phase = "Pending", !.task = NoTask, !.output = Empty,
             !.iterations = st.iterations + 1]

\* Slip: the iteration is not counted.
ResetUncounted(st) ==
  [st EXCEPT !.phase = "Pending", !.task = NoTask, !.output = Empty,
             !.json = Empty]

\* The token usage of the finished iteration stays.
Reset(st) ==
  [st EXCEPT !.phase = "Pending", !.task = NoTask, !.output = Empty,
             !.json = Empty, !.iterations = st.iterations + 1]

EvaluateLoops(steps, data) ==
  [s \in Step |-> IF LoopsAgain(s, steps[s], data) THEN Reset(steps[s])
                  ELSE steps[s]]

\* What the status says the flow has used: only the latest usage of a step.
SumStepTokens(steps) == MapThenSumSet(LAMBDA s : steps[s].tokens, Step)

\* Slip: the test for the start time is the wrong way round.
TimeoutBeforeStart(st, now) ==
  TimeoutSeconds > 0 /\ st.start = NoTime

EnforceTimeout(st, now) ==
  /\ TimeoutSeconds > 0
  /\ st.start # NoTime
  /\ now > st.start + TimeoutSeconds

OverBudget(steps) == MaxTokens > 0 /\ SumStepTokens(steps) > MaxTokens

SomeFailed(steps) == \E s \in Step : steps[s].phase = "Failed"

\* Slip: a step that still runs counts as done.
AllBegun(steps) == \A s \in Step : steps[s].phase # "Pending"

AllDone(steps) == \A s \in Step : StepDone(steps[s])

EndAs(st, phase, reason) == [st EXCEPT !.phase = phase, !.reason = reason]

\* The output is resolved from the template data, which stands for it.
UpdateFlowPhase(st, data, now) ==
  IF EnforceTimeout(st, now) THEN EndAs(st, "Failed", "TimedOut")
  ELSE IF OverBudget(st.steps) THEN EndAs(st, "Failed", "BudgetExceeded")
  ELSE IF SomeFailed(st.steps) THEN EndAs(st, "Failed", "StepFailed")
  ELSE IF AllDone(st.steps)
       THEN [EndAs(st, "Succeeded", "Succeeded") EXCEPT !.output = data]
  ELSE st

-----------------------------------------------------------------------------
StepStatus == [phase : StepPhase, task : Nat, output : Output \union {Empty},
               json : JSONOutput \union {Empty}, iterations : Nat,
               tokens : Nat]

FlowStatus == [phase : FlowPhase, start : Nat \union {NoTime},
               reason : Reason, steps : [Step -> StepStatus],
               output : TemplateData]
=============================================================================
