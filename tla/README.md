# A verification development for the agentops operator

The operator runs AI agents on Kubernetes. A user describes agents
(`ArkAgent`), pipelines of prompts (`ArkFlow`) and triggers (`ArkEvent`);
reconcilers turn them into Deployments, Redis messages and status. The agents
are pods that work on a shared Redis stream. This directory models the parts of
the code in which several actors meet, checks them with TLC on small instances
and proves the most important properties for all instances with TLAPS.

All line references are to the repository; `map` in `PROJECT.json` names, for
every definition, the lines it stands for.

## 1. The system

### 1.1 Components

| Component | State it keeps | Operations | What makes it correct |
|---|---|---|---|
| Task queue `internal/agent/queue/queue.go` | Redis streams `agent-tasks`, `agent-tasks-results`, `agent-tasks-dead`; one consumer group (cursor, pending entries); token lists | `New`, `Submit`, `Poll`, `Ack`, `Nack`, `PublishChunk`, `DoneChunk`; the operator reads the results stream itself | a task is handed out once, ends at most once, is not lost without a failure, is retried at most `MaxRetries` times |
| Agent runtime `runtime/agent/main.go`, runner `internal/agent/runner/runner.go` | goroutine per task | poll loop, `RunTask`, Ack or Nack, the `submit_subtask` tool, stop on SIGTERM | every task read ends; a stop loses only what it interrupts |
| Flow logic `internal/flow/{dag,phase,step,template}.go` | none (pure functions on the flow's status) | `ValidateDAG`, `InitializeSteps`, `ParseOutputJSON`, `EvaluateLoops`, `BuildTemplateData`, `UpdateFlowPhase` | a flow cannot get stuck, ends for the right reason, within budget and time |
| ArkFlow reconciler `internal/controller/arkflow_controller.go` | the flow's status on the API server | `Reconcile`: validate, check agents, collect results, submit ready steps, update the phase | each step gets its own answer; ended flows stay ended; no answer is overlooked |
| ArkEvent reconciler `internal/controller/arkevent_controller.go` | `LastFiredAt`, `FiredCount`, the flows it created | cron, webhook and pipeline-output triggers; `fire` | a trigger fires once per occasion and respects `Forbid` |
| Webhook server `internal/controller/trigger_webhook_server.go` | per HTTP request: a handler, a goroutine that reads the flow's Redis token list, a channel of 256 between them | fire, wait for the flow (sync), stream tokens and steps (SSE) | the caller learns how the flow ended; the stream is complete up to its marker |
| ArkAgent reconciler `internal/controller/arkagent_controller.go` | Deployment, ConfigMap, `DailyTokenUsage` | deploy, scale to zero over the daily budget and back | agents over budget stop, and start again the next day |
| ArkService, ArkMemory, ArkSettings reconcilers | a Service; a condition | level-triggered copies of one object | the copy follows the object |
| Local executor `internal/ark/local/executor.go` | a flow in memory, a channel of results | `Run`: layers of ready steps, one goroutine per step | a step runs on final inputs; a run ends, and for a reason |
| Command line `cmd/ark/main.go`, loader `internal/ark/loader.go` | none | `ark run`, `ark run --dry-run`, `ark validate`, `ark init` | the exit code can be relied on |
| LLM providers, MCP client, configuration, health probe | none shared | I/O | out of reach of a model checker |
| Operator `main` | none | wiring | not modelled |

### 1.2 How they interact

* The ArkFlow reconciler **XADDs** a task per ready step and records the message
  ID in the status; agents **XREADGROUP** tasks, run each in a goroutine, **XACK**
  and then **XADD** the answer to the results stream. The reconciler reads the
  whole results stream on every pass. Nothing else connects the two: the queue
  does not know flows and the flow does not see pods.
* Every reconciler reads objects from an **informer cache** that may lag behind
  the API server, and writes with **optimistic concurrency**: an update carrying
  an old resource version is refused.
* A flow whose update was accepted is requeued after a delay, by the watch event
  of its own update, by other objects that map to it, and by resyncs.
* Agents can add tasks themselves (`submit_subtask`), on the same stream.
* The webhook server fires ArkEvents, polls the flow it created through the informer's
  cache, and reads the tokens that agents append to one Redis list per flow.
* The command line runs flows in its own process with the operator's flow logic
  (`internal/flow`), without Redis or Kubernetes.
* ArkEvents create flows; ArkFlow reads ArkEvents to recognise templates;
  ArkAgents read flows for their usage, and flows read ArkAgents.

### 1.3 What is hard about it

Two commands that are not atomic (Ack, Nack, submit-then-record); errors that are
ignored; a stale cache under a level-triggered loop; loops that reset steps
others have used; a retry under a new identity; a timeout checked in only one
place; a crash between a side effect and the record of it; a patch computed against
a cached object; a timer that alone brings an agent back; a channel whose end
depends on a marker somebody else writes. `hazards` in
`PROJECT.json` lists each at its line, with the properties that would show it
going wrong, or the reason why none does yet.

## 2. Modules

| Module | Models | Uses |
|---|---|---|
| `TaskSettlement` | abstract: what the queue promises. A task is absent, queued, claimed once and in order, and ends once: answered, retried, dead or lost | |
| `TaskQueue` | the queue and the agent pods, one action per Redis command | refines `TaskSettlement` |
| `FlowLogic` | the pure functions of `internal/flow` as operators | |
| `ArkFlow` | reconciler, API server, informer cache and clock around one flow | extends `TaskQueue`, `FlowLogic` |
| `ArkEvent` | one trigger: its reconciler, the HTTP requests that fire it, the flows it dispatches | |
| `ArkAgent` | one agent: its reconciler, caches, timer and Deployment, the flows that use up its budget | |
| `WebhookStream` | one request that waits: handler, token goroutine, channel, the flow and agents as it sees them | |
| `LocalExecutor` | `Run` of `ark run`: passes, goroutines, results | instantiates `FlowLogic` with a flow chosen initially |
| `FlowValidation` | the depth-first search of `ValidateDAG`, over names that may repeat | |
| `ArkCLI` | the command: run or validate, and the exit code | extends `LocalExecutor`, `FlowValidation` |
| `FlowClaims` | sentences of the API documentation the code does not keep | extends `ArkFlow` |
| `MCTaskQueue`, `MCArkFlow`, `MCArkEvent`, `MCArkAgent`, `MCWebhookStream`, `MCArkCLI` | small instances | |
| `TaskQueueProofs` | theorems about the queue; the refinement | extends `TaskQueue`, TLAPS |
| `ArkFlowProofs` | types, the end of a flow, own answers and cycles, in the composed system | extends `ArkFlow`, `TaskQueueProofs` |
| `FlowStatusProofs` | what the status of a flow says | extends `ArkFlowProofs`, FiniteSetTheorems, WellFoundedInduction |
| `ArkEventProofs` | types of a trigger; a recorded fire has been dispatched, and dispatched once | extends `ArkEvent`, TLAPS |
| `ArkAgentProofs` | an agent: types, and what holds at rest | extends `ArkAgent`, TLAPS, FiniteSetTheorems, WellFoundedInduction |
| `WebhookStreamProofs` | a waiting request: types, stream, completion, last word | extends `WebhookStream`, SequenceTheorems, TLAPS |
| `FlowValidationProofs` | the search is right for every graph | extends `FlowValidation`, TLAPS |
| `ArkCLIProofs` | the same in the command; types, inputs and end of a run; an exit code of 0 | extends `ArkCLI`, `FlowValidationProofs`, FiniteSetTheorems, WellFoundedInduction |

Definitions that begin with the comment "Slip:" are plausible mistakes in the
definition after them. No specification uses them: each is put in the place of
its definition to see that a property notices.

### 2.1 TaskQueue

`tasks` is the stream `agent-tasks`; a message's identifier is its position.
`group` says whether the consumer group exists, `cursor` is its last delivered
identifier and `pel` its pending entries. `stage[i]` is where the goroutine of task
i is: `running` (in `RunTask`), `acked` (between Ack's XACK and its XADD of the
answer), `nacked` (between Nack's XACK and its requeue or dead letter) or `gone`.
`results` and `dead` are the other two streams, `up` the pods that run.

| Action | Code |
|---|---|
| `Submit`, `SubmitSubtask` | `Submit` queue.go:93, `CallTool` runner.go:76 |
| `StartPod` | `New` queue.go:35: creates the group at `$`, ignores its error |
| `Poll`, `PollLosesReply` | XREADGROUP and the goroutine main.go:82; the reply may be lost after Redis recorded the delivery |
| `FinishTask(i, ok)` | `RunTask` returns and the XACK of Ack or Nack |
| `StoreResult` | the XADD of Ack |
| `Requeue`, `DeadLetter` | the XADD of Nack, by the attempts left |
| `LoseWrite` | either XADD fails and the error is dropped |
| `StopPod` | SIGTERM or a kill: every goroutine of the pod ends where it stands |

`retryOf` in a message is a history field, for the properties: Redis does not
store which message a retry repeats.

### 2.2 FlowLogic

Texts are abstract. The template data of a flow is the function from steps to
outputs and parsed outputs; an `if`, a loop condition and "the inputs resolve"
are sets of such data (`IfHolds`, `LoopHolds`, `InputFails`), so every template is
allowed, at the price of choosing a few for each run. `JSONOutput` is the set of
texts from which `ExtractJSON` gets something. `ValidDAG` is what `ValidateDAG`
decides; its depth-first search is in `FlowValidation`. `UpdateFlowPhase` keeps the order of the
code: timeout, budget, failure, success.

### 2.3 ArkFlow

`api` is the flow on the API server (resource version and status), `cache` the
informer's copy, `f` the copy a reconciliation works on, and `data` its template
data; `pc` is `submit` while submitPendingSteps goes through the steps and `next`
is how far it got; `wake` says that the flow is in the controller's work queue.
`gate` is what stands in the way (a missing agent, no queue, a template, a
deletion) and `clock` the time.

A reconciliation is one action per observable effect: an early return
(`LeaveAlone`, `RejectDAG`, `WaitForAgents`, `ObserveEnd`, `ReportNoQueue`); reading
the cache and the results stream and computing everything up to EvaluateLoops
(`Collect`, which has no effect outside); one action per step considered
(`SkipStep`, `FailStep`, `SubmitStep`: an XADD each); and the status update
(`Finish`). Between any two of them agents, the clock, the informer and a crash
may act. `SubmitFails` and `CollectFails` are the error returns. `Store` is the API
server: an update that changes nothing keeps the resource version, which is why
`ObserveEnd` can only be requeued by being stale.

Order of the early returns: deletion, template, DAG, agents, end of the flow,
task queue. `Begin` reads the cache, which may lag when `StaleReads`. A restarted
operator may come back with or without a task queue (`CrashOperator`): the queue's
URL is read at start-up.

### 2.4 ArkEvent

`kind`, `policy` and `onPhase` are the source type and concurrency policy of the trigger
and the phase of another flow that it waits for, chosen from `Triggers`; `ev`
is the trigger on the API server (version, suspended, status), `evSeen` the informer's
copy; `flows` are the dispatched flows, named by template and second, and the watched
flow (the phase `"new"` stands for the empty text); `seen` is what the code reads of
them. `act` is what the reconciler and each
request do: decide, create one flow per target, write the status. `alarm` is the
RequeueAfter timer and `wake` the work queue, as in `ArkFlow`.

| Action | Code |
|---|---|
| `ReconcileFires`, `Serve` | reconcileCron, reconcilePipelineOutput (arkevent_controller.go:121, :214), ServeHTTP (trigger_webhook_server.go:100), up to the Forbid check of `fire` |
| `CreateFlow`, `CreateFails` | one turn of fire's loop: buildFlow and Create. A name used in the same second is refused; with an API error the flow may exist all the same |
| `ReconcileWaits` | nothing to fire; ensureWebhookToken |
| `SaveStatus` | the end of Reconcile: the version of a second read with the status of the first |
| `SaveServed` | the update at the end of ServeHTTP, whose error is only logged |
| `ReportSuspended`, `ReconcileFails` | the early returns |
| `SyncFlows`, `SyncEvent`, `RingAlarm` | what SetupWithManager watches, and the timer |

`OutputDue` is the whole guard of reconcilePipelineOutput: the flow is in the phase wanted,
and either has no completion time or one after the last fire. A flow that runs has none, so a
trigger on `Running` is due in every reconciliation while the flow runs; no flow is ever
`Pending`. `UpstreamWakes` is flowToTriggers, which passes on the two terminal phases only.

The condition's transition time, in seconds, is part of the status (`at`): it is why
an update that says nothing new still is one, wakes the reconciler again and makes
others' updates conflict. A read of a trigger that lags counts as a disruption, or
two writers could undo each other's status forever. Only the first target's flows
are seen running, since the code asks only whether any is.

### 2.5 ArkAgent

`agent`, `dep`, `flows`, `prompt` and `refs` are the objects on the API server: the
agent with its version, spec and status; its Deployment; of every flow the
completion time and usage of the step that names the agent; the text of the
ConfigMap or Secret; the contents of the ArkSettings and ArkMemory. `seen` is the
informers' copies and `changed` the objects with a watch event on its way. `job` is
what a reconciliation carries from one call to the next, `wake` the work queue and
`alarm` the RequeueAfter timer.

| Action | Code (`arkagent_controller.go`) |
|---|---|
| `Decide` | Reconcile up to reconcileDeployment: reads the caches and the clock, `Budget`, `buildDeployment` |
| `PromptUnresolved`, `ReconcileFails` | the early error returns |
| `ApplyDeployment`, `ApplyFails` | Create, or Patch with what differs from the cached Deployment |
| `ReportError` | the condition after a failed call, whose own error is ignored |
| `SaveStatus` | syncStatus, and RequeueAfter |
| `Sync` | the watches of SetupWithManager; settings and memory are read but not watched |
| `RingAlarm`, `Resync`, `CrashOperator` | the timer, the periodic resync, a restart |
| `CompleteStep`, `ForgetStep`, `Edit...`, `MovePods` | flows, users, the Deployment controller |

A unit of the clock is long: time passes while the reconciler rests, and a tick at
any other moment counts as a disruption. An environment is the function the kubelet
makes of the list, the last entry of a name counting; the inline system prompt and
the other fields of the pod template, which only come from the spec, are left out.

### 2.6 WebhookStream

`list` is all that was ever appended to the flow's Redis list and `popped` how much of
it BLPOP has taken; `reader` is the goroutine of startTokenStream, `held` the token it
has taken and not yet sent, `channel` the channel. `pc` is where the handler is: it
drains the channel, waits in its select, or finishes a flow that succeeded. `told` is
stepPhases, `said` counts the step events written of each step and phase, `sent` is the
tokens written in their order, and `answer` the last event: in sync mode the answer.

| Action | Code (`trigger_webhook_server.go`) |
|---|---|
| `Refuse`, `Accept` | the entry of handleSync and handleSSE |
| `Pop`, `Send`, `PopFails`, `StopReader` | the goroutine: BLPOP, the select with the context |
| `DrainToken`, `Drained` | drainTokens |
| `SelectToken`, `TimeOut`, `GetFails`, `PollSSE` | the cases of the select; emitStepEvents and emitFlowTerminal |
| `FinishToken`, `Finish` | emitFlowTerminal ranging over the channel |
| `PollSync` | waitForFlow |
| `PublishChunk`, `DoneChunk`, `DoneChunkLost`, `Nack`, `StopPod` | the agents (`queue.go`, `runtime/agent/main.go`) |
| `StartFlow`, `ConsiderStep`, `CollectStep`, `FailFlow` | the flow's reconciler as far as the request sees it, without loops |

### 2.7 LocalExecutor, FlowValidation, ArkCLI

`Run` goes in passes. `Launch` is a pass up to its goroutines (EvaluateLoops, then
collectReadySteps, which skips and collects in the order of the spec, so a step skipped
a moment ago satisfies the ones behind it); `RunStep` is a goroutine that returns with a
result or an error and sends it; `TakeResult` takes one result, and the last one of a
layer ends the pass with UpdateFlowPhase; `Return` and `Stop` are the two ways out. The
flow is chosen in the initial state from sequences of graphs, conditions, loops and
limits, and `FlowLogic` is instantiated with it, so the operator and the executor share
one translation of `internal/flow`. Nothing has validated it: a graph may have cycles, and a
dependency may be `UnknownName`, which DepsSucceeded (dag.go:45) never finds done.
`used` is a history: the data of a step's prompt.

`FlowValidation` has one action per visit of the search: `VisitRoot`, `VisitNext` (a
white dependency), `PassOver` (a black one), `FindCycle` (a gray one) and `Blacken` (dfs
returns). `stack` is the call stack and `rest` what each dfs has still to range over, in
any order. `Adj` is written once per step: of two steps of a name the last counts.

`ArkCLI` runs either, and ends with an exit code: `ark run` does not validate, `ark
validate` does not run. `ExitTellsTruth` says what the code of each means.

## 3. Runs

Every bound is a constant: `MaxTasks` (messages ever on the stream),
`MaxSubmissions` (fresh tasks of other clients), `MaxDisruptions` (failures in a
behaviour: Redis and API errors, lost replies, stopped pods, conflicting edits
and operator crashes, all counted together) and `MaxStart` (latest start of the
flow). Deadlock checking is off because the system really may stop: a flow that
ended leaves nothing to do, and a stream at its bound takes no more messages.

| Run | Instance | Shows |
|---|---|---|
| `taskqueue` | 2 pods, 4 messages, 1 retry, 2 disruptions, group not created at first | `QueueTypeOK`, `OneOutcome`, `NothingLost`, `RetriesCounted`; refinement `SettlesTasks`; liveness `EveryTaskRead`, `EveryTaskSettled` |
| `arkflow_disrupted` | chain of 2 steps, loop on step 1, condition on step 2, stale cache, failing tasks with a retry, 1 disruption | `TypeOK`, `OwnAnswer`, `DependenciesDone`, `EndIsFinal`, `TaskKeptUntilAnswered` |
| `arkflow_steady` | 3 steps (the last on the other two), loop, a condition on step 1 that may skip its next iteration, failing input, schema, budget, a foreign task on the stream, no disruption | `SuccessIsComplete`, `ParsedOutputCurrent`, `NoDuplicateWork`, `NeverStuck`; liveness `AnswerReachesStep` |
| `arkflow_gates` | 1 step, every gate opening and closing, stale cache, timeout, budget, 1 disruption | `ConditionSaysHow`; liveness `FlowEnds` |
| `arkflow_cycle` | 3 steps, a cycle behind a free step | `CycleNeverRuns` |
| `arkevent` | all three kinds with both policies; a trigger on another flow also for each of the four phases (with Allow); 2 targets, due at 1 and 2 of 0..3 seconds, 1 request, 1 disruption | `TypeOK`, `FiredMeansDispatched`, `OncePerOccasion`; liveness `NothingMissed` |
| `arkagent` | 2 flows that together, or one alone, reach the limit, 1 disruption, clock 0..3 with a window of 1 | `TypeOK`, `BudgetAtRest`, `TemplateAtRest`; liveness `BudgetFollowed` |
| `webhookstream` | both modes, chain of 2 steps, 2 tokens of the first, 1 retry, channel of 1, lagging cache, timeout, 1 disruption | `TypeOK`, `StreamConserved`, `CompletionIsComplete`, `LastWordIsTrue`; liveness `AnswerComes` |
| `arkcli` | run: 5 graphs of 3 steps (one with a cycle, one with an unknown dependency), 3 conditions (one skips a step whose loop goes on), 3 loops, 2 limits; validate: every flow of up to 3 steps over 3 names, repeated or not | `TypeOK`, `FreshInputs`, `StopsForAReason`, `ColorsTellPath`, `VerdictIsRight`, `ExitTellsTruth`; liveness `CommandReturns` |
| `claim_*` | | see 3.2 |

### 3.1 Why the bounds are enough

Four messages on the queue are a task, its retry, a second task and its retry:
every pair of outcomes can be interleaved, on two pods, with a failure before
and a failure after. Two disruptions are what it takes to lose a write and then
stop the pod, or to lose a reply and a write. In the composed system one
disruption already separates the record of a step from its task: the crash or
the conflict makes the step be submitted twice, and four messages leave room for
both, for the retry and for the next iteration. `FlowEnds` is claimed for
behaviours in which the gate stays open and the stream stays below its bound: a
step whose submission the bound forbids is the model's doing, not the code's. Three steps are the least with a
diamond-like join, in which a skipped and a succeeded dependency meet; two texts
are the least that make a condition true and false. A trigger that is due twice
fires, is woken by its timer and fires again; two targets are the least that can be
dispatched in part; a creation may fall into the second after the decision
(`MaxDelay`), which is what makes names collide. An agent that two flows take over
its limit, together and one alone, comes under it again when the first has left the
window, when the second has, or not at all; one disruption is a stale cache, an edit or
a lost timer at any point of that. A channel of one is full after the first of two
tokens while the second is held, and the retry appends behind the first marker. Three
steps are the least with a step passed over before one it depends on is skipped, and
three names the least with a cycle, a name beside it and a repeated name. `NothingMissed` excuses behaviours in
which a flow was created in the last second of the model's clock, where names run
out, and those in which the status counts `MaxFires` fires. That bound is there for triggers on
`Running`, which fire without end; the others make the same states with 2, 3 or 4. `Running` with
`Forbid` is left out of the run: it counts a skipped fire in every reconciliation, which makes
fourteen million states, and no property is about it (`FiredMeansDispatched` speaks of `Allow`,
the other two leave `Running` out). What the proofs cover (5)
does not depend on any bound but `MaxTasks`, `MaxSubmissions`, `MaxFires` and
`MaxDisruptions`, which are arbitrary there.

### 3.2 Where code and documentation disagree

Each `claim_` run checks one sentence of `api/v1alpha1/arkflow_types.go` (or of
`arkevent_types.go`), and TLC refutes it with what the code does:

* `claim_spending` (`SpendingWithinBudget`): a loop's usage replaces that of the
  iteration before, so the budget does not count it.
* `claim_retry` (`RetryReachesStep`): a retry is a new message; its answer is stored
  under the new identifier, which no step waits for. Liveness under the fairness
  of section 4: no failure is needed but one failing task.
* `claim_fired` (`CountKept`): Reconcile reads the trigger a second time, for its
  version, and writes the status computed from the first read over it; a fire that a
  request recorded in between is undone, without any error or stale read.

Read in the code, and not a run of its own:

* Flows. EvaluateLoops (step.go:97) evaluates the condition of every succeeded step on
  every pass, so a condition that reads a later step's output runs a step again after
  its dependents have used it; `DependenciesDone` and `FreshInputs` leave such loops
  out. A loop that goes on erases the output of its step, and the step's `if`, evaluated
  on the data from before, may then skip it on the same pass: the output is lost to the
  flow's status, although dependents and the flow's own output are resolved with it.
  `SuccessIsComplete` and `FreshInputs` except such a step, and say so. A missing agent (arkflow_controller.go:84) returns before the timeout is looked
  at, and nothing but a resync wakes the flow. `Iterations` is documented as completed
  iterations and counts resets. Every agent's pods read every step's task, whichever
  agent the step names. `MaxTokens` is documented to fail a flow "if this limit is reached"
  (arkflow_types.go:128); UpdateFlowPhase (phase.go:74) compares with `>`, so a flow that uses
  exactly its budget succeeds, and `SuccessIsComplete` accepts that. An output schema is
  documented to make the controller validate "that the response parses as JSON before marking
  the step Succeeded" (arkflow_types.go:91-92); collectResults marks the step Succeeded at
  once, ParseOutputJSON afterwards stores what parses and ignores the rest, so a step may
  succeed with nothing parsed. `ParsedOutputCurrent` says which output a parsed one belongs to,
  not that there is one. Steps of the same name hide each other's dependencies from the
  cycle check (dag.go:70); such a flow can be accepted and wait for ever.
* Triggers. "Don't re-fire for the same completion" (arkevent_controller.go:241) is all the
  guard does: a trigger on `Running`, a phase the API allows (arkevent_types.go:68: "the
  pipeline phase that fires the trigger"), finds no completion time (:242) and fires in every
  reconciliation while the flow runs, its own status updates and the flows it dispatches
  waking it; with `Forbid` the fires are skipped and counted. And it need not fire at all:
  flowToTriggers (:446) passes on ended flows only, so nothing wakes it when the flow starts.
  `OncePerOccasion` and `NothingMissed` speak of the end of a flow, and say so. A trigger on `Pending` never fires, since no flow has
  that phase. A fire disturbed between its first creation and its status update is repeated,
  with the targets that were dispatched. A request that `Forbid` skips is answered
  `"fired": true` and counted;
  `Forbid` asks for the phase Running, which a flow just created does not have, so two
  flows of a trigger may run at once.
* Agents. `maxConcurrentTasks` is not read by the runtime, which starts a goroutine per
  task. While the prompt's ConfigMap is missing, the budget is not looked at
  (arkagent_controller.go:119 returns first) and an agent over it goes on;
  `BudgetFollowed` asks that the prompt comes back. ArkSettings and ArkMemory are not
  watched (:663): pods keep an old environment until something else wakes the
  reconciler, and `TemplateAtRest` does not speak of them.
* Streams. The comment of handleSSE (trigger_webhook_server.go:251) has tokens arrive
  "before the terminal step/flow events". All steps share one list and the first marker
  ends the stream, so tokens of later steps and of retries are never sent; a step's
  completion may come before its tokens; and a flow of skipped steps leaves no marker,
  so a request with a token stream waits for its timeout although the flow has
  succeeded, and is then told `flow.completed`.
* Command line. A pass of `Run` without a ready step ends the run
  (executor.go:65: "shouldn't happen after DAG validation"). It happens without a cycle:
  collectReadySteps passes over a step that comes before one it depends on, then skips
  that one, and finds nothing ready. The flow stays Running, a step Pending, and the exit
  code is 0. There has been no DAG validation either: `ark run` calls ValidateDAG with
  `--dry-run` only, so a step with an unknown or circular dependency stays Pending, and the exit
  code is 0 (`ExitTellsTruth` and `StopsForAReason` say this much). `ark validate` misses cycles
  through a step whose name is repeated later (dag.go:70). No event
  is ever sent for a skipped step, which buildEventHandler has a case
  for.

## 4. Fairness

Liveness is checked under weak fairness of:

* `StartPod`: the Deployment restarts its pods; `Poll`: the loop polls forever;
  `FinishTask`: `RunTask` runs under a task timeout; `StoreResult`, `Requeue`,
  `DeadLetter`: the goroutine goes on. Fairness does not say which way a task ends.
* `Reconcile`: the controller's worker takes the flow off its work queue and goes on;
  `SyncCache`, `Resync`: the informer's watch and periodic resync (10 hours by
  default, so liveness that needs `Resync` is slow; no other property does);
  `Tick`: time passes.

* In `ArkEvent`: `Reconcile`, the informers, `RingAlarm` and `Tick` as above, and the
  handlers of requests that have begun. There `Resync` is not fair: `NothingMissed`
  holds by the timer and the watches alone.

* In `ArkAgent`: `Reconcile`, some informer at a time, `RingAlarm`, the Deployment
  controller (`MovePods`) and `Tick`. Nothing is assumed of `Resync`: the timer and the
  watches have to do.
* In `WebhookStream`: the goroutine and the handler go on, and the informer catches up.
  The ticker and the context are strongly fair (`SF`): Go's select chooses among the
  cases that are ready at random, so one that is ready again and again is chosen.
  Nothing is assumed of agents and the flow, since `AnswerComes` starts from its end.
* In `ArkCLI`: `Run`, each goroutine (its context has a deadline), the search and the
  printing go on.

Nothing is assumed of disruptions, of the gate or of users: a run with liveness
limits them by `MaxDisruptions`, so "once disruptions stop".

## 5. Proofs

`tlapm` proves, for any number of pods, tasks, steps, retries and disruptions, any
dependency graph and any templates:

| Theorem | Says |
|---|---|
| `QueueTypes` | `QueueSpec => []QueueTypeOK` |
| `QueueOneOutcome` | `QueueSpec => []OneOutcome` |
| `QueueRetriesCounted` | `QueueSpec => []RetriesCounted` |
| `QueueLosesNothing` | `QueueSpec => []NothingLost` |
| `QueueSettlesTasks` | `QueueSpec => SettlesTasks` (refinement) |
| `FlowTypes` | `Spec => []TypeOK` of `ArkFlow` |
| `FlowEndIsFinal` | `Spec => EndIsFinal` |
| `FlowOwnAnswers` | `Spec => []OwnAnswer` |
| `CyclesNeverRun` | `Spec => []CycleNeverRuns` |
| `FlowDependenciesDone` | `LoopsReadOwnStep` implies `Spec => []DependenciesDone` |
| `FlowSuccessIsComplete` | `Spec => []SuccessIsComplete` |
| `FlowNeverStuck` | `Spec => []NeverStuck` |
| `FlowParsedOutput` | `Spec => []ParsedOutputCurrent` |
| `FlowConditionSaysHow` | `Spec => []ConditionSaysHow` |
| `FlowKeepsTasks` | `Spec => TaskKeptUntilAnswered` |
| `FlowWorkIsNotRepeated` | `Spec => []NoDuplicateWork` |
| `EventTypes` | `Spec => []TypeOK` of `ArkEvent` |
| `EventFiresDispatch` | `Spec => []FiredMeansDispatched` |
| `EventFiresOnce` | `DistinctTargets` implies `Spec => []OncePerOccasion`, which leaves out triggers on `Running` |
| `AgentTypeOK` | `Spec => []TypeOK` of `ArkAgent` |
| `AgentTemplateAtRest` | `Spec => []TemplateAtRest` |
| `AgentBudgetAtRest` | `Spec => []BudgetAtRest` |
| `RequestTypes` | `Spec => []TypeOK` of `WebhookStream` |
| `TokensAreConserved` | `Spec => []StreamConserved` |
| `CompletedIsComplete` | `Spec => []CompletionIsComplete` |
| `LastWordHolds` | `Spec => []LastWordIsTrue` |
| `ColorsAlwaysTellPath` | `ValidationSpec => []ColorsTellPath` |
| `VerdictAlwaysRight` | `ValidationSpec => []VerdictIsRight` |
| `ValidationTypes` | `ValidationSpec => []SearchTypeOK` |
| `CLISearches` | `CLISpec => [](ColorsTellPath /\ VerdictIsRight)` |
| `ExitAlwaysTellsTruth` | `CLISpec => []ExitTellsTruth` |
| `ExecutorTypes` | `CLISpec => []TypeOK` of `LocalExecutor` |
| `RunsOnFreshInputs` | `CLISpec => []FreshInputs` |
| `RunStopsForAReason` | `CLISpec => []StopsForAReason` |

Assumptions: `QueueAssumption`, `NoPodAssumption`, `FlowAssumption`,
`ArkFlowAssumption`, `EventAssumption`, `AgentAssumption`, `ValidationAssumption` and
`ExecutorAssumption`, which say what kind of value each constant is. TLC evaluates them in every run of the modules that declare them. Two theorems
assume more, and say so: `FlowDependenciesDone` that a loop's condition depends on its own
step only (with another one it is false, see 3.2), and `EventFiresOnce` that the targets of
a trigger name distinct templates (a template listed twice is dispatched by each of the two
entries, as soon as they fall into different seconds).

**The queue.** `QueueTypeOK` is not inductive: nothing in it keeps a goroutine from
running a message after the cursor. `Typed` adds `CursorExact` (tasks after the
cursor are unread, and an unread task has no owner), and is. `OneOutcome` is
inductive over `Typed`: the argument is that each of the three outcome-writing
commands also ends the goroutine, and needs a goroutine that has not ended, of
which there is one per message. `RetriesCounted` needs dead letters to refer to
existing messages (`DeadAtLast`), or the last conjunct could change when the
stream grows.

The lemmas are over `SharedNext` rather than `QueueNext`: anybody may add a fresh
task and a disruption may strike elsewhere. `FlowStepOfQueue` shows that every
step of `ArkFlow` is such a step of the queue, so the queue's invariants carry
over to the composed system without being proved again.

**Refinement.** `FateOf` maps a task's stage and outcomes to a fate. A command that
only acknowledges is a stutter; `StoreResult` and `DeadLetter` are `Settle`, `Requeue`
is `Retry`, `PollLosesReply` is a `Claim` that is lost at once, and `StopPod` is `Lose` of
the tasks of the pod that have not ended. Without `OneOutcome` the fate of a
task would not be determined.

**The flow.** `FlowTypes` needs `OneOutcome`: collectResults takes the last of the
answers to a task, and there is one. `FlowEndIsFinal` rests on `CopiesExact`: a
cached copy of the current version is the current status, and a reconciliation
that works on the current version works on one that has not ended, since it
checked, so its update either is refused or finds the flow not ended.
`FlowOwnAnswers` rests on `OwnCopies`, `OwnAnswer` of every copy of the flow,
which is preserved because streams only grow (`StreamsGrow`). `CyclesNeverRun` rests on
`OnlySubtasks`: a retry asks what the retried message asked, so agents cannot put a
step's prompt on the stream that is not there.

**The status of the flow.** The status is written from copies that a reconciliation has
worked on, so what is to hold of it must hold of the informer's copy and of the copy in
work, halfway. `StatusMoves` sorts the steps of the system into six kinds (quiet; an early
return; `Collect`; the decision about one step; the end of a reconciliation; giving up),
and each invariant is then shown for the kinds. `StatusSound` is one such invariant, of
all copies: parsed outputs are current, the condition says how the flow ended, success is
complete, a running flow has something left to do, and a flow that has begun has no
cycle. `CollectBrings` says what a pass makes
of one step, in the order of the code: answer, parsed output, template data, loop.
`FlowNeverStuck` follows from it and the acyclic graph: of the steps that are not done, one
depends on none of the others. `SumOfTokens` is what `FlowSuccessIsComplete` needs of the
sum over the steps: it is the fold of the library, characterised by induction.

`FlowDependenciesDone` needs more than `DependenciesDone`: a step that others have used
must be one whose loop does not go on (`Settled`), on any data in which its own entry is
what it is (`GoesOn`), because the next pass evaluates it on new data. `FlowKeepsTasks` is
an action property: while a reconciliation that can still win its update works, its copy
either has the task that the API server has, or the answer to it is on the stream and the
iteration has been counted (`TasksCarried`). `FlowWorkIsNotRepeated` counts: without
disruptions, a step's submissions are its finished iterations and the current one
(`WorkCounted`), in the copy in work until it is stored and on the API server after.

**The trigger.** `FiredMeansDispatched` speaks of the status on the API server, which
the reconciler overwrites with an older one and requests with their own copy. It is
not inductive: `CopiesHonest` says the same of the informer's copy and of every
actor's, and of an actor in the middle of a fire that the targets it has gone past
have been dispatched (`Progress`). It is preserved because flows stay (`FlowsStay`), an
actor records the fire only after the last target (`ActorCreates`), and an update puts
an actor's status there or leaves the old one (`UpdateType`).

`OncePerOccasion` speaks of undisturbed behaviours without name collisions, of schedules and
of the end of a flow (on the start of one it is false, see 3.2). `OnceInv` says of
those that between two dispatches for a target there is an occasion (`Apart`). It holds
because an ended flow stays as it is (`UpstreamStep`), so an occasion remains one; because the
reconciler fires alone, on a current copy (`FiresAlone`); because between fires
nothing was dispatched after the recorded fire; and because a fire that goes on is for an
occasion after that, and what is not its own is older (`FiresInOrder`). `QuietSteps` sorts
the steps into those aside, the beginning, the turns and the end of a fire. It took an assumption that the code does not check
(`DistinctTargets`), which TLC showed to be needed.

**The agent.** A statement about a reconciler at rest is not inductive: it says nothing
while a reconciliation runs. `AgentInv` follows what is wanted through it. Copies are
current unless a watch event is on its way (`CopiesCurrent`); after `Decide` the job wants
what the prompt asks for and the budget leaves (`Wanted`); after the call the Deployment
is that (`HasWanted`); and it still is when the reconciler rests (`Rests`). Each exempts the
case that the reconciler will be woken: every change that could make it false goes
through `changed`, and `Sync` turns that into `wake`. Leaving out of a patch what the cached
copy has is harmless for the same reason (`AppliedIsWanted`). That the timer is set needs
the oldest entry of the window to exist (`EarliestIsOne`) and a reached budget to have an
entry at all (`NothingUsed`, an empty fold). That a status which says that the budget is not
reached is true (`BudgetKnown`) needs more: usage that the clock makes too old only lowers
the sum (`UsageShrinks`). The sum is a fold over a set in an order that the library chooses;
that any order gives the same, and that a part of the set gives no more, is proved by
induction on the size of the set (`UsageAdds`, `AddsAny`, `AddsPart`). `AgentTypeOK` is
inductive once the completion times of flows, and of the copies, are not in the future.

**The request.** A token is in one of four places: written to the client, in the channel,
held by the goroutine, or still in the list (`Placed`: what has been forwarded, in order, is
the beginning of the list, and popped). `ReaderExact` and `ChannelExact` say what the states
of the goroutine and of the channel mean for it: as long as it reads, what it has popped is
what is forwarded, and undisturbed it ends only behind the marker. `StepMovesTokens` sorts
every step of the system into taking something from the list, giving up, opening the stream,
and passing tokens on or leaving them where they are, so `Placed` is shown for four kinds of
steps rather than for each action. `CompletedIsComplete` adds that the handler
reports `flow.completed` only after it has drained a closed channel (`EndExact`), and that it
has told each phase of a step once (`ToldExact`); `LastWordHolds` that an ended flow stays as
it is (`FlowExact`), that nothing is said of a flow that the cache has not had (`UnseenExact`), and
that a request got an error, or was refused, for a reason that still stands (`ErrorExact`).

**The search.** `VerdictIsRight` says that a flow is accepted exactly if its dependencies
are known and, as the search looks at them, have no cycle; with distinct names they are those
of the steps, and no step waits for itself. A
set of names is acyclic if every nonempty subset has a name that depends on none of it:
there is nothing to be said about paths, and one name more keeps a set acyclic if its
dependencies are in it (`OneMore`), which is what `Blacken` needs. `ColorsTellPath` is
inductive together with `OnlyKnownColored` (a coloured name is known, and no step has an
unknown dependency) and `RestIsLeft` (what a dfs has passed over is black, or is the next
name on the stack): the latter makes a name whose dependencies have all been passed over
depend on black names only. That a gray dependency closes a cycle needs the stack to be a
path. These are invariants of `ValidationSpec`, and of `CLISpec`, whose steps are steps of
the search or leave it alone (`CLISearchStep`).

**The exit code.** `RunInv` says of a run that a flow that has succeeded is done without a
failed step, that layers are run by flows that have not ended, and that Run leaves no
running flow with a failed step: the last thing it did was UpdateFlowPhase
(`PhaseOfRunning`). `ExitInv` ties the exit code to the verdict or the phase it was made
from, neither of which changes again. What is left after a run that exits with 0 follows from
`StopsForAReason`: unless a dependency is unknown or a step was left behind by the order of
the spec, the steps left are a set in which each waits for another, so the graph is not valid.

**The executor.** `collectReadySteps` looks at the steps in the order of the spec and skips
some as it goes, so what it makes of a step depends on the ones before it. The model writes
it as a fold; the library defines folds by recursion over sets. `TurnsExist` shows by
induction over the numbers (as a set of them: `NatIsInduced`) that a function of the
number of steps looked at exists that agrees with the fold, `LooksInOrder` that each of its
values is the one before with one more step considered, and `Considered` says what has been
done after k steps: what is ready was pending with its dependencies done, what changed was
pending and is skipped, and a pending step passed over waits for a step that is not done, or
for a later one, skipped since. `PassMoves` adds EvaluateLoops and says what a whole pass
makes of one step. The invariant `ExecInv` has, besides `RunInv` and the types,
`LayerExact` (`OneEach`: the channel holds one result of every step of the layer whose
goroutine has ended; the running steps are those whose result has not been taken) and
`InputsFinal`: a step that runs or has run did so on data of its dependencies that are
`Final`, that is, done, parsed, and with a loop that does not go on. `FreshInputs` alone is
not inductive: it does not say that a dependency's loop has come to its end, which is so
because a pass evaluates the loops before it collects, and the condition of a loop reads
its own step only. `StopsForAReason` is what `PassMoves` says of a pass that finds nothing
ready; it needs nothing of the graph.

Model-checked only: the liveness properties `EveryTaskRead`, `EveryTaskSettled`,
`AnswerReachesStep`, `FlowEnds`, `NothingMissed`, `BudgetFollowed`, `AnswerComes` and
`CommandReturns`. The prover has no rule for fairness. Every safety and action property
of a passing run is a theorem.

## 6. What is left out, and why

* Step names are distinct in `ArkFlow` and `LocalExecutor`: a step is its position.
  `FlowValidation` lets them repeat. Unknown dependencies are in `LocalExecutor` and
  `FlowValidation`; in `ArkFlow` they would be rejected like a cycle, before anything begins.
* The client library's transparent re-sends of a command. A command that is
  added although its caller sees an error is modelled for the submission of a
  step (`SubmitFails`), the delivery of a task (`PollLosesReply`) and the update
  of the status (`Finish`); for Ack and Nack an ignored error means a lost write.
* Output schemas: the code parses the output of a step that has succeeded and keeps what
  parses. It checks no schema, and an output that does not parse fails nothing (3.2); the
  model has that and no more.
* Messages, condition messages, completion times and metrics.
* Several flows at once: the reconciler handles each by itself, and the only
  thing they share is the stream, on which another flow's tasks are foreign tasks
  (`Submit` of the subtask prompt).
* Of triggers: invalid schedules and sources (a condition, no fire), the templates of
  the inputs, a watched flow that is deleted and created again, two targets of the
  same template (whose second creation always collides). The modes of a request that
  wait for the flow are in `WebhookStream`, which begins after the fire.
* Of streams: loops of the flow (a step that runs twice appends a second marker, as a
  retry does), the expiry of the list 5 minutes after a marker, and requests that a
  proxy cuts off (a client that goes away is a timeout).
* Of agents: the labels, resources and configuration that the pod template copies from
  the spec, and several agents (a reconciliation reads and writes its own).
* Of the command line: `ark init`, the parsing of arguments and YAML, the choice among
  the flows of a file, and the output's format. How a step ends (provider, MCP servers,
  timeouts) is a choice of `RunStep`.
* ArkService, ArkMemory and ArkSettings reconcilers: level-triggered copies of one object
  without a timer or a second writer; the patterns are those of `ArkAgent`.
* Providers, the MCP client, the agents' configuration and health probe, the operator's
  `main`: I/O and wiring, in which no two actors share state. Generated code.
* The spec of a flow does not change while it runs. The code re-reads it on every
  pass; steps added later have no status and are never submitted.

## 7. Plan

1. *(done)* The queue, the agents, the flow logic and the ArkFlow reconciler, with
   their theorems.
2. *(done)* `ArkEvent`, with its theorems. Left: an abstract specification (one fire per
   occasion) it refines.
3. *(done)* `ArkAgent` and `WebhookStream`, with their theorems.
4. *(done)* `FlowValidation`, `LocalExecutor` and `ArkCLI`, with their theorems. Left: that the
   operator and the executor end the same flow with the same outcome, as a refinement of one
   abstract specification of a flow.
5. *(done)* The safety properties of `ArkFlow` as theorems.
6. ArkService, for the sake of its stale patch, and loops in `WebhookStream`.
