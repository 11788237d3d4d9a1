------------------------------- MODULE ArkFlow -------------------------------
(***************************************************************************)
(* One ArkFlow, the reconciler that executes it                            *)
(* (internal/controller/arkflow_controller.go), the API server it writes   *)
(* to and the task queue it shares with the agents (TaskQueue).            *)
(*                                                                         *)
(* A reconciliation reads the flow from the informer's cache, which may    *)
(* lag behind the API server; it collects results, submits the tasks of    *)
(* the steps that are ready with one Redis command each, and writes the    *)
(* status back, which the API server refuses when the flow has changed     *)
(* since the version read.  Agents, the clock, users and a crash of the    *)
(* operator interleave with these steps.                                   *)
(***************************************************************************)
EXTENDS TaskQueue, FlowLogic

CONSTANTS
  Gates,        \* what can stand in the way of a reconciliation
  StaleReads,   \* whether a reconciliation may read a cache that lags
  MaxStart      \* bound: the latest time at which the flow starts

\* "agents": some ArkAgent is missing or cannot be read; "template": an
\* ArkEvent targets the flow; "no queue": TASK_QUEUE_URL is not set;
\* "deleted": the flow is being deleted.
Gate == {"open", "agents", "template", "no queue", "deleted"}

ASSUME ArkFlowAssumption ==
  /\ Prompt = Step \union {Subtask}
  /\ Subtask \notin Step
  /\ Result \subseteq Output \union {Empty}
  /\ Gates \subseteq Gate
  /\ "open" \in Gates
  /\ StaleReads \in BOOLEAN
  /\ MaxStart \in Nat

VARIABLES
  api,     \* the flow on the API server: resource version and status
  cache,   \* the flow in the informer's cache
  pc,      \* what the reconciler is doing
  f,       \* the reconciler's copy of the flow
  data,    \* the template data of this reconciliation
  next,    \* the first step submitPendingSteps has not considered yet
  wake,    \* whether the flow is in the controller's work queue
  gate,    \* what stands in the way of a reconciliation now
  clock    \* the time, in seconds

flowVars == <<api, cache, pc, f, data, next, wake, gate, clock>>
local == <<pc, f, data, next>>
vars == <<queueVars, flowVars>>

NoFlow == [rv |-> 0, st |-> InitialStatus]

Init ==
  /\ QueueInit
  /\ api = NoFlow
  /\ cache = NoFlow
  /\ pc = "idle"
  /\ f = NoFlow
  /\ data = NoData
  /\ next = 1
  /\ wake = TRUE
  /\ gate \in Gates
  /\ clock = 0

\* Slip: the update does not carry the resource version that was read.
AcceptedUnseen(obj) == obj.rv <= api.rv

(***************************************************************************)
(* Status().Update of a copy obj of the flow.  The API server accepts the  *)
(* version it holds only; an update that changes nothing keeps it.         *)
(***************************************************************************)
Accepted(obj) == obj.rv = api.rv

Store(obj) ==
  api' = IF obj.st = api.st THEN api ELSE [rv |-> api.rv + 1, st |-> obj.st]

\* The reconciliation ends; its copy of the flow is gone.
EndReconcile ==
  /\ pc' = "idle"
  /\ f' = NoFlow
  /\ data' = NoData
  /\ next' = 1

\* An update whose error the code ignores.
UpdateIgnoringError(obj) ==
  \/ /\ Accepted(obj)
     /\ Store(obj)
     /\ UNCHANGED disruptions
  \/ /\ ~Accepted(obj)
     /\ UNCHANGED <<api, disruptions>>
  \/ /\ UNCHANGED api
     /\ Disrupt

(***************************************************************************)
(* Reconcile, up to its early returns.                                     *)
(***************************************************************************)
Begin ==
  /\ pc = "idle"
  /\ wake
  /\ StaleReads \/ cache = api

\* The early returns that wait for nothing: no requeue, errors ignored.
ReportCondition(reason) ==
  /\ UpdateIgnoringError([cache EXCEPT !.st.reason = reason])
  /\ wake' = FALSE
  /\ UNCHANGED <<redisVars, podVars, cache, local, gate, clock>>

LeaveAlone ==
  /\ Begin
  /\ gate \in {"deleted", "template"}
  /\ wake' = FALSE
  /\ UNCHANGED <<queueVars, api, cache, local, gate, clock>>

RejectDAG ==
  /\ Begin
  /\ gate \notin {"deleted", "template"}
  /\ ~ValidDAG
  /\ ReportCondition("InvalidDAG")

WaitForAgents ==
  /\ Begin
  /\ gate = "agents"
  /\ ValidDAG
  /\ ReportCondition("DeploymentNotFound")

\* The flow has ended.  The update changes nothing, but a copy that is out
\* of date is refused and the flow requeued.
ObserveEnd ==
  /\ Begin
  /\ gate \in {"open", "no queue"}
  /\ ValidDAG
  /\ IsTerminalPhase(cache.st.phase)
  /\ wake' = ~Accepted(cache)
  /\ UNCHANGED <<queueVars, api, cache, local, gate, clock>>

\* Slip: the task queue is looked for before the end of the flow.
ReportNoQueueFirst ==
  /\ Begin
  /\ gate = "no queue"
  /\ ValidDAG
  /\ ReportCondition("NoTaskQueue")

ReportNoQueue ==
  /\ Begin
  /\ gate = "no queue"
  /\ ValidDAG
  /\ ~IsTerminalPhase(cache.st.phase)
  /\ ReportCondition("NoTaskQueue")

-----------------------------------------------------------------------------
(***************************************************************************)
(* collectResults: a running step takes the last answer to its task.       *)
(***************************************************************************)
\* Slip: any new answer is taken for the step's.
AnswersToAny(st) == {r \in DOMAIN results : st.phase = "Running"}

\* Slip: only the latest answer in the stream is looked at.
AnswersAtEnd(st) ==
  {r \in DOMAIN results : /\ st.phase = "Running"
                          /\ r = Len(results)
                          /\ results[r].task = st.task}

AnswersTo(st) ==
  {r \in DOMAIN results : st.phase = "Running" /\ st.task # NoTask
                            /\ results[r].task = st.task}

Last(S) == CHOOSE r \in S : \A q \in S : q <= r

CollectStep(st) ==
  LET found == AnswersTo(st)
      used == {r \in found : results[r].tokens > 0}
  IN IF found = {} THEN st
     ELSE [st EXCEPT !.phase = "Succeeded",
                     !.output = results[Last(found)].result,
                     !.tokens = IF used = {} THEN st.tokens
                                ELSE results[Last(used)].tokens]

CollectResults(steps) == [s \in Step |-> CollectStep(steps[s])]

\* Reconcile from InitializeSteps to EvaluateLoops.
Collect ==
  /\ Begin
  /\ gate = "open"
  /\ ValidDAG
  /\ ~IsTerminalPhase(cache.st.phase)
  /\ LET started   == InitializeSteps(cache.st, clock)
         collected == ParseOutputJSON(CollectResults(started.steps))
     IN /\ data' = BuildTemplateData(collected)
        /\ f' = [cache EXCEPT
                   !.st = [started EXCEPT
                             !.steps = EvaluateLoops(collected, data')]]
  /\ pc' = "submit"
  /\ next' = 1
  /\ wake' = FALSE
  /\ UNCHANGED <<queueVars, api, cache, gate, clock>>

\* XRANGE fails: the reconciliation is retried.
CollectFails ==
  /\ Begin
  /\ gate = "open"
  /\ ValidDAG
  /\ \E s \in Step : cache.st.steps[s].phase = "Running"
  /\ ~IsTerminalPhase(cache.st.phase)
  /\ Disrupt
  /\ UNCHANGED <<redisVars, podVars, flowVars>>

(***************************************************************************)
(* submitPendingSteps: the ready steps in the order of the spec.           *)
(***************************************************************************)
Ready(s) ==
  /\ f.st.steps[s].phase = "Pending"
  /\ DepsSucceeded(s, f.st.steps)

Turn(s) ==
  /\ pc = "submit"
  /\ s >= next
  /\ Ready(s)
  /\ \A t \in next .. (s - 1) : ~Ready(t)

\* Slip: the step after s is passed over too.
SetStepAndPass(s, st) ==
  /\ f' = [f EXCEPT !.st.steps[s] = st]
  /\ next' = s + 2
  /\ UNCHANGED <<pc, data>>

SetStep(s, st) ==
  /\ f' = [f EXCEPT !.st.steps[s] = st]
  /\ next' = s + 1
  /\ UNCHANGED <<pc, data>>

SkipStep(s) ==
  /\ Turn(s)
  /\ data \notin IfHolds[s]
  /\ SetStep(s, [f.st.steps[s] EXCEPT !.phase = "Skipped"])
  /\ UNCHANGED <<queueVars, api, cache, wake, gate, clock>>

FailStep(s) ==
  /\ Turn(s)
  /\ data \in IfHolds[s] \intersect InputFails[s]
  /\ SetStep(s, [f.st.steps[s] EXCEPT !.phase = "Failed"])
  /\ UNCHANGED <<queueVars, api, cache, wake, gate, clock>>

\* The prompt of a step stands for the text resolved from its inputs.
SubmitTask(s) == Submit(s)

SubmitStep(s) ==
  /\ Turn(s)
  /\ data \in IfHolds[s] \ InputFails[s]
  /\ SubmitTask(s)
  /\ SetStep(s, [f.st.steps[s] EXCEPT !.phase = "Running",
                                      !.task = Len(tasks) + 1])
  /\ UNCHANGED <<api, cache, wake, gate, clock>>

\* XADD returns an error, whether or not Redis has added the task.  What the
\* reconciliation has done so far is written, and the flow requeued.
SubmitFails(s) ==
  /\ Turn(s)
  /\ data \in IfHolds[s] \ InputFails[s]
  /\ XAddTask(s, 0, 0) \/ UNCHANGED tasks
  /\ (Accepted(f) /\ Store(f)) \/ UNCHANGED api
  /\ Disrupt
  /\ EndReconcile
  /\ wake' = TRUE
  /\ UNCHANGED <<group, cursor, pel, results, dead, podVars, cache, gate,
                 clock>>

(***************************************************************************)
(* UpdateFlowPhase and the final Status().Update.  A conflict or an error, *)
(* after which the API server may have stored the status all the same,     *)
(* requeues the flow; so does a flow that still runs.                      *)
(***************************************************************************)
Finish ==
  /\ pc = "submit"
  /\ \A s \in next .. NSteps : ~Ready(s)
  /\ LET done == [f EXCEPT !.st = UpdateFlowPhase(f.st, data, clock)]
     IN \/ /\ Accepted(done)
           /\ Store(done)
           /\ wake' = (wake \/ done.st.phase = "Running")
           /\ UNCHANGED disruptions
        \/ /\ ~Accepted(done)
           /\ wake' = TRUE
           /\ UNCHANGED <<api, disruptions>>
        \/ /\ (Accepted(done) /\ Store(done)) \/ UNCHANGED api
           /\ wake' = TRUE
           /\ Disrupt
  /\ EndReconcile
  /\ UNCHANGED <<redisVars, podVars, cache, gate, clock>>

-----------------------------------------------------------------------------
(***************************************************************************)
(* The rest of the operator's process and of the cluster.                  *)
(***************************************************************************)

\* The informer receives the current flow; the watch event enqueues it.
SyncCache ==
  /\ cache # api
  /\ cache' = api
  /\ wake' = TRUE
  /\ UNCHANGED <<queueVars, api, local, gate, clock>>

\* The informer's periodic resync enqueues every flow.
Resync ==
  /\ pc = "idle"
  /\ ~wake
  /\ wake' = TRUE
  /\ UNCHANGED <<queueVars, api, cache, local, gate, clock>>

\* The operator crashes, or is deployed anew with or without a task queue,
\* and starts again with a list of the flows.
CrashOperator ==
  /\ Disrupt
  /\ EndReconcile
  /\ cache' = api
  /\ wake' = TRUE
  /\ gate' \in {gate} \union
               {g \in Gates : {g, gate} = {"open", "no queue"}}
  /\ UNCHANGED <<redisVars, podVars, api, clock>>

\* A user edits the flow's labels or annotations.
Touch ==
  /\ Disrupt
  /\ api' = [api EXCEPT !.rv = @ + 1]
  /\ UNCHANGED <<redisVars, podVars, cache, local, wake, gate, clock>>

\* Agents and events come and go; the configuration stays with the process.
ChangeGate ==
  /\ gate \notin {"deleted", "no queue"}
  /\ gate' \in Gates \ {gate, "no queue"}
  /\ UNCHANGED <<queueVars, api, cache, local, wake, clock>>

\* Time passes until the flow must have started, then until its time is up.
Tick ==
  /\ clock < IF api.st.start = NoTime THEN MaxStart
             ELSE api.st.start + TimeoutSeconds + 1
  /\ clock' = clock + 1
  /\ UNCHANGED <<queueVars, api, cache, local, wake, gate>>

Reconcile ==
  \/ LeaveAlone \/ RejectDAG \/ WaitForAgents \/ ObserveEnd \/ ReportNoQueue
  \/ Collect \/ CollectFails
  \/ \E s \in Step :
       SkipStep(s) \/ FailStep(s) \/ SubmitStep(s) \/ SubmitFails(s)
  \/ Finish

Next ==
  \/ Reconcile
  \/ AgentNext /\ UNCHANGED flowVars
  \/ SyncCache \/ Resync \/ CrashOperator \/ Touch \/ ChangeGate \/ Tick

(***************************************************************************)
(* The controller's worker takes a flow off its queue and works through    *)
(* the reconciliation; the informer catches up and resyncs; time passes.   *)
(***************************************************************************)
Fairness ==
  /\ AgentFairness
  /\ WF_vars(Reconcile)
  /\ WF_vars(SyncCache)
  /\ WF_vars(Resync)
  /\ WF_vars(Tick)

Spec == Init /\ [][Next]_vars /\ Fairness
-----------------------------------------------------------------------------
Flow == [rv : Nat, st : FlowStatus]

FlowTypeOK ==
  /\ api \in Flow
  /\ cache \in Flow
  /\ f \in Flow
  /\ pc \in {"idle", "submit"}
  /\ data \in TemplateData
  /\ next \in 1 .. NSteps + 1
  /\ wake \in BOOLEAN
  /\ gate \in Gate
  /\ clock \in Nat

TypeOK == QueueTypeOK /\ FlowTypeOK

Phase(s) == api.st.steps[s].phase

\* The tasks submitted for step s by any reconciliation.
Submissions(s) ==
  {i \in DOMAIN tasks : tasks[i].prompt = s /\ tasks[i].attempt = 0}

(***************************************************************************)
(* A step is never given another step's answer: the task recorded for it   *)
(* is one submitted for it, and the output of a step that succeeded is an  *)
(* answer to that very task, however often tasks were submitted twice,     *)
(* retried or lost (collectResults, submitPendingSteps).                   *)
(***************************************************************************)
OwnAnswer ==
  \A s \in Step :
    LET st == api.st.steps[s] IN
    /\ st.phase = "Running" => st.task \in Submissions(s)
    /\ st.phase = "Succeeded" =>
         \E r \in DOMAIN results : /\ results[r].task = st.task
                                   /\ results[r].task \in Submissions(s)
                                   /\ results[r].result = st.output

(***************************************************************************)
(* What a step waits for stays finished: while a step runs or has run, the *)
(* steps it depends on are done (DepsSucceeded against EvaluateLoops,      *)
(* which resets a step).  It needs loops whose condition reads only the    *)
(* output of their own step.                                               *)
(***************************************************************************)
DependenciesDone ==
  \A s \in Step : Phase(s) # "Pending" =>
    \A d \in DependsOn[s] : Phase(d) \in {"Succeeded", "Skipped"}

(***************************************************************************)
(* A flow that succeeded is complete: every step is done, the usage in its *)
(* status is not above the budget, and its output was resolved from the    *)
(* outputs the steps have now, not from those of an earlier iteration      *)
(* (Reconcile builds the template data once, before EvaluateLoops).  The   *)
(* exception is a step whose loop went on and whose "if" then skipped it:  *)
(* the output of the flow may use its last iteration, which its status no  *)
(* longer has.  The budget is tested as the code tests it, with ">": a     *)
(* flow whose usage is exactly maxTokens succeeds, although the comment of *)
(* spec.maxTokens says that it fails "if this limit is reached".           *)
(***************************************************************************)
SuccessIsComplete ==
  api.st.phase = "Succeeded" =>
    /\ \A s \in Step : api.st.steps[s].phase \in {"Succeeded", "Skipped"}
    /\ MaxTokens > 0 => SumStepTokens(api.st.steps) <= MaxTokens
    /\ \A s \in Step :
         LET st == api.st.steps[s] IN
         \/ api.st.output[s].output = st.output
         \/ st.phase = "Skipped" /\ st.iterations > 0

(***************************************************************************)
(* A flow that runs can go on: a step is in flight or ready to submit, or  *)
(* all are done or one has failed and the next reconciliation ends it.     *)
(* Between skipping, failing and resetting steps, no order of them leaves  *)
(* every step waiting for another (ValidateDAG, DepsSucceeded).            *)
(***************************************************************************)
NeverStuck ==
  api.st.phase = "Running" =>
    \/ \E s \in Step : Phase(s) \in {"Running", "Failed"}
    \/ \E s \in Step :
         Phase(s) = "Pending" /\ DepsSucceeded(s, api.st.steps)

(***************************************************************************)
(* A flow whose dependencies have a cycle costs nothing: none of its steps *)
(* is submitted, those outside the cycle included (ValidateDAG comes       *)
(* before everything that has an effect).                                  *)
(***************************************************************************)
CycleNeverRuns ==
  (\E S \in SUBSET Step :
     S # {} /\ \A s \in S : DependsOn[s] \intersect S # {})
    => \A s \in Step : Submissions(s) = {}

(***************************************************************************)
(* The parsed output of a step is that of its current output, in every     *)
(* iteration of its loop (ParseOutputJSON, EvaluateLoops).  An answer that *)
(* does not parse leaves the step Succeeded with no parsed output: the     *)
(* step is marked before it is parsed, and a failed parse changes nothing. *)
(* The comment of spec.pipeline[].outputSchema promises more, that the     *)
(* response "parses as JSON before marking the step Succeeded".            *)
(***************************************************************************)
ParsedOutputCurrent ==
  \A s \in Step :
    LET st == api.st.steps[s] IN
    st.json = IF /\ s \in HasSchema
                 /\ st.phase = "Succeeded"
                 /\ st.output \in JSONOutput
              THEN st.output ELSE Empty

(***************************************************************************)
(* Without disruptions and stale reads no work is done twice: between      *)
(* reconciliations a step has been submitted once per iteration that its   *)
(* status counts.                                                          *)
(***************************************************************************)
NoDuplicateWork ==
  disruptions = 0 /\ ~StaleReads /\ pc = "idle" =>
    \A s \in Step :
      LET st == api.st.steps[s] IN
      Cardinality(Submissions(s)) =
        st.iterations + IF st.phase \in {"Running", "Succeeded"} THEN 1 ELSE 0

(***************************************************************************)
(* A flow that ended stays as it ended: a reconciliation that began before *)
(* cannot write over it.  Only the condition may change, when an agent is  *)
(* deleted afterwards.                                                     *)
(***************************************************************************)
EndIsFinal ==
  [][IsTerminalPhase(api.st.phase) =>
       /\ api'.st.phase = api.st.phase
       /\ api'.st.steps = api.st.steps
       /\ api'.st.output = api.st.output]_vars

(***************************************************************************)
(* The task a running step waits for is replaced only after its answer, by *)
(* the next iteration of its loop: no reconciliation forgets a task in     *)
(* flight, and iterations are counted one by one up to the cap.            *)
(***************************************************************************)
TaskKeptUntilAnswered ==
  [][\A s \in Step :
       LET st == api.st.steps[s]
           new == api'.st.steps[s]
       IN st.phase = "Running" =>
            \/ new.phase \in {"Running", "Succeeded"} /\ new.task = st.task
            \/ /\ \E r \in DOMAIN results : results[r].task = st.task
               /\ new.iterations = st.iterations + 1
               /\ new.iterations <= MaxIterations[s]]_vars

(***************************************************************************)
(* A flow that nothing stands in the way of any more ends: it succeeds or  *)
(* fails, or EnforceTimeout fails it when a task of it was lost.  (A       *)
(* behaviour in which the stream comes to its bound is no evidence.)       *)
(***************************************************************************)
FlowEnds ==
  <>[](gate = "open" /\ Len(tasks) < MaxTasks)
    => <>IsTerminalPhase(api.st.phase)

(***************************************************************************)
(* The condition of a flow that ended says how, unless an agent it names   *)
(* went missing afterwards: WaitForAgents comes before the check for the   *)
(* end, and no other early return may touch an ended flow.                 *)
(***************************************************************************)
ConditionSaysHow ==
  /\ api.st.phase = "Succeeded" =>
       api.st.reason \in {"Succeeded", "DeploymentNotFound"}
  /\ api.st.phase = "Failed" =>
       api.st.reason \in {"TimedOut", "BudgetExceeded", "StepFailed",
                          "DeploymentNotFound"}

\* The task that step s waits for has been answered.
AnswerWaits(s) ==
  /\ api.st.phase = "Running"
  /\ Phase(s) = "Running"
  /\ Answers(api.st.steps[s].task) # {}

(***************************************************************************)
(* No answer waits forever: the answer to the task a running step waits    *)
(* for reaches the step, or the flow ends, although it may be stored just  *)
(* after a reconciliation has looked for it and behind other answers.      *)
(***************************************************************************)
AnswerReachesStep == \A s \in Step : []<>~AnswerWaits(s)
=============================================================================
