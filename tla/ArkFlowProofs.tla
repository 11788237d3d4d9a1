---------------------------- MODULE ArkFlowProofs ----------------------------
(***************************************************************************)
(* Theorems about an ArkFlow and its reconciler, for any flow, any number  *)
(* of pods and tasks, and any disruptions.                                 *)
(***************************************************************************)
EXTENDS ArkFlow, TaskQueueProofs

(***************************************************************************)
(* A step that has not begun is well typed.                                *)
(***************************************************************************)
LEMMA FreshStepType == FreshStep \in StepStatus
BY DEF FreshStep, StepStatus, StepPhase, NoTask

(***************************************************************************)
(* The status of a flow nobody has reconciled yet is well typed.           *)
(***************************************************************************)
LEMMA InitialStatusType == InitialStatus \in FlowStatus
BY FreshStepType
   DEF InitialStatus, FlowStatus, FlowPhase, NoTime, Reason, NoData,
       TemplateData, StepData

(***************************************************************************)
(* InitializeSteps keeps the type of the status and starts the flow.       *)
(***************************************************************************)
LEMMA InitializeStepsType ==
  ASSUME NEW st \in FlowStatus, NEW now \in Nat
  PROVE  /\ InitializeSteps(st, now) \in FlowStatus
         /\ InitializeSteps(st, now).phase # "new"
<1>1. [s \in Step |-> FreshStep] \in [Step -> StepStatus]
  BY FreshStepType
<1> QED
  BY <1>1 DEF InitializeSteps, FlowStatus, FlowPhase, Reason

(***************************************************************************)
(* ParseOutputJSON keeps the types of the steps.                           *)
(***************************************************************************)
LEMMA ParseOutputJSONType ==
  ASSUME NEW steps \in [Step -> StepStatus]
  PROVE  ParseOutputJSON(steps) \in [Step -> StepStatus]
BY DEF ParseOutputJSON, ParseOutput, StepStatus

(***************************************************************************)
(* The template data of well-typed steps is well typed.                    *)
(***************************************************************************)
LEMMA BuildTemplateDataType ==
  ASSUME NEW steps \in [Step -> StepStatus]
  PROVE  BuildTemplateData(steps) \in TemplateData
<1>1. ASSUME NEW s \in Step
      PROVE  [output |-> steps[s].output, data |-> steps[s].json] \in StepData
  BY DEF StepData, StepStatus
<1> QED
  BY <1>1 DEF BuildTemplateData, TemplateData

(***************************************************************************)
(* Resetting a step for its next iteration keeps its type.                 *)
(***************************************************************************)
LEMMA ResetType ==
  ASSUME NEW st \in StepStatus
  PROVE  Reset(st) \in StepStatus
<1> DEFINE a == [st EXCEPT !.phase = "Pending", !.task = NoTask]
           b == [a EXCEPT !.output = Empty, !.json = Empty]
           c == [b EXCEPT !.iterations = st.iterations + 1]
<1>1. a \in StepStatus
  BY DEF StepStatus, StepPhase, NoTask
<1>2. ASSUME NEW x \in StepStatus
      PROVE  [x EXCEPT !.output = Empty, !.json = Empty] \in StepStatus
  BY DEF StepStatus
<1>3. ASSUME NEW x \in StepStatus
      PROVE  [x EXCEPT !.iterations = st.iterations + 1] \in StepStatus
  BY DEF StepStatus
<1>4. c \in StepStatus
  BY <1>1, <1>2, <1>3
<1> QED
  BY <1>4 DEF Reset

(***************************************************************************)
(* EvaluateLoops keeps the types of the steps, whatever the data.          *)
(***************************************************************************)
LEMMA EvaluateLoopsType ==
  ASSUME NEW steps \in [Step -> StepStatus], NEW d
  PROVE  EvaluateLoops(steps, d) \in [Step -> StepStatus]
BY ResetType DEF EvaluateLoops

(***************************************************************************)
(* UpdateFlowPhase keeps the type of the status.                           *)
(***************************************************************************)
LEMMA UpdateFlowPhaseType ==
  ASSUME NEW st \in FlowStatus, NEW d \in TemplateData, NEW now \in Nat
  PROVE  UpdateFlowPhase(st, d, now) \in FlowStatus
<1>1. ASSUME NEW phase \in FlowPhase, NEW reason \in Reason
      PROVE  EndAs(st, phase, reason) \in FlowStatus
  BY DEF EndAs, FlowStatus
<1>2. /\ {"Failed", "Succeeded"} \subseteq FlowPhase
      /\ {"TimedOut", "BudgetExceeded", "StepFailed", "Succeeded"}
           \subseteq Reason
  BY DEF FlowPhase, Reason
<1>3. [EndAs(st, "Succeeded", "Succeeded") EXCEPT !.output = d] \in FlowStatus
  BY <1>1, <1>2 DEF FlowStatus
<1> QED
  BY <1>1, <1>2, <1>3 DEF UpdateFlowPhase

-----------------------------------------------------------------------------
(***************************************************************************)
(* What the results stream holds.                                          *)
(***************************************************************************)
LEMMA ResultsTyped ==
  ASSUME Typed, NEW r \in DOMAIN results
  PROVE  /\ results[r].task \in TaskId
         /\ results[r].result \in Output \union {Empty}
         /\ results[r].tokens \in Nat
<1>1. results[r] \in Answer
  BY DEF Typed, QueueTypeOK
<1>2. results[r].result \in Result /\ results[r].tokens \in 0 .. MaxUsage
  BY <1>1 DEF Answer
<1> QED
  BY <1>1, <1>2, ArkFlowAssumption, QueueAssumption DEF Answer

(***************************************************************************)
(* A task has at most one answer, so collectResults has no choice.         *)
(***************************************************************************)
LEMMA LastAnswer ==
  ASSUME Typed, OneOutcome, NEW st, NEW S \in SUBSET AnswersTo(st), S # {}
  PROVE  Last(S) \in S
<1>1. PICK r : r \in S
  OBVIOUS
<1>2. \A q \in S : /\ q \in DOMAIN results
                   /\ results[q].task = st.task
  BY DEF AnswersTo
<1>3. DOMAIN results \subseteq Nat
  BY DEF Typed, QueueTypeOK
<1>4. st.task \in TaskId
  BY <1>1, <1>2, ResultsTyped
<1>5. \A q \in S : q \in Answers(st.task)
  BY <1>2 DEF Answers
<1>6. \A q \in S : <<"answer", q>> \in Outcomes(st.task)
  BY <1>5 DEF Outcomes
<1>7. \A q \in S : <<"answer", q>> = <<"answer", r>>
  BY <1>1, <1>4, <1>6 DEF OneOutcome
<1>8. \A q \in S : q = r
  BY <1>7
<1>9. r <= r
  BY <1>1, <1>2, <1>3
<1> QED
  BY <1>1, <1>8, <1>9 DEF Last

(***************************************************************************)
(* A step takes nothing, or succeeds with an answer to its task.           *)
(***************************************************************************)
LEMMA CollectStepTakes ==
  ASSUME Typed, OneOutcome, NEW st \in StepStatus, CollectStep(st) # st
  PROVE  \E r \in AnswersTo(st), tokens \in Nat :
           CollectStep(st) = [st EXCEPT !.phase = "Succeeded",
                                        !.output = results[r].result,
                                        !.tokens = tokens]
<1> DEFINE found == AnswersTo(st)
           used == {r \in found : results[r].tokens > 0}
           spent == IF used = {} THEN st.tokens
                    ELSE results[Last(used)].tokens
<1>1. found # {} /\ CollectStep(st) =
        [st EXCEPT !.phase = "Succeeded",
                   !.output = results[Last(found)].result, !.tokens = spent]
  BY DEF CollectStep
<1>2. Last(found) \in found
  BY <1>1, LastAnswer
<1>3. spent \in Nat
  <2>1. CASE used = {}
    BY <2>1 DEF StepStatus
  <2>2. CASE used # {}
    <3>1. Last(used) \in used
      BY <2>2, LastAnswer
    <3>2. \A r \in DOMAIN results : results[r].tokens \in Nat
      BY ResultsTyped
    <3>3. Last(used) \in DOMAIN results
      BY <3>1 DEF AnswersTo
    <3> QED
      BY <2>2, <3>2, <3>3
  <2> QED
    BY <2>1, <2>2
<1> HIDE DEF found, spent
<1> QED
  BY <1>1, <1>2, <1>3 DEF found

(***************************************************************************)
(* A step that looks for its answer keeps its type.                        *)
(***************************************************************************)
LEMMA CollectStepType ==
  ASSUME Typed, OneOutcome, NEW st \in StepStatus
  PROVE  CollectStep(st) \in StepStatus
<1>1. CASE CollectStep(st) = st
  BY <1>1
<1>2. CASE CollectStep(st) # st
  <2>1. PICK r \in AnswersTo(st), tokens \in Nat :
          CollectStep(st) = [st EXCEPT !.phase = "Succeeded",
                                       !.output = results[r].result,
                                       !.tokens = tokens]
    BY <1>2, CollectStepTakes
  <2>2. results[r].result \in Output \union {Empty}
    BY ResultsTyped DEF AnswersTo
  <2> QED
    BY <2>1, <2>2 DEF StepStatus, StepPhase
<1> QED
  BY <1>1, <1>2

-----------------------------------------------------------------------------
(***************************************************************************)
(* To the task queue the flow is one that adds fresh tasks, and disrupts.  *)
(***************************************************************************)
LEMMA FlowStepOfQueue == [Next]_vars => [SharedNext]_queueVars
<1> SUFFICES ASSUME [Next]_vars
             PROVE  SharedNext \/ UNCHANGED queueVars
  OBVIOUS
<1>1. ASSUME UNCHANGED <<redisVars, podVars>>,
             UNCHANGED disruptions \/ Disrupt
      PROVE  SharedNext \/ UNCHANGED queueVars
  <2>1. CASE UNCHANGED disruptions
    BY <1>1, <2>1 DEF redisVars, podVars, queueVars
  <2>2. CASE Disrupt
    BY <1>1, <2>2 DEF redisVars, podVars, SharedNext
  <2> QED
    BY <1>1, <2>1, <2>2
<1>2. ASSUME NEW obj, UpdateIgnoringError(obj)
      PROVE  UNCHANGED disruptions \/ Disrupt
  BY <1>2 DEF UpdateIgnoringError
<1>3. CASE LeaveAlone \/ ObserveEnd \/ Collect
  BY <1>3 DEF LeaveAlone, ObserveEnd, Collect
<1>4. CASE RejectDAG \/ WaitForAgents \/ ReportNoQueue
  <2>1. PICK reason : ReportCondition(reason)
    BY <1>4 DEF RejectDAG, WaitForAgents, ReportNoQueue
  <2> QED
    BY <1>1, <1>2, <2>1 DEF ReportCondition
<1>5. CASE CollectFails
  BY <1>1, <1>5 DEF CollectFails
<1>6. CASE \E s \in Step : SkipStep(s) \/ FailStep(s)
  BY <1>6 DEF SkipStep, FailStep
<1>7. CASE \E s \in Step : SubmitStep(s)
  BY <1>7, ArkFlowAssumption DEF SubmitStep, SubmitTask, SharedNext
<1>8. CASE \E s \in Step : SubmitFails(s)
  <2>1. PICK s \in Step : SubmitFails(s)
    BY <1>8
  <2>2. tasks' = tasks \/ \E prompt \in Prompt : XAddTask(prompt, 0, 0)
    BY <2>1, ArkFlowAssumption DEF SubmitFails
  <2> QED
    BY <2>1, <2>2 DEF SubmitFails, SharedNext, podVars
<1>9. CASE Finish
  <2>1. UNCHANGED disruptions \/ Disrupt
    BY <1>9 DEF Finish
  <2> QED
    BY <1>1, <1>9, <2>1 DEF Finish
<1>10. CASE AgentNext /\ UNCHANGED flowVars
  BY <1>10 DEF SharedNext
<1>11. CASE SyncCache \/ Resync \/ ChangeGate \/ Tick
  BY <1>11 DEF SyncCache, Resync, ChangeGate, Tick
<1>12. CASE CrashOperator \/ Touch
  BY <1>1, <1>12 DEF CrashOperator, Touch
<1>13. CASE UNCHANGED vars
  BY <1>13 DEF vars
<1> QED
  BY <1>3, <1>4, <1>5, <1>6, <1>7, <1>8, <1>9, <1>10, <1>11, <1>12, <1>13
     DEF Next, Reconcile

\* The invariant of the shared queue on which the other proofs rest.
QueueOK == Typed /\ OneOutcome

(***************************************************************************)
(* The queue of the composed system begins well typed and without          *)
(* outcomes.                                                               *)
(***************************************************************************)
LEMMA QueueOKInit == Init => QueueOK
BY TypedInit, OneOutcomeInit DEF Init, QueueOK

(***************************************************************************)
(* Every step of the composed system is one the queue's invariant allows.  *)
(***************************************************************************)
LEMMA QueueOKStep == QueueOK /\ [Next]_vars => QueueOK'
BY FlowStepOfQueue, TypedStep, OneOutcomeStep DEF QueueOK

(***************************************************************************)
(* What the API server holds after an update is a flow.                    *)
(***************************************************************************)
LEMMA StoreType ==
  ASSUME api \in Flow, NEW obj \in Flow, Store(obj) \/ UNCHANGED api
  PROVE  api' \in Flow
BY DEF Store, Flow

(***************************************************************************)
(* The flow begins well typed.                                             *)
(***************************************************************************)
LEMMA FlowTypeInit == Init => FlowTypeOK
<1>1. NoFlow \in Flow
  BY InitialStatusType DEF NoFlow, Flow
<1>2. NoData \in TemplateData
  BY DEF NoData, TemplateData, StepData
<1> QED
  BY <1>1, <1>2, ArkFlowAssumption, FlowAssumption DEF Init, FlowTypeOK

(***************************************************************************)
(* Every step keeps the flow's copies, and the reconciler, well typed.     *)
(***************************************************************************)
LEMMA FlowTypeStep == QueueOK /\ FlowTypeOK /\ [Next]_vars => FlowTypeOK'
<1> SUFFICES ASSUME QueueOK, FlowTypeOK, [Next]_vars
             PROVE  FlowTypeOK'
  OBVIOUS
<1> USE FlowAssumption, ArkFlowAssumption
<1>1. /\ api \in Flow /\ cache \in Flow /\ f \in Flow /\ NoFlow \in Flow
      /\ NoData \in TemplateData
      /\ clock \in Nat
  <2>1. NoFlow \in Flow
    BY InitialStatusType DEF NoFlow, Flow
  <2>2. NoData \in TemplateData
    BY DEF NoData, TemplateData, StepData
  <2> QED
    BY <2>1, <2>2 DEF FlowTypeOK
<1>2. ASSUME EndReconcile, api' \in Flow, cache' \in Flow, wake' \in BOOLEAN,
             gate' \in Gate, UNCHANGED clock
      PROVE  FlowTypeOK'
  BY <1>1, <1>2 DEF EndReconcile, FlowTypeOK
<1>3. ASSUME UNCHANGED local, api' \in Flow, cache' \in Flow,
             wake' \in BOOLEAN, gate' \in Gate, clock' \in Nat
      PROVE  FlowTypeOK'
  BY <1>1, <1>3 DEF local, FlowTypeOK
<1>4. CASE LeaveAlone \/ ObserveEnd
  BY <1>1, <1>3, <1>4 DEF LeaveAlone, ObserveEnd, FlowTypeOK
<1>5. CASE RejectDAG \/ WaitForAgents \/ ReportNoQueue
  <2>1. PICK reason \in Reason : ReportCondition(reason)
    BY <1>5 DEF RejectDAG, WaitForAgents, ReportNoQueue, Reason
  <2>2. [cache EXCEPT !.st.reason = reason] \in Flow
    BY <1>1 DEF Flow, FlowStatus
  <2>3. api' \in Flow
    BY <1>1, <2>1, <2>2, StoreType DEF ReportCondition, UpdateIgnoringError
  <2> QED
    BY <1>1, <1>3, <2>1, <2>3 DEF ReportCondition, FlowTypeOK
<1>6. CASE Collect
  <2> DEFINE started == InitializeSteps(cache.st, clock)
             collected == ParseOutputJSON(CollectResults(started.steps))
  <2>1. cache.st \in FlowStatus
    BY <1>1 DEF Flow
  <2>2. started \in FlowStatus
    BY <1>1, <2>1, InitializeStepsType
  <2>3. started.steps \in [Step -> StepStatus]
    BY <2>2 DEF FlowStatus
  <2>4. CollectResults(started.steps) \in [Step -> StepStatus]
    BY <2>3, CollectStepType DEF CollectResults, QueueOK
  <2>5. collected \in [Step -> StepStatus]
    BY <2>4, ParseOutputJSONType
  <2>6. /\ data' = BuildTemplateData(collected)
        /\ f' = [cache EXCEPT
                   !.st = [started EXCEPT
                             !.steps = EvaluateLoops(collected, data')]]
    BY <1>6 DEF Collect
  <2> HIDE DEF started, collected
  <2>7. data' \in TemplateData
    BY <2>5, <2>6, BuildTemplateDataType
  <2>8. EvaluateLoops(collected, data') \in [Step -> StepStatus]
    BY <2>5, EvaluateLoopsType
  <2>9. [started EXCEPT !.steps = EvaluateLoops(collected, data')]
          \in FlowStatus
    BY <2>2, <2>8 DEF FlowStatus
  <2>10. f' \in Flow
    BY <1>1, <2>6, <2>9 DEF Flow
  <2>11. /\ pc' = "submit"
         /\ next' = 1
         /\ wake' = FALSE
         /\ api' = api
         /\ cache' = cache
         /\ gate' = gate
         /\ clock' = clock
    BY <1>6 DEF Collect
  <2>12. 1 \in 1 .. NSteps + 1
    OBVIOUS
  <2> QED
    BY <2>7, <2>10, <2>11, <2>12 DEF FlowTypeOK
<1>7. CASE CollectFails
  BY <1>7 DEF CollectFails, FlowTypeOK, flowVars
<1>8. ASSUME NEW s \in Step, NEW st \in StepStatus, SetStep(s, st),
             UNCHANGED <<api, cache, wake, gate, clock>>
      PROVE  FlowTypeOK'
  <2>1. [f EXCEPT !.st.steps[s] = st] \in Flow
    BY <1>1 DEF Flow, FlowStatus
  <2>2. s + 1 \in 1 .. NSteps + 1
    BY DEF Step
  <2> QED
    BY <1>8, <2>1, <2>2 DEF SetStep, FlowTypeOK
<1>9. ASSUME NEW s \in Step PROVE f.st.steps[s] \in StepStatus
  BY <1>1, <1>9 DEF Flow, FlowStatus
<1>10. ASSUME NEW s \in Step, SkipStep(s) \/ FailStep(s) PROVE FlowTypeOK'
  <2>1. \A phase \in StepPhase :
          [f.st.steps[s] EXCEPT !.phase = phase] \in StepStatus
    BY <1>9 DEF StepStatus
  <2>2. "Skipped" \in StepPhase /\ "Failed" \in StepPhase
    BY DEF StepPhase
  <2> QED
    BY <1>8, <1>10, <2>1, <2>2 DEF SkipStep, FailStep
<1>11. ASSUME NEW s \in Step, SubmitStep(s) PROVE FlowTypeOK'
  <2>1. Len(tasks) + 1 \in Nat
    BY DEF QueueOK, Typed, QueueTypeOK
  <2>2. [f.st.steps[s] EXCEPT !.phase = "Running", !.task = Len(tasks) + 1]
          \in StepStatus
    BY <1>9, <2>1 DEF StepStatus, StepPhase
  <2> QED
    BY <1>8, <1>11, <2>2 DEF SubmitStep
<1>12. ASSUME NEW s \in Step, SubmitFails(s) PROVE FlowTypeOK'
  <2>1. api' \in Flow
    BY <1>1, <1>12, StoreType DEF SubmitFails
  <2>2. /\ EndReconcile
        /\ cache' = cache
        /\ wake' = TRUE
        /\ gate' = gate
        /\ clock' = clock
    BY <1>12 DEF SubmitFails
  <2>3. cache' \in Flow /\ wake' \in BOOLEAN /\ gate' \in Gate
    BY <1>1, <2>2 DEF FlowTypeOK
  <2> QED
    BY <1>2, <2>1, <2>2, <2>3
<1>13. CASE Finish
  <2> DEFINE done == [f EXCEPT !.st = UpdateFlowPhase(f.st, data, clock)]
  <2>1. done \in Flow
    BY <1>1, UpdateFlowPhaseType DEF FlowTypeOK, Flow
  <2>2. Store(done) \/ UNCHANGED api
    BY <1>13 DEF Finish
  <2>3. api' \in Flow
    BY <1>1, <2>1, <2>2, StoreType
  <2>4. wake' \in BOOLEAN
    BY <1>13 DEF Finish, FlowTypeOK
  <2>5. EndReconcile /\ cache' = cache /\ gate' = gate /\ clock' = clock
    BY <1>13 DEF Finish
  <2>6. cache' \in Flow /\ gate' \in Gate
    BY <1>1, <2>5 DEF FlowTypeOK
  <2> QED
    BY <1>2, <2>3, <2>4, <2>5, <2>6
<1>14. CASE AgentNext /\ UNCHANGED flowVars
  BY <1>14 DEF FlowTypeOK, flowVars
<1>15. CASE SyncCache \/ Resync
  BY <1>1, <1>3, <1>15 DEF SyncCache, Resync, FlowTypeOK
<1>16. CASE CrashOperator
  <2>1. /\ EndReconcile
        /\ api' = api
        /\ cache' = api
        /\ wake' = TRUE
        /\ clock' = clock
    BY <1>16 DEF CrashOperator
  <2>2. gate' \in Gate
    BY <1>16 DEF CrashOperator, FlowTypeOK
  <2> QED
    BY <1>1, <1>2, <2>1, <2>2
<1>17. CASE Touch
  <2>1. [api EXCEPT !.rv = @ + 1] \in Flow
    BY <1>1 DEF Flow
  <2> QED
    BY <1>1, <1>3, <1>17, <2>1 DEF Touch, FlowTypeOK
<1>18. CASE ChangeGate
  <2>1. gate' \in Gate
    BY <1>18 DEF ChangeGate
  <2>2. UNCHANGED local /\ api' = api /\ cache' = cache /\ wake' = wake
    BY <1>18 DEF ChangeGate
  <2>3. clock' \in Nat
    BY <1>1, <1>18 DEF ChangeGate
  <2> QED
    BY <1>1, <1>3, <2>1, <2>2, <2>3 DEF FlowTypeOK
<1>19. CASE Tick
  <2>1. clock' \in Nat
    BY <1>1, <1>19 DEF Tick
  <2>2. /\ UNCHANGED local
        /\ api' = api
        /\ cache' = cache
        /\ wake' = wake
        /\ gate' = gate
    BY <1>19 DEF Tick
  <2> QED
    BY <1>1, <1>3, <2>1, <2>2 DEF FlowTypeOK
<1>20. CASE UNCHANGED vars
  BY <1>20 DEF vars, flowVars, FlowTypeOK
<1> QED
  BY <1>4, <1>5, <1>6, <1>7, <1>10, <1>11, <1>12, <1>13, <1>14, <1>15,
     <1>16, <1>17, <1>18, <1>19, <1>20 DEF Next, Reconcile

(***************************************************************************)
(* The queue, the flow's copies and the reconciler are well typed          *)
(* throughout.                                                             *)
(***************************************************************************)
THEOREM FlowTypes == Spec => []TypeOK
<1>1. Spec => [](QueueOK /\ FlowTypeOK)
  BY QueueOKInit, QueueOKStep, FlowTypeInit, FlowTypeStep, PTL DEF Spec
<1>2. QueueOK /\ FlowTypeOK => TypeOK
  BY DEF QueueOK, Typed, TypeOK
<1> QED
  BY <1>1, <1>2, PTL

-----------------------------------------------------------------------------
\* The copies of the flow are old or exact, and a reconciliation at work on
\* the current version works on one that has not ended.
CopiesExact ==
  /\ cache.rv <= api.rv
  /\ cache.rv = api.rv => cache.st = api.st
  /\ f.rv <= api.rv
  /\ pc = "submit" /\ f.rv = api.rv => ~IsTerminalPhase(api.st.phase)

\* What the end of a flow has fixed.
EndKept ==
  IsTerminalPhase(api.st.phase) =>
    /\ api'.st.phase = api.st.phase
    /\ api'.st.steps = api.st.steps
    /\ api'.st.output = api.st.output

(***************************************************************************)
(* A flow nobody has reconciled has not ended, and its copies are exact.   *)
(***************************************************************************)
LEMMA CopiesExactInit == Init => CopiesExact
BY DEF Init, CopiesExact, NoFlow

(***************************************************************************)
(* An update raises the version, unless it changes nothing.                *)
(***************************************************************************)
LEMMA StoreRaises ==
  ASSUME api \in Flow, NEW obj, Store(obj) \/ UNCHANGED api
  PROVE  api' = api \/ (api'.rv = api.rv + 1 /\ api'.st = obj.st)
BY DEF Store

(***************************************************************************)
(* When only the version can have risen, old copies stay old.              *)
(***************************************************************************)
LEMMA CopiesKept ==
  ASSUME FlowTypeOK, CopiesExact, UNCHANGED cache,
         f' = f \/ f' = NoFlow, pc' = pc \/ pc' = "idle",
         api' = api \/ api'.rv = api.rv + 1
  PROVE  CopiesExact'
<1>1. api.rv \in Nat /\ cache.rv \in Nat /\ f.rv \in Nat /\ NoFlow.rv = 0
  BY DEF FlowTypeOK, Flow, NoFlow
<1>2. CASE api' = api
  BY <1>1, <1>2 DEF CopiesExact
<1>3. CASE api'.rv = api.rv + 1
  BY <1>1, <1>3 DEF CopiesExact
<1> QED
  BY <1>2, <1>3

(***************************************************************************)
(* Every step keeps the copies exact or old, and the end of the flow.      *)
(***************************************************************************)
LEMMA CopiesExactStep ==
  FlowTypeOK /\ CopiesExact /\ [Next]_vars => CopiesExact' /\ EndKept
<1> SUFFICES ASSUME FlowTypeOK, CopiesExact, [Next]_vars
             PROVE  CopiesExact' /\ EndKept
  OBVIOUS
<1>1. /\ api \in Flow /\ cache \in Flow /\ f \in Flow
      /\ api.rv \in Nat /\ cache.rv \in Nat /\ f.rv \in Nat
  BY DEF FlowTypeOK, Flow
<1>2. api' = api => EndKept
  BY DEF EndKept
<1>3. ASSUME UNCHANGED <<api, cache>>, f' = f \/ f' = NoFlow,
             pc' = pc \/ pc' = "idle"
      PROVE  CopiesExact' /\ EndKept
  BY <1>2, <1>3, CopiesKept
<1>4. ASSUME EndReconcile PROVE f' = NoFlow /\ pc' = "idle"
  BY <1>4 DEF EndReconcile
<1>5. CASE LeaveAlone \/ ObserveEnd \/ ChangeGate \/ Tick \/ Resync
  BY <1>3, <1>5 DEF LeaveAlone, ObserveEnd, ChangeGate, Tick, Resync, local
<1>6. CASE RejectDAG \/ WaitForAgents \/ ReportNoQueue
  <2>1. PICK reason \in Reason : ReportCondition(reason)
    BY <1>6 DEF RejectDAG, WaitForAgents, ReportNoQueue, Reason
  <2> DEFINE obj == [cache EXCEPT !.st.reason = reason]
  <2>2. /\ obj.rv = cache.rv
        /\ obj.st.phase = cache.st.phase
        /\ obj.st.steps = cache.st.steps
        /\ obj.st.output = cache.st.output
    BY <1>1 DEF Flow, FlowStatus
  <2>3. UNCHANGED <<cache, f, pc>>
    BY <2>1 DEF ReportCondition, local
  <2>4. api' = api \/ (Accepted(obj) /\ Store(obj))
    BY <2>1 DEF ReportCondition, UpdateIgnoringError
  <2> HIDE DEF obj
  <2>5. CASE api' = api
    BY <1>3, <2>3, <2>5
  <2>6. CASE Accepted(obj) /\ Store(obj)
    <3>1. cache.st = api.st
      BY <2>2, <2>6 DEF Accepted, CopiesExact
    <3>2. api' = api \/ (api'.rv = api.rv + 1 /\ api'.st = obj.st)
      BY <1>1, <2>6, StoreRaises
    <3>3. CopiesExact'
      BY <2>3, <3>2, CopiesKept
    <3>4. EndKept
      BY <2>2, <3>1, <3>2 DEF EndKept
    <3> QED
      BY <3>3, <3>4
  <2> QED
    BY <2>4, <2>5, <2>6
<1>7. CASE Collect
  <2>1. PICK st : f' = [cache EXCEPT !.st = st]
    BY <1>7 DEF Collect
  <2>2. f'.rv = cache.rv
    BY <1>1, <2>1 DEF Flow
  <2>3. UNCHANGED <<api, cache>> /\ ~IsTerminalPhase(cache.st.phase)
    BY <1>7 DEF Collect
  <2>4. api'.rv = api.rv /\ api'.st = api.st /\ cache' = cache
    BY <2>3
  <2> QED
    BY <1>1, <1>2, <2>2, <2>3 DEF CopiesExact
<1>8. CASE CollectFails
  BY <1>3, <1>8 DEF CollectFails, flowVars
<1>9. ASSUME NEW s \in Step, NEW st, SetStep(s, st), UNCHANGED <<api, cache>>
      PROVE  CopiesExact' /\ EndKept
  <2>1. f'.rv = f.rv /\ pc' = pc
    BY <1>1, <1>9 DEF SetStep, Flow
  <2> QED
    BY <1>2, <1>9, <2>1 DEF CopiesExact
<1>10. ASSUME NEW s \in Step, SkipStep(s) \/ FailStep(s) \/ SubmitStep(s)
       PROVE  CopiesExact' /\ EndKept
  BY <1>9, <1>10 DEF SkipStep, FailStep, SubmitStep
<1>11. ASSUME NEW obj, obj.rv = f.rv, pc = "submit",
              (Accepted(obj) /\ Store(obj)) \/ UNCHANGED api,
              EndReconcile, UNCHANGED cache
       PROVE  CopiesExact' /\ EndKept
  <2>1. CASE UNCHANGED api
    BY <1>3, <1>4, <1>11, <2>1
  <2>2. CASE Accepted(obj) /\ Store(obj)
    <3>1. ~IsTerminalPhase(api.st.phase)
      BY <1>11, <2>2 DEF Accepted, CopiesExact
    <3>2. api' = api \/ api'.rv = api.rv + 1
      BY <1>1, <2>2, StoreRaises
    <3>3. CopiesExact'
      BY <1>4, <1>11, <3>2, CopiesKept
    <3> QED
      BY <3>1, <3>3 DEF EndKept
  <2> QED
    BY <1>11, <2>1, <2>2
<1>12. ASSUME NEW s \in Step, SubmitFails(s) PROVE CopiesExact' /\ EndKept
  BY <1>11, <1>12 DEF SubmitFails, Turn
<1>13. CASE Finish
  <2> DEFINE done == [f EXCEPT !.st = UpdateFlowPhase(f.st, data, clock)]
  <2>1. done.rv = f.rv
    BY <1>1 DEF Flow
  <2>2. (Accepted(done) /\ Store(done)) \/ UNCHANGED api
    BY <1>13 DEF Finish
  <2>3. pc = "submit" /\ EndReconcile /\ UNCHANGED cache
    BY <1>13 DEF Finish
  <2> HIDE DEF done
  <2> QED
    BY <1>11, <2>1, <2>2, <2>3
<1>14. CASE AgentNext /\ UNCHANGED flowVars
  BY <1>3, <1>14 DEF flowVars
<1>15. CASE SyncCache
  <2>1. UNCHANGED <<api, f, pc>> /\ cache' = api
    BY <1>15 DEF SyncCache, local
  <2> QED
    BY <1>1, <1>2, <2>1 DEF CopiesExact
<1>16. CASE CrashOperator
  <2>1. api' = api /\ cache' = api /\ f' = NoFlow /\ pc' = "idle"
    BY <1>4, <1>16 DEF CrashOperator
  <2> QED
    BY <1>1, <1>2, <2>1 DEF CopiesExact, NoFlow
<1>17. CASE Touch
  <2>1. /\ UNCHANGED <<cache, f, pc>>
        /\ api' = [api EXCEPT !.rv = @ + 1]
    BY <1>17 DEF Touch, local
  <2>2. api'.rv = api.rv + 1 /\ api'.st = api.st
    BY <1>1, <2>1 DEF Flow
  <2> QED
    BY <2>1, <2>2, CopiesKept DEF EndKept
<1>18. CASE UNCHANGED vars
  BY <1>3, <1>18 DEF vars, flowVars
<1> QED
  BY <1>5, <1>6, <1>7, <1>8, <1>10, <1>12, <1>13, <1>14, <1>15, <1>16,
     <1>17, <1>18 DEF Next, Reconcile

(***************************************************************************)
(* A flow that ended stays as it ended, however stale the cache a          *)
(* reconciliation read, and whatever failed or crashed in between.         *)
(***************************************************************************)
THEOREM FlowEndIsFinal == Spec => EndIsFinal
<1>1. Spec => [](QueueOK /\ FlowTypeOK)
  BY QueueOKInit, QueueOKStep, FlowTypeInit, FlowTypeStep, PTL DEF Spec
<1>2. FlowTypeOK /\ CopiesExact /\ [Next]_vars => CopiesExact' /\ EndKept
  BY CopiesExactStep
<1>3. EndKept => (IsTerminalPhase(api.st.phase) =>
                    /\ api'.st.phase = api.st.phase
                    /\ api'.st.steps = api.st.steps
                    /\ api'.st.output = api.st.output)
  BY DEF EndKept
<1> QED
  BY <1>1, <1>2, <1>3, CopiesExactInit, PTL DEF Spec, EndIsFinal

-----------------------------------------------------------------------------

\* OwnAnswer of one step's status st, with the streams it speaks of named.
OwnStep(ts, rs, s, st) ==
  LET submitted == {i \in DOMAIN ts : ts[i].prompt = s /\ ts[i].attempt = 0}
  IN /\ st.phase = "Running" => st.task \in submitted
     /\ st.phase = "Succeeded" =>
          \E r \in DOMAIN rs : /\ rs[r].task = st.task
                               /\ rs[r].task \in submitted
                               /\ rs[r].result = st.output

OwnSteps(ts, rs, steps) == \A s \in Step : OwnStep(ts, rs, s, steps[s])

\* The inductive form of OwnAnswer: it holds of every copy of the flow.
OwnCopies ==
  /\ OwnSteps(tasks, results, api.st.steps)
  /\ OwnSteps(tasks, results, cache.st.steps)
  /\ OwnSteps(tasks, results, f.st.steps)

\* Stream b is stream a with messages added.
Extends(a, b) ==
  /\ DOMAIN a \subseteq DOMAIN b
  /\ \A i \in DOMAIN a : b[i] = a[i]

(***************************************************************************)
(* Nothing is ever taken from the streams, and no message is changed.      *)
(***************************************************************************)
LEMMA StreamsGrow ==
  Typed /\ [SharedNext]_queueVars
    => Extends(tasks, tasks') /\ Extends(results, results')
<1> SUFFICES ASSUME Typed, [SharedNext]_queueVars
             PROVE  Extends(tasks, tasks') /\ Extends(results, results')
  OBVIOUS
<1>1. tasks \in Seq(Message) /\ results \in Seq(Answer)
  BY DEF Typed, QueueTypeOK
<1>2. Extends(tasks, tasks) /\ Extends(results, results)
  BY DEF Extends
<1>3. ASSUME NEW prompt, NEW attempt, NEW retryOf,
             XAddTask(prompt, attempt, retryOf)
      PROVE  Extends(tasks, tasks')
  BY <1>1, <1>3 DEF XAddTask, Extends
<1>4. tasks' = tasks \/ (\E prompt, attempt, retryOf :
                           XAddTask(prompt, attempt, retryOf))
  BY DEF SharedNext, AgentNext, Submit, SubmitSubtask, StartPod, Poll,
         PollLosesReply, Deliver, StopPod, FinishTask, StoreResult, Requeue,
         DeadLetter, LoseWrite, redisVars, queueVars
<1>5. results' = results \/ (\E x : results' = Append(results, x))
  BY DEF SharedNext, AgentNext, Submit, SubmitSubtask, StartPod, Poll,
         PollLosesReply, Deliver, StopPod, FinishTask, StoreResult, Requeue,
         DeadLetter, LoseWrite, redisVars, queueVars
<1>6. ASSUME NEW x, results' = Append(results, x)
      PROVE  Extends(results, results')
  BY <1>1, <1>6 DEF Extends
<1> QED
  BY <1>2, <1>3, <1>4, <1>5, <1>6

(***************************************************************************)
(* A step keeps its own answer while the streams grow.                     *)
(***************************************************************************)
LEMMA OwnGrows ==
  ASSUME NEW ts, NEW rs, NEW ts2, NEW rs2, NEW steps,
         Extends(ts, ts2), Extends(rs, rs2), OwnSteps(ts, rs, steps)
  PROVE  OwnSteps(ts2, rs2, steps)
BY DEF Extends, OwnSteps, OwnStep

(***************************************************************************)
(* InitializeSteps makes no step run or succeed.                           *)
(***************************************************************************)
LEMMA OwnInitialized ==
  ASSUME NEW st \in FlowStatus, NEW now, OwnSteps(tasks, results, st.steps)
  PROVE  OwnSteps(tasks, results, InitializeSteps(st, now).steps)
BY DEF InitializeSteps, FlowStatus, OwnSteps, OwnStep, FreshStep

(***************************************************************************)
(* collectResults gives a running step an answer to the task it waits for. *)
(***************************************************************************)
LEMMA OwnCollected ==
  ASSUME Typed, OneOutcome, NEW steps \in [Step -> StepStatus],
         OwnSteps(tasks, results, steps)
  PROVE  OwnSteps(tasks, results, CollectResults(steps))
<1> SUFFICES ASSUME NEW s \in Step
             PROVE  OwnStep(tasks, results, s, CollectStep(steps[s]))
  BY DEF OwnSteps, CollectResults
<1>1. OwnStep(tasks, results, s, steps[s]) /\ steps[s] \in StepStatus
  BY DEF OwnSteps
<1>2. CASE CollectStep(steps[s]) # steps[s]
  <2>1. PICK r \in AnswersTo(steps[s]), tokens \in Nat :
          CollectStep(steps[s]) = [steps[s] EXCEPT
                                     !.phase = "Succeeded",
                                     !.output = results[r].result,
                                     !.tokens = tokens]
    BY <1>1, <1>2, CollectStepTakes
  <2>2. /\ CollectStep(steps[s]).phase = "Succeeded"
        /\ CollectStep(steps[s]).task = steps[s].task
        /\ CollectStep(steps[s]).output = results[r].result
    BY <1>1, <2>1 DEF StepStatus
  <2>3. /\ r \in DOMAIN results
        /\ results[r].task = steps[s].task
        /\ steps[s].phase = "Running"
    BY DEF AnswersTo
  <2> QED
    BY <1>1, <2>2, <2>3 DEF OwnStep
<1> QED
  BY <1>1, <1>2

(***************************************************************************)
(* ParseOutputJSON touches neither phase, task nor output.                 *)
(***************************************************************************)
LEMMA OwnParsed ==
  ASSUME NEW steps \in [Step -> StepStatus], OwnSteps(tasks, results, steps)
  PROVE  OwnSteps(tasks, results, ParseOutputJSON(steps))
<1> SUFFICES ASSUME NEW s \in Step
             PROVE  OwnStep(tasks, results, s, ParseOutput(s, steps[s]))
  BY DEF OwnSteps, ParseOutputJSON
<1>1. /\ ParseOutput(s, steps[s]).phase = steps[s].phase
      /\ ParseOutput(s, steps[s]).task = steps[s].task
      /\ ParseOutput(s, steps[s]).output = steps[s].output
  BY DEF ParseOutput, StepStatus
<1> QED
  BY <1>1 DEF OwnSteps, OwnStep

(***************************************************************************)
(* EvaluateLoops leaves a step as it is or makes it wait again.            *)
(***************************************************************************)
LEMMA OwnLooped ==
  ASSUME NEW steps \in [Step -> StepStatus], NEW d,
         OwnSteps(tasks, results, steps)
  PROVE  OwnSteps(tasks, results, EvaluateLoops(steps, d))
<1> SUFFICES ASSUME NEW s \in Step
             PROVE  OwnStep(tasks, results, s, EvaluateLoops(steps, d)[s])
  BY DEF OwnSteps
<1>1. Reset(steps[s]).phase = "Pending"
  BY DEF Reset, StepStatus
<1>2. \/ EvaluateLoops(steps, d)[s] = steps[s]
      \/ EvaluateLoops(steps, d)[s] = Reset(steps[s])
  BY DEF EvaluateLoops
<1> QED
  BY <1>1, <1>2 DEF OwnSteps, OwnStep

(***************************************************************************)
(* UpdateFlowPhase changes no step.                                        *)
(***************************************************************************)
LEMMA PhaseKeepsSteps ==
  ASSUME NEW st \in FlowStatus, NEW d, NEW now
  PROVE  UpdateFlowPhase(st, d, now).steps = st.steps
BY DEF UpdateFlowPhase, EndAs, FlowStatus

(***************************************************************************)
(* A flow nobody has reconciled has no step that runs or has run.          *)
(***************************************************************************)
LEMMA OwnNone == ASSUME NEW ts, NEW rs PROVE OwnSteps(ts, rs, NoFlow.st.steps)
<1>1. NoFlow.st.steps = [s \in Step |-> FreshStep]
  BY DEF NoFlow, InitialStatus
<1>2. FreshStep.phase = "Pending"
  BY DEF FreshStep
<1> QED
  BY <1>1, <1>2 DEF OwnSteps, OwnStep

(***************************************************************************)
(* Nobody has anybody's answer at the beginning.                           *)
(***************************************************************************)
LEMMA OwnCopiesInit == Init => OwnCopies
BY OwnNone DEF Init, OwnCopies

(***************************************************************************)
(* No step of the system gives a step another step's answer.               *)
(***************************************************************************)
LEMMA OwnCopiesStep ==
  QueueOK /\ FlowTypeOK /\ OwnCopies /\ [Next]_vars => OwnCopies'
<1> SUFFICES ASSUME QueueOK, FlowTypeOK, OwnCopies, [Next]_vars
             PROVE  OwnCopies'
  OBVIOUS
<1>1. /\ api \in Flow /\ cache \in Flow /\ f \in Flow
      /\ api.st \in FlowStatus /\ cache.st \in FlowStatus
      /\ f.st \in FlowStatus
      /\ f.st.steps \in [Step -> StepStatus]
  BY DEF FlowTypeOK, Flow, FlowStatus
<1>2. Extends(tasks, tasks') /\ Extends(results, results')
  BY FlowStepOfQueue, StreamsGrow DEF QueueOK
<1>3. /\ OwnSteps(tasks', results', api.st.steps)
      /\ OwnSteps(tasks', results', cache.st.steps)
      /\ OwnSteps(tasks', results', f.st.steps)
      /\ OwnSteps(tasks', results', NoFlow.st.steps)
  BY <1>2, OwnGrows, OwnNone DEF OwnCopies
<1>4. ASSUME api' = api \/ OwnSteps(tasks', results', api'.st.steps),
             cache' \in {cache, api},
             f' \in {f, NoFlow} \/ OwnSteps(tasks', results', f'.st.steps)
      PROVE  OwnCopies'
  <2>1. OwnSteps(tasks', results', api'.st.steps)
    BY <1>3, <1>4
  <2>2. OwnSteps(tasks', results', cache'.st.steps)
    BY <1>3, <1>4
  <2>3. OwnSteps(tasks', results', f'.st.steps)
    BY <1>3, <1>4
  <2> QED
    BY <2>1, <2>2, <2>3 DEF OwnCopies
<1>5. ASSUME NEW obj, OwnSteps(tasks', results', obj.st.steps),
             Store(obj) \/ UNCHANGED api
      PROVE  api' = api \/ OwnSteps(tasks', results', api'.st.steps)
  BY <1>5 DEF Store
<1>6. CASE \/ LeaveAlone \/ ObserveEnd \/ ChangeGate
           \/ Tick \/ Resync \/ SyncCache
  BY <1>4, <1>6
     DEF LeaveAlone, ObserveEnd, ChangeGate, Tick, Resync, SyncCache, local
<1>7. CASE RejectDAG \/ WaitForAgents \/ ReportNoQueue
  <2>1. PICK reason \in Reason : ReportCondition(reason)
    BY <1>7 DEF RejectDAG, WaitForAgents, ReportNoQueue, Reason
  <2> DEFINE obj == [cache EXCEPT !.st.reason = reason]
  <2>2. obj.st.steps = cache.st.steps
    BY <1>1 DEF Flow, FlowStatus
  <2>3. Store(obj) \/ UNCHANGED api
    BY <2>1 DEF ReportCondition, UpdateIgnoringError
  <2> HIDE DEF obj
  <2>4. api' = api \/ OwnSteps(tasks', results', api'.st.steps)
    BY <1>3, <1>5, <2>2, <2>3
  <2>5. cache' = cache /\ f' = f
    BY <2>1 DEF ReportCondition, local
  <2> QED
    BY <1>4, <2>4, <2>5
<1>8. CASE Collect
  <2> DEFINE started == InitializeSteps(cache.st, clock)
             taken == CollectResults(started.steps)
             collected == ParseOutputJSON(taken)
             looped == EvaluateLoops(collected, data')
  <2>1. started \in FlowStatus /\ started.steps \in [Step -> StepStatus]
    BY <1>1, InitializeStepsType DEF FlowTypeOK, FlowStatus
  <2>2. taken \in [Step -> StepStatus]
    BY <2>1, CollectStepType DEF CollectResults, QueueOK
  <2>3. collected \in [Step -> StepStatus]
    BY <2>2, ParseOutputJSONType
  <2>4. OwnSteps(tasks, results, started.steps)
    BY <1>1, OwnInitialized DEF OwnCopies
  <2>5. OwnSteps(tasks, results, taken)
    BY <2>1, <2>4, OwnCollected DEF QueueOK
  <2>6. OwnSteps(tasks, results, collected)
    BY <2>2, <2>5, OwnParsed
  <2>7. OwnSteps(tasks, results, looped)
    BY <2>3, <2>6, OwnLooped
  <2>8. OwnSteps(tasks', results', looped)
    BY <1>2, <2>7, OwnGrows
  <2>9. f' = [cache EXCEPT !.st = [started EXCEPT !.steps = looped]]
    BY <1>8 DEF Collect
  <2> HIDE DEF started, looped
  <2>10. f'.st.steps = looped
    BY <1>1, <2>1, <2>9 DEF Flow, FlowStatus
  <2>11. api' = api /\ cache' = cache
    BY <1>8 DEF Collect
  <2> QED
    BY <1>4, <2>8, <2>10, <2>11
<1>9. CASE CollectFails
  BY <1>4, <1>9 DEF CollectFails, flowVars
<1>10. ASSUME NEW s \in Step, NEW st, SetStep(s, st),
              OwnStep(tasks', results', s, st), UNCHANGED <<api, cache>>
       PROVE  OwnCopies'
  <2>1. f'.st.steps = [f.st.steps EXCEPT ![s] = st]
    BY <1>1, <1>10 DEF SetStep, Flow, FlowStatus
  <2>2. OwnSteps(tasks', results', f'.st.steps)
    BY <1>1, <1>3, <1>10, <2>1 DEF OwnSteps
  <2> QED
    BY <1>4, <1>10, <2>2
<1>11. ASSUME NEW s \in Step, SkipStep(s) \/ FailStep(s) PROVE OwnCopies'
  <2>1. PICK phase \in {"Skipped", "Failed"} :
          SetStep(s, [f.st.steps[s] EXCEPT !.phase = phase])
    BY <1>11 DEF SkipStep, FailStep
  <2>2. f.st.steps[s] \in StepStatus
    BY <1>1
  <2>3. [f.st.steps[s] EXCEPT !.phase = phase].phase = phase
    BY <2>2 DEF StepStatus
  <2>4. OwnStep(tasks', results', s, [f.st.steps[s] EXCEPT !.phase = phase])
    BY <2>3 DEF OwnStep
  <2>5. UNCHANGED <<api, cache>>
    BY <1>11 DEF SkipStep, FailStep
  <2> QED
    BY <1>10, <2>1, <2>4, <2>5
<1>12. ASSUME NEW s \in Step, SubmitStep(s) PROVE OwnCopies'
  <2>1. PICK n : n = Len(tasks) + 1
    OBVIOUS
  <2>2. /\ n \in DOMAIN tasks'
        /\ tasks'[n].prompt = s
        /\ tasks'[n].attempt = 0
    BY <1>12, <2>1
       DEF QueueOK, Typed, QueueTypeOK, SubmitStep, SubmitTask, Submit,
           XAddTask
  <2> DEFINE st == [f.st.steps[s] EXCEPT !.phase = "Running", !.task = n]
  <2>3. st.phase = "Running" /\ st.task = n
    BY <1>1 DEF StepStatus
  <2>4. SetStep(s, st) /\ UNCHANGED <<api, cache>>
    BY <1>12, <2>1 DEF SubmitStep
  <2> HIDE DEF st
  <2>5. OwnStep(tasks', results', s, st)
    BY <2>2, <2>3 DEF OwnStep
  <2> QED
    BY <1>10, <2>4, <2>5
<1>13. ASSUME NEW obj, obj.st.steps = f.st.steps,
              Store(obj) \/ UNCHANGED api, EndReconcile, UNCHANGED cache
       PROVE  OwnCopies'
  <2>1. api' = api \/ OwnSteps(tasks', results', api'.st.steps)
    BY <1>3, <1>5, <1>13
  <2>2. f' = NoFlow /\ cache' = cache
    BY <1>13 DEF EndReconcile
  <2> QED
    BY <1>4, <2>1, <2>2
<1>14. ASSUME NEW s \in Step, SubmitFails(s) PROVE OwnCopies'
  BY <1>13, <1>14 DEF SubmitFails
<1>15. CASE Finish
  <2> DEFINE done == [f EXCEPT !.st = UpdateFlowPhase(f.st, data, clock)]
  <2>1. done.st.steps = f.st.steps
    BY <1>1, PhaseKeepsSteps DEF Flow
  <2>2. Store(done) \/ UNCHANGED api
    BY <1>15 DEF Finish
  <2>3. EndReconcile /\ UNCHANGED cache
    BY <1>15 DEF Finish
  <2> HIDE DEF done
  <2> QED
    BY <1>13, <2>1, <2>2, <2>3
<1>16. CASE AgentNext /\ UNCHANGED flowVars
  BY <1>4, <1>16 DEF flowVars
<1>17. CASE CrashOperator
  BY <1>4, <1>17 DEF CrashOperator, EndReconcile
<1>18. CASE Touch
  <2>1. api'.st = api.st /\ cache' = cache /\ f' = f
    BY <1>1, <1>18 DEF Touch, Flow, local
  <2> QED
    BY <1>3, <1>4, <2>1
<1>19. CASE UNCHANGED vars
  BY <1>4, <1>19 DEF vars, flowVars
<1> QED
  BY <1>6, <1>7, <1>8, <1>9, <1>11, <1>12, <1>14, <1>15, <1>16, <1>17,
     <1>18, <1>19 DEF Next, Reconcile

(***************************************************************************)
(* The task a running step waits for was submitted for it, and a step that *)
(* succeeded has an answer to that very task for its output.               *)
(***************************************************************************)
THEOREM FlowOwnAnswers == Spec => []OwnAnswer
<1>1. Spec => [](QueueOK /\ FlowTypeOK /\ OwnCopies)
  BY QueueOKInit, QueueOKStep, FlowTypeInit, FlowTypeStep, OwnCopiesInit,
     OwnCopiesStep, PTL DEF Spec
<1>2. OwnCopies => OwnAnswer
  BY DEF OwnCopies, OwnSteps, OwnStep, OwnAnswer, Submissions
<1> QED
  BY <1>1, <1>2, PTL

-----------------------------------------------------------------------------
\* The inductive form of CycleNeverRuns: the reconciler never comes to submit,
\* and only the agents' own subtasks are on the stream.
OnlySubtasks ==
  ~ValidDAG => /\ pc = "idle"
               /\ \A i \in DOMAIN tasks : tasks[i].prompt = Subtask

(***************************************************************************)
(* A message on the stream after a step of the agents was there before, is *)
(* a subtask, or is a retry and asks for what the retried message asked.   *)
(***************************************************************************)
LEMMA AgentsAddSubtasks ==
  ASSUME Typed, AgentNext, \A i \in DOMAIN tasks : tasks[i].prompt = Subtask
  PROVE  \A i \in DOMAIN tasks' : tasks'[i].prompt = Subtask
<1>1. tasks \in Seq(Message)
  BY DEF Typed, QueueTypeOK
<1>2. ASSUME NEW attempt, NEW retryOf, XAddTask(Subtask, attempt, retryOf)
      PROVE  \A i \in DOMAIN tasks' : tasks'[i].prompt = Subtask
  BY <1>1, <1>2 DEF XAddTask
<1>3. CASE \E i \in TaskId : SubmitSubtask(i)
  BY <1>2, <1>3 DEF SubmitSubtask, Submit
<1>4. CASE \E i \in TaskId : Requeue(i)
  <2>1. PICK i \in TaskId : Requeue(i)
    BY <1>4
  <2>2. i \in DOMAIN tasks
    BY <1>1, <2>1, ReadIsInStream DEF Requeue, Typed, QueueTypeOK, TaskId
  <2> QED
    BY <1>2, <2>1, <2>2 DEF Requeue
<1>5. CASE UNCHANGED tasks
  BY <1>5
<1> QED
  BY <1>3, <1>4, <1>5
     DEF AgentNext, StartPod, Poll, PollLosesReply, Deliver, StopPod,
         FinishTask, StoreResult, DeadLetter, LoseWrite, redisVars

(***************************************************************************)
(* A flow with a cycle is turned away in every reconciliation.             *)
(***************************************************************************)
LEMMA OnlySubtasksStep ==
  Typed /\ OnlySubtasks /\ [Next]_vars => OnlySubtasks'
<1> SUFFICES ASSUME Typed, OnlySubtasks, [Next]_vars, ~ValidDAG
             PROVE  /\ pc' = "idle"
                    /\ \A i \in DOMAIN tasks' : tasks'[i].prompt = Subtask
  BY DEF OnlySubtasks
<1>1. /\ pc = "idle"
      /\ \A i \in DOMAIN tasks : tasks[i].prompt = Subtask
  BY DEF OnlySubtasks
<1>2. CASE AgentNext /\ UNCHANGED flowVars
  BY <1>1, <1>2, AgentsAddSubtasks DEF flowVars
<1>3. CASE UNCHANGED vars
  BY <1>1, <1>3 DEF vars, queueVars, flowVars
<1>4. CASE Reconcile
  BY <1>1, <1>4
     DEF Reconcile, LeaveAlone, RejectDAG, WaitForAgents, ObserveEnd,
         ReportNoQueue, ReportCondition, Collect, CollectFails, SkipStep,
         FailStep, SubmitStep, SubmitFails, Turn, Finish, local, queueVars,
         redisVars
<1>5. CASE SyncCache \/ Resync \/ CrashOperator \/ Touch \/ ChangeGate \/ Tick
  BY <1>1, <1>5
     DEF SyncCache, Resync, CrashOperator, EndReconcile, Touch, ChangeGate,
         Tick, local, queueVars, redisVars
<1> QED
  BY <1>2, <1>3, <1>4, <1>5 DEF Next

(***************************************************************************)
(* Not one step of a flow with a cycle is ever submitted, however large    *)
(* the flow and however small the cycle.                                   *)
(***************************************************************************)
THEOREM CyclesNeverRun == Spec => []CycleNeverRuns
<1>1. Init => OnlySubtasks
  BY DEF Init, QueueInit, OnlySubtasks
<1>2. Spec => [](QueueOK /\ OnlySubtasks)
  <2>1. QueueOK => Typed
    BY DEF QueueOK
  <2> QED
    BY <1>1, <2>1, QueueOKInit, QueueOKStep, OnlySubtasksStep, PTL DEF Spec
<1>3. OnlySubtasks => CycleNeverRuns
  BY ArkFlowAssumption
     DEF OnlySubtasks, CycleNeverRuns, ValidDAG, Submissions
<1> QED
  BY <1>2, <1>3, PTL
=============================================================================
