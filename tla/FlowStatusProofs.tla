--------------------------- MODULE FlowStatusProofs ---------------------------
(***************************************************************************)
(* What the status of an ArkFlow says is true, at rest and while a         *)
(* reconciliation works on a copy of it: for every flow, and any number of *)
(* agents, retries, stale reads and disruptions.                           *)
(***************************************************************************)
EXTENDS ArkFlowProofs, FiniteSetTheorems, WellFoundedInduction

\* A step of the system that neither stores a status nor works on one.
Quiet ==
  /\ api'.st = api.st
  /\ api' = api \/ (api'.rv = api.rv + 1 /\ disruptions' # disruptions)
  /\ cache' \in {cache, api}
  /\ \/ UNCHANGED local
     \/ pc' = "idle" /\ f' = NoFlow /\ disruptions' # disruptions

\* An early return stores a condition, unless the update fails.
Reports(reason) ==
  /\ pc = "idle"
  /\ \/ reason = "DeploymentNotFound"
     \/ ~ValidDAG
     \/ ~IsTerminalPhase(cache.st.phase)
  /\ UNCHANGED <<local, cache>>
  /\ \/ api' = api
     \/ /\ cache.rv = api.rv
        /\ api'.st = [cache.st EXCEPT !.reason = reason]

\* submitPendingSteps gives step s the status st.
Decides(s, st) ==
  /\ pc = "submit"
  /\ Ready(s)
  /\ SetStep(s, st)
  /\ UNCHANGED <<api, cache>>
  /\ \/ \E phase \in {"Skipped", "Failed"} :
          st = [f.st.steps[s] EXCEPT !.phase = phase]
     \/ /\ SubmitStep(s)
        /\ \E task \in Nat :
             st = [f.st.steps[s] EXCEPT !.phase = "Running", !.task = task]

\* The reconciliation ends and stores the status st, unless the update fails.
\* Without a disruption it fails only on a copy that is out of date.
Writes(st) ==
  /\ pc = "submit"
  /\ pc' = "idle" /\ f' = NoFlow
  /\ cache' = cache
  /\ api' = api \/ (f.rv = api.rv /\ api'.st = st)
  /\ disruptions' = disruptions /\ f.rv = api.rv => api'.st = st

(***************************************************************************)
(* What a step of the system does to the copies of the flow's status.      *)
(***************************************************************************)
LEMMA StatusMoves ==
  ASSUME Typed, FlowTypeOK, [Next]_vars
  PROVE  \/ Quiet
         \/ \E reason \in Reason : Reports(reason)
         \/ Collect
         \/ \E s \in Step, st \in StepStatus : Decides(s, st)
         \/ \E s \in Step : Ready(s) /\ Writes(f.st)
         \/ /\ pc = "submit"
            /\ Writes(UpdateFlowPhase(f.st, data, clock))
<1>1. /\ api \in Flow /\ cache \in Flow /\ f \in Flow
      /\ f.st.steps \in [Step -> StepStatus]
      /\ cache.st \in FlowStatus
  BY DEF FlowTypeOK, Flow, FlowStatus
<1>2. ASSUME NEW obj, Accepted(obj) /\ Store(obj)
      PROVE  api'.st = obj.st /\ (api' = api \/ obj.rv = api.rv)
  BY <1>2 DEF Accepted, Store
<1>11. disruptions \in Nat /\ (Disrupt => disruptions' # disruptions)
  BY QueueAssumption DEF Typed, QueueTypeOK, Disrupt
<1>3. CASE LeaveAlone \/ ObserveEnd \/ CollectFails \/ SyncCache \/ Resync
            \/ ChangeGate \/ Tick \/ UNCHANGED vars
            \/ (AgentNext /\ UNCHANGED flowVars)
  <2>1. UNCHANGED <<api, local>> /\ cache' \in {cache, api}
    BY <1>3 DEF LeaveAlone, ObserveEnd, CollectFails, SyncCache, Resync,
                ChangeGate, Tick, vars, flowVars, local
  <2> QED
    BY <2>1 DEF Quiet
<1>4. CASE CrashOperator
  <2>1. /\ api' = api /\ cache' = api
        /\ pc' = "idle" /\ f' = NoFlow /\ disruptions' # disruptions
    BY <1>4, <1>11 DEF CrashOperator, EndReconcile
  <2> QED
    BY <2>1 DEF Quiet
<1>5. CASE Touch
  <2>1. UNCHANGED local /\ cache' = cache /\ api' = [api EXCEPT !.rv = @ + 1]
    BY <1>5 DEF Touch
  <2>2. /\ api'.st = api.st /\ api'.rv = api.rv + 1
        /\ disruptions' # disruptions
    BY <1>1, <1>5, <1>11, <2>1 DEF Touch, Flow
  <2> QED
    BY <2>1, <2>2 DEF Quiet
<1>6. CASE RejectDAG \/ WaitForAgents \/ ReportNoQueue
  <2>1. PICK reason \in Reason :
          /\ ReportCondition(reason)
          /\ \/ reason = "DeploymentNotFound"
             \/ ~ValidDAG
             \/ ~IsTerminalPhase(cache.st.phase)
    BY <1>6 DEF RejectDAG, WaitForAgents, ReportNoQueue, Reason
  <2> DEFINE obj == [cache EXCEPT !.st.reason = reason]
  <2>2. obj.rv = cache.rv /\ obj.st = [cache.st EXCEPT !.reason = reason]
    BY <1>1 DEF Flow
  <2>3. UNCHANGED <<local, cache>> /\ pc = "idle"
    BY <1>6, <2>1 DEF ReportCondition, RejectDAG, WaitForAgents,
                      ReportNoQueue, Begin
  <2>4. api' = api \/ (Accepted(obj) /\ Store(obj))
    BY <2>1 DEF ReportCondition, UpdateIgnoringError
  <2> HIDE DEF obj
  <2>5. Reports(reason)
    BY <1>2, <2>1, <2>2, <2>3, <2>4 DEF Reports
  <2> QED
    BY <2>5
<1>7. ASSUME NEW s \in Step, SkipStep(s) \/ FailStep(s)
      PROVE  \E st \in StepStatus : Decides(s, st)
  <2>1. PICK phase \in {"Skipped", "Failed"} :
          SetStep(s, [f.st.steps[s] EXCEPT !.phase = phase])
    BY <1>7 DEF SkipStep, FailStep
  <2>2. [f.st.steps[s] EXCEPT !.phase = phase] \in StepStatus
    BY <1>1 DEF StepStatus, StepPhase
  <2>3. pc = "submit" /\ Ready(s) /\ UNCHANGED <<api, cache>>
    BY <1>7 DEF SkipStep, FailStep, Turn
  <2> QED
    BY <2>1, <2>2, <2>3 DEF Decides
<1>8. ASSUME NEW s \in Step, SubmitStep(s)
      PROVE  \E st \in StepStatus : Decides(s, st)
  <2>1. PICK task \in Nat : task = Len(tasks) + 1
    BY DEF Typed, QueueTypeOK
  <2>2. [f.st.steps[s] EXCEPT !.phase = "Running", !.task = task]
          \in StepStatus
    BY <1>1 DEF StepStatus, StepPhase
  <2>3. /\ SetStep(s, [f.st.steps[s] EXCEPT !.phase = "Running",
                                            !.task = task])
        /\ pc = "submit" /\ Ready(s) /\ UNCHANGED <<api, cache>>
    BY <1>8, <2>1 DEF SubmitStep, Turn
  <2> QED
    BY <1>8, <2>2, <2>3 DEF Decides
<1>9. ASSUME NEW s \in Step, SubmitFails(s) PROVE Ready(s) /\ Writes(f.st)
  <2>1. api' = api \/ (Accepted(f) /\ Store(f))
    BY <1>9 DEF SubmitFails
  <2>2. /\ pc = "submit" /\ Ready(s) /\ EndReconcile /\ cache' = cache
        /\ disruptions' # disruptions
    BY <1>9, <1>11 DEF SubmitFails, Turn
  <2> QED
    BY <1>2, <2>1, <2>2 DEF Writes, EndReconcile
<1>10. CASE Finish
  <2> DEFINE st == UpdateFlowPhase(f.st, data, clock)
             done == [f EXCEPT !.st = st]
  <2>1. done.rv = f.rv /\ done.st = st
    BY <1>1 DEF Flow
  <2>2. \/ Accepted(done) /\ Store(done)
        \/ api' = api /\ (~Accepted(done) \/ disruptions' # disruptions)
    BY <1>10, <1>11 DEF Finish
  <2>3. pc = "submit" /\ EndReconcile /\ cache' = cache
    BY <1>10 DEF Finish
  <2> HIDE DEF done, st
  <2>4. Writes(st)
    BY <1>2, <2>1, <2>2, <2>3 DEF Writes, EndReconcile, Accepted
  <2> QED
    BY <2>3, <2>4 DEF st
<1> QED
  BY <1>3, <1>4, <1>5, <1>6, <1>7, <1>8, <1>9, <1>10 DEF Next, Reconcile

-----------------------------------------------------------------------------
\* The parsed output of step s is that of its output: ParsedOutputCurrent of
\* one step.
Parsed(s, st) ==
  st.json = IF s \in HasSchema /\ st.phase = "Succeeded"
               /\ st.output \in JSONOutput
            THEN st.output ELSE Empty

\* Template data d has the output of step s, unless a reset took it back.
Shown(d, s, st) ==
  d[s].output = st.output \/ (st.phase # "Succeeded" /\ st.iterations > 0)

\* ConditionSaysHow of one copy of the status.
SaysHow(st) ==
  /\ st.phase = "Succeeded" => st.reason \in {"Succeeded",
                                              "DeploymentNotFound"}
  /\ st.phase = "Failed" =>
       st.reason \in {"TimedOut", "BudgetExceeded", "StepFailed",
                      "DeploymentNotFound"}

\* SuccessIsComplete of one copy of the status.
Complete(st) ==
  /\ AllDone(st.steps)
  /\ ~OverBudget(st.steps)
  /\ \A s \in Step : Shown(st.output, s, st.steps[s])

\* What every stored status satisfies.
Sound(st) ==
  /\ st.phase = "new" => \A s \in Step : st.steps[s] = FreshStep
  /\ st.phase # "new" => ValidDAG
  /\ \A s \in Step : Parsed(s, st.steps[s])
  /\ SaysHow(st)
  /\ st.phase = "Running" => ~AllDone(st.steps)
  /\ st.phase = "Succeeded" => Complete(st)

\* What the status a reconciliation works on satisfies.
InWork(st, d) ==
  /\ st.phase = "Running"
  /\ ValidDAG
  /\ \A s \in Step : Parsed(s, st.steps[s])
  /\ \A s \in Step : Shown(d, s, st.steps[s])

\* The inductive form of what the status says: it holds of every copy.
StatusSound ==
  /\ Sound(api.st)
  /\ Sound(cache.st)
  /\ pc = "submit" => InWork(f.st, data)


(***************************************************************************)
(* ParseOutputJSON leaves a step alone whose parsed output is current, and *)
(* makes that of a step current that has just succeeded.                   *)
(***************************************************************************)
LEMMA ParseIsCurrent ==
  ASSUME NEW s \in Step, NEW st \in StepStatus
  PROVE  /\ Parsed(s, st) => ParseOutput(s, st) = st
         /\ st.phase = "Succeeded" /\ st.json = Empty
              => Parsed(s, ParseOutput(s, st))
<1>1. Empty \notin JSONOutput
  BY FlowAssumption
<1>2. ASSUME Parsed(s, st) PROVE ParseOutput(s, st) = st
  BY <1>1, <1>2 DEF Parsed, ParseOutput
<1>3. ASSUME st.phase = "Succeeded", st.json = Empty
      PROVE  Parsed(s, ParseOutput(s, st))
  BY <1>3 DEF Parsed, ParseOutput, StepStatus
<1> QED
  BY <1>2, <1>3

(***************************************************************************)
(* A step reset for the next iteration of its loop.                        *)
(***************************************************************************)
LEMMA ResetStep ==
  ASSUME NEW st \in StepStatus
  PROVE  /\ Reset(st).phase = "Pending"
         /\ Reset(st).json = Empty
         /\ Reset(st).iterations = st.iterations + 1
<1>1. DOMAIN st = {"phase", "task", "output", "json", "iterations", "tokens"}
  BY DEF StepStatus
<1> QED
  BY <1>1 DEF Reset

(***************************************************************************)
(* collectResults changes a step only if its task has been answered.       *)
(***************************************************************************)
LEMMA CollectStepMoves ==
  ASSUME Typed, OneOutcome, NEW st \in StepStatus
  PROVE  \/ CollectStep(st) = st
         \/ /\ st.phase = "Running"
            /\ CollectStep(st).phase = "Succeeded"
            /\ CollectStep(st).task = st.task
            /\ CollectStep(st).json = st.json
            /\ CollectStep(st).iterations = st.iterations
            /\ \E r \in DOMAIN results : results[r].task = st.task
<1>1. CASE CollectStep(st) # st
  <2>1. PICK r \in AnswersTo(st), tokens \in Nat :
          CollectStep(st) = [st EXCEPT !.phase = "Succeeded",
                                       !.output = results[r].result,
                                       !.tokens = tokens]
    BY <1>1, CollectStepTakes
  <2>2. /\ CollectStep(st).phase = "Succeeded"
        /\ CollectStep(st).task = st.task
        /\ CollectStep(st).json = st.json
        /\ CollectStep(st).iterations = st.iterations
    BY <2>1 DEF StepStatus
  <2> QED
    BY <2>1, <2>2 DEF AnswersTo
<1> QED
  BY <1>1

(***************************************************************************)
(* What a reconciliation makes of one step before it submits any: step     *)
(* "old" of the status, "mid" with its result, "new" after the loops.      *)
(***************************************************************************)
Brought(s, old, mid, new) ==
  /\ mid \in StepStatus /\ new \in StepStatus
  /\ \/ mid = old
     \/ /\ old.phase = "Running"
        /\ mid.phase = "Succeeded"
        /\ mid.task = old.task
        /\ \E r \in DOMAIN results : results[r].task = old.task
  /\ mid.iterations = old.iterations
  /\ Parsed(s, mid)
  /\ data'[s] = [output |-> mid.output, data |-> mid.json]
  /\ new = IF LoopsAgain(s, mid, data') THEN Reset(mid) ELSE mid

(***************************************************************************)
(* Collect starts the flow if nobody has, and brings every step up to      *)
(* date.                                                                   *)
(***************************************************************************)
LEMMA CollectBrings ==
  ASSUME Typed, OneOutcome, FlowTypeOK, Sound(cache.st), Collect
  PROVE  /\ f'.rv = cache.rv /\ f'.st.phase = "Running" /\ ValidDAG
         /\ data' \in TemplateData
         /\ pc' = "submit" /\ pc = "idle" /\ UNCHANGED <<api, cache>>
         /\ \A s \in Step : \E mid :
              Brought(s, cache.st.steps[s], mid, f'.st.steps[s])
<1> DEFINE started == InitializeSteps(cache.st, clock)
           taken == CollectResults(started.steps)
           collected == ParseOutputJSON(taken)
           looped == EvaluateLoops(collected, data')
<1>1. /\ cache \in Flow /\ cache.st \in FlowStatus /\ clock \in Nat
      /\ cache.st.steps \in [Step -> StepStatus]
      /\ cache.st.phase \in FlowPhase
  BY DEF FlowTypeOK, Flow, FlowStatus
<1>2. started \in FlowStatus /\ started.steps \in [Step -> StepStatus]
  BY <1>1, InitializeStepsType DEF FlowStatus
<1>3. taken \in [Step -> StepStatus]
  BY <1>2, CollectStepType DEF CollectResults
<1>4. collected \in [Step -> StepStatus]
  BY <1>3, ParseOutputJSONType
<1>5. looped \in [Step -> StepStatus]
  BY <1>4, EvaluateLoopsType
<1>6. /\ data' = BuildTemplateData(collected)
      /\ f' = [cache EXCEPT !.st = [started EXCEPT !.steps = looped]]
      /\ pc' = "submit" /\ pc = "idle" /\ UNCHANGED <<api, cache>>
      /\ ValidDAG
      /\ ~IsTerminalPhase(cache.st.phase)
  BY DEF Collect, Begin
<1>7. data' \in TemplateData
  BY <1>4, <1>6, BuildTemplateDataType
<1>8. started.phase = "Running"
  BY <1>1, <1>6
     DEF InitializeSteps, FlowStatus, FlowPhase, IsTerminalPhase
<1>9. \A s \in Step : started.steps[s] = cache.st.steps[s]
  BY <1>1 DEF InitializeSteps, FlowStatus, Sound
<1>10. f'.rv = cache.rv /\ f'.st.phase = "Running" /\ f'.st.steps = looped
  <2> HIDE DEF started, looped
  <2> QED
    BY <1>1, <1>2, <1>6, <1>8 DEF Flow, FlowStatus
<1>11. ASSUME NEW s \in Step
       PROVE  Brought(s, cache.st.steps[s], collected[s], looped[s])
  <2> DEFINE old == cache.st.steps[s]
             got == CollectStep(old)
             mid == ParseOutput(s, got)
  <2>1. old \in StepStatus /\ Parsed(s, old)
    BY <1>1 DEF Sound
  <2>2. taken[s] = got /\ got \in StepStatus
    BY <1>3, <1>9 DEF CollectResults
  <2>3. collected[s] = mid /\ mid \in StepStatus
    BY <1>4, <2>2 DEF ParseOutputJSON
  <2>4. CASE got = old
    <3>1. mid = old
      BY <2>1, <2>2, <2>4, ParseIsCurrent
    <3> QED
      BY <2>1, <2>3, <2>4, <3>1, <1>5, <1>6
         DEF Brought, BuildTemplateData, EvaluateLoops
  <2>5. CASE got # old
    <3>1. /\ old.phase = "Running"
          /\ got.phase = "Succeeded"
          /\ got.task = old.task
          /\ got.json = old.json
          /\ got.iterations = old.iterations
          /\ \E r \in DOMAIN results : results[r].task = old.task
      BY <2>1, <2>5, CollectStepMoves
    <3>2. got.json = Empty
      BY <2>1, <3>1 DEF Parsed
    <3> HIDE DEF got
    <3>3. Parsed(s, mid)
      BY <2>2, <3>1, <3>2, ParseIsCurrent
    <3>4. /\ mid.phase = got.phase
          /\ mid.task = got.task
          /\ mid.iterations = got.iterations
      BY <2>2 DEF ParseOutput, StepStatus
    <3> HIDE DEF mid
    <3> QED
      BY <2>3, <3>1, <3>3, <3>4, <1>5, <1>6
         DEF Brought, BuildTemplateData, EvaluateLoops
  <2> QED
    BY <2>4, <2>5
<1> HIDE DEF collected, looped
<1> QED
  BY <1>6, <1>7, <1>10, <1>11

(***************************************************************************)
(* The status of a flow nobody has reconciled is sound.                    *)
(***************************************************************************)
LEMMA SoundAtFirst == Sound(NoFlow.st)
<1>1. NoFlow.st = InitialStatus
  BY DEF NoFlow
<1>2. InitialStatus.phase = "new"
  BY DEF InitialStatus
<1>3. \A s \in Step : InitialStatus.steps[s] = FreshStep
  BY DEF InitialStatus
<1>4. FreshStep.phase = "Pending" /\ FreshStep.json = Empty
  BY DEF FreshStep
<1> QED
  BY <1>1, <1>2, <1>3, <1>4 DEF Sound, Parsed, SaysHow

(***************************************************************************)
(* A condition that an early return stores leaves a sound status sound.    *)
(***************************************************************************)
LEMMA SoundReported ==
  ASSUME NEW st \in FlowStatus, Sound(st), NEW reason \in Reason,
         \/ reason = "DeploymentNotFound"
         \/ ~ValidDAG
         \/ ~IsTerminalPhase(st.phase)
  PROVE  Sound([st EXCEPT !.reason = reason])
<1> DEFINE new == [st EXCEPT !.reason = reason]
<1>1. /\ new.phase = st.phase
      /\ new.steps = st.steps
      /\ new.output = st.output
      /\ new.reason = reason
  BY DEF FlowStatus
<1> HIDE DEF new
<1>2. SaysHow(new)
  BY <1>1 DEF Sound, SaysHow, IsTerminalPhase
<1>3. st.phase = "Succeeded" => Complete(new)
  BY <1>1 DEF Sound, Complete
<1> QED
  BY <1>1, <1>2, <1>3 DEF Sound, new

(***************************************************************************)
(* UpdateFlowPhase makes a sound status of the one worked on.              *)
(***************************************************************************)
LEMMA SoundUpdated ==
  ASSUME NEW st \in FlowStatus, NEW d \in TemplateData, NEW now,
         InWork(st, d)
  PROVE  Sound(UpdateFlowPhase(st, d, now))
<1> DEFINE new == UpdateFlowPhase(st, d, now)
<1>1. ASSUME NEW phase, NEW reason
      PROVE  /\ EndAs(st, phase, reason).phase = phase
             /\ EndAs(st, phase, reason).reason = reason
             /\ EndAs(st, phase, reason).steps = st.steps
  BY DEF EndAs, FlowStatus
<1>2. new.steps = st.steps
  BY PhaseKeepsSteps
<1>3. ASSUME NEW reason \in {"TimedOut", "BudgetExceeded", "StepFailed"},
             new = EndAs(st, "Failed", reason)
      PROVE  Sound(new)
  <2>1. new.phase = "Failed" /\ new.reason = reason
    BY <1>1, <1>3
  <2> HIDE DEF new
  <2> QED
    BY <1>2, <2>1 DEF Sound, InWork, SaysHow
<1>4. ASSUME new = [EndAs(st, "Succeeded", "Succeeded") EXCEPT !.output = d],
             AllDone(st.steps), ~OverBudget(st.steps)
      PROVE  Sound(new)
  <2>1. new.phase = "Succeeded" /\ new.reason = "Succeeded" /\ new.output = d
    BY <1>4 DEF EndAs, FlowStatus
  <2> HIDE DEF new
  <2>2. SaysHow(new) /\ Complete(new)
    BY <1>2, <1>4, <2>1 DEF InWork, SaysHow, Complete
  <2> QED
    BY <1>2, <2>1, <2>2 DEF Sound, InWork
<1>5. ASSUME new = st, ~AllDone(st.steps)
      PROVE  Sound(new)
  BY <1>5 DEF Sound, InWork, SaysHow
<1> QED
  BY <1>3, <1>4, <1>5 DEF UpdateFlowPhase

(***************************************************************************)
(* A reconciliation that gives up in the middle writes a sound status.     *)
(***************************************************************************)
LEMMA SoundGivenUp ==
  ASSUME NEW st, NEW d, InWork(st, d), NEW s \in Step,
         st.steps[s].phase = "Pending"
  PROVE  Sound(st)
BY DEF InWork, Sound, SaysHow, AllDone, StepDone

(***************************************************************************)
(* Collect builds the template data of the steps it has collected, and the *)
(* loops take back the output of some of them.                             *)
(***************************************************************************)
LEMMA WorkBegun ==
  ASSUME Typed, OneOutcome, FlowTypeOK, Sound(cache.st), Collect
  PROVE  InWork(f'.st, data')
<1>1. /\ f'.st.phase = "Running"
      /\ ValidDAG
      /\ \A s \in Step : \E mid :
           Brought(s, cache.st.steps[s], mid, f'.st.steps[s])
  BY CollectBrings
<1>2. ASSUME NEW s \in Step
      PROVE  /\ Parsed(s, f'.st.steps[s])
             /\ Shown(data', s, f'.st.steps[s])
  <2>1. PICK mid : Brought(s, cache.st.steps[s], mid, f'.st.steps[s])
    BY <1>1
  <2>2. CASE LoopsAgain(s, mid, data')
    <3>1. f'.st.steps[s] = Reset(mid) /\ mid.iterations \in Nat
      BY <2>1, <2>2 DEF Brought, StepStatus
    <3>2. /\ Reset(mid).phase = "Pending"
          /\ Reset(mid).json = Empty
          /\ Reset(mid).iterations = mid.iterations + 1
      BY <2>1, ResetStep DEF Brought
    <3>3. mid.iterations + 1 > 0
      BY <3>1
    <3> QED
      BY <3>1, <3>2, <3>3 DEF Parsed, Shown
  <2>3. CASE ~LoopsAgain(s, mid, data')
    BY <2>1, <2>3 DEF Brought, Shown
  <2> QED
    BY <2>2, <2>3
<1> QED
  BY <1>1, <1>2 DEF InWork

(***************************************************************************)
(* Deciding about a step that waits shows or takes back nothing.           *)
(***************************************************************************)
LEMMA WorkDecided ==
  ASSUME FlowTypeOK, InWork(f.st, data), NEW s \in Step, NEW st \in StepStatus,
         Decides(s, st)
  PROVE  /\ pc' = pc /\ data' = data
         /\ f'.st.phase = f.st.phase
         /\ f'.st.steps = [f.st.steps EXCEPT ![s] = st]
         /\ f.st.steps[s].phase = "Pending"
         /\ st.phase \in {"Skipped", "Failed", "Running"}
         /\ st.iterations = f.st.steps[s].iterations
         /\ InWork(f'.st, data')
<1>1. f \in Flow /\ f.st.steps \in [Step -> StepStatus]
  BY DEF FlowTypeOK, Flow, FlowStatus
<1>2. /\ f' = [f EXCEPT !.st.steps[s] = st]
      /\ pc' = pc /\ data' = data
      /\ f.st.steps[s].phase = "Pending"
  BY DEF Decides, SetStep, Ready
<1>3. /\ f'.st.phase = f.st.phase
      /\ f'.st.steps = [f.st.steps EXCEPT ![s] = st]
  BY <1>1, <1>2 DEF Flow, FlowStatus
<1>4. /\ st.phase \in {"Skipped", "Failed", "Running"}
      /\ st.output = f.st.steps[s].output
      /\ st.json = f.st.steps[s].json
      /\ st.iterations = f.st.steps[s].iterations
  <2>1. f.st.steps[s] \in StepStatus
    BY <1>1
  <2> QED
    BY <2>1 DEF Decides, StepStatus
<1>5. Parsed(s, st) /\ Shown(data, s, st)
  BY <1>2, <1>4 DEF InWork, Parsed, Shown
<1>6. \A t \in Step : /\ Parsed(t, f'.st.steps[t])
                      /\ Shown(data, t, f'.st.steps[t])
  BY <1>1, <1>3, <1>5 DEF InWork
<1> QED
  BY <1>2, <1>3, <1>4, <1>6 DEF InWork

(***************************************************************************)
(* Everything that is said of the flow at the beginning is true.           *)
(***************************************************************************)
LEMMA StatusSoundInit == Init => StatusSound
BY SoundAtFirst DEF Init, StatusSound

(***************************************************************************)
(* No step of the system makes the status, or a copy of it, unsound.       *)
(***************************************************************************)
LEMMA StatusSoundStep ==
  QueueOK /\ FlowTypeOK /\ StatusSound /\ [Next]_vars => StatusSound'
<1> SUFFICES ASSUME QueueOK, FlowTypeOK, StatusSound, [Next]_vars
             PROVE  StatusSound'
  OBVIOUS
<1>1. /\ Sound(api.st)
      /\ Sound(cache.st)
      /\ pc = "submit" => InWork(f.st, data)
  BY DEF StatusSound
<1>2. /\ Typed /\ OneOutcome
      /\ cache.st \in FlowStatus /\ f.st \in FlowStatus
      /\ data \in TemplateData
  BY DEF QueueOK, FlowTypeOK, Flow
<1>3. CASE Quiet
  <2>1. api'.st = api.st /\ cache' \in {cache, api}
    BY <1>3 DEF Quiet
  <2>2. pc' = "submit" => pc = "submit" /\ f' = f /\ data' = data
    BY <1>3 DEF Quiet, local
  <2> QED
    BY <1>1, <2>1, <2>2 DEF StatusSound
<1>4. ASSUME NEW reason \in Reason, Reports(reason) PROVE StatusSound'
  <2>1. api' = api \/ api'.st = [cache.st EXCEPT !.reason = reason]
    BY <1>4 DEF Reports
  <2>2. Sound([cache.st EXCEPT !.reason = reason])
    BY <1>1, <1>2, <1>4, SoundReported DEF Reports
  <2>3. cache' = cache /\ pc' = "idle"
    BY <1>4 DEF Reports, local
  <2> QED
    BY <1>1, <2>1, <2>2, <2>3 DEF StatusSound
<1>5. CASE Collect
  <2>1. InWork(f'.st, data') /\ UNCHANGED <<api, cache>>
    BY <1>1, <1>2, <1>5, WorkBegun, CollectBrings
  <2> QED
    BY <1>1, <2>1 DEF StatusSound
<1>6. ASSUME NEW s \in Step, NEW st \in StepStatus, Decides(s, st)
      PROVE  StatusSound'
  <2>1. InWork(f.st, data) /\ UNCHANGED <<api, cache>>
    BY <1>1, <1>6 DEF Decides
  <2>2. InWork(f'.st, data')
    BY <1>6, <2>1, WorkDecided
  <2> QED
    BY <1>1, <2>1, <2>2 DEF StatusSound
<1>7. ASSUME NEW st, Writes(st), Sound(st) PROVE StatusSound'
  <2>1. api' = api \/ api'.st = st
    BY <1>7 DEF Writes
  <2>2. cache' = cache /\ pc' = "idle"
    BY <1>7 DEF Writes
  <2> QED
    BY <1>1, <1>7, <2>1, <2>2 DEF StatusSound
<1>8. ASSUME NEW s \in Step, Ready(s), Writes(f.st) PROVE StatusSound'
  <2>1. f.st.steps[s].phase = "Pending" /\ InWork(f.st, data)
    BY <1>1, <1>8 DEF Ready, Writes
  <2> QED
    BY <1>7, <1>8, <2>1, SoundGivenUp
<1>9. CASE pc = "submit" /\ Writes(UpdateFlowPhase(f.st, data, clock))
  BY <1>1, <1>2, <1>7, <1>9, SoundUpdated
<1> QED
  BY <1>2, <1>3, <1>4, <1>5, <1>6, <1>8, <1>9, StatusMoves

(***************************************************************************)
(* The queue, the types and what the status says hold together.            *)
(***************************************************************************)
LEMMA StatusAlwaysSound == Spec => [](QueueOK /\ FlowTypeOK /\ StatusSound)
BY QueueOKInit, QueueOKStep, FlowTypeInit, FlowTypeStep, StatusSoundInit,
   StatusSoundStep, PTL DEF Spec

(***************************************************************************)
(* The parsed output of a step is always that of its current output, also  *)
(* after loops, crashes and writes that were lost.                         *)
(***************************************************************************)
THEOREM FlowParsedOutput == Spec => []ParsedOutputCurrent
<1>1. StatusSound => ParsedOutputCurrent
  BY DEF StatusSound, Sound, Parsed, ParsedOutputCurrent
<1> QED
  BY <1>1, StatusAlwaysSound, PTL

(***************************************************************************)
(* The condition of an ended flow says how it ended, whatever stood in the *)
(* way of reconciliations since.                                           *)
(***************************************************************************)
THEOREM FlowConditionSaysHow == Spec => []ConditionSaysHow
<1>1. StatusSound => ConditionSaysHow
  BY DEF StatusSound, Sound, SaysHow, ConditionSaysHow
<1> QED
  BY <1>1, StatusAlwaysSound, PTL

(***************************************************************************)
(* A running flow always has a step in flight, failed, or ready: of the    *)
(* steps that are not done, one depends on none of the others.             *)
(***************************************************************************)
THEOREM FlowNeverStuck == Spec => []NeverStuck
<1>1. ASSUME FlowTypeOK, StatusSound, api.st.phase = "Running"
      PROVE  \E s \in Step :
               \/ Phase(s) \in {"Running", "Failed"}
               \/ Phase(s) = "Pending" /\ DepsSucceeded(s, api.st.steps)
  <2>1. ValidDAG /\ ~AllDone(api.st.steps)
    BY <1>1 DEF StatusSound, Sound
  <2> DEFINE open == {s \in Step : ~StepDone(api.st.steps[s])}
  <2>2. open # {}
    BY <2>1 DEF AllDone
  <2>3. PICK s \in open : DependsOn[s] \intersect open = {}
    BY <2>1, <2>2 DEF ValidDAG
  <2>4. DepsSucceeded(s, api.st.steps)
    BY <2>3, FlowAssumption DEF DepsSucceeded
  <2>5. api.st.steps[s].phase \in StepPhase
    BY <1>1, <2>3 DEF FlowTypeOK, Flow, FlowStatus, StepStatus
  <2> QED
    BY <2>3, <2>4, <2>5 DEF StepPhase, StepDone, Phase
<1>2. FlowTypeOK /\ StatusSound => NeverStuck
  BY <1>1 DEF NeverStuck
<1> QED
  BY <1>2, StatusAlwaysSound, PTL

-----------------------------------------------------------------------------
(***************************************************************************)
(* Induction over the natural numbers, for a set of them.                  *)
(***************************************************************************)
LEMMA NatIsInduced ==
  ASSUME NEW P, 0 \in P, \A n \in Nat : n \in P => n + 1 \in P
  PROVE  Nat \subseteq P
<1> SUFFICES ASSUME Nat \ P # {} PROVE FALSE
  OBVIOUS
<1> DEFINE R == OpToRel(<, Nat)
<1>1. IsWellFoundedOn(R, Nat)
  BY NatLessThanWellFounded
<1>2. \A x, y \in Nat : <<y, x>> \in R <=> y < x
  BY DEF OpToRel
<1> HIDE DEF R
<1>3. PICK n \in Nat \ P : \A m \in Nat \ P : ~ (<<m, n>> \in R)
  BY <1>1, WFMin
<1>4. n # 0 /\ n - 1 \in Nat /\ n - 1 < n
  BY <1>3
<1>5. n - 1 \in P
  BY <1>2, <1>3, <1>4
<1>6. (n - 1) + 1 \in P
  BY <1>4, <1>5
<1> QED
  BY <1>3, <1>6

(***************************************************************************)
(* The token usage of the steps adds up to a number: the recursive sum of  *)
(* MapThenSumSet is defined on all sets of steps.                          *)
(***************************************************************************)
LEMMA SumOfTokens ==
  ASSUME NEW steps \in [Step -> StepStatus]
  PROVE  SumStepTokens(steps) \in Nat
<1> DEFINE Pick(T) == CHOOSE y \in T : TRUE
           Sum(g, T) == IF T = {} THEN 0
                        ELSE steps[Pick(T)].tokens + g[T \ {Pick(T)}]
           F(g) == [T \in SUBSET Step |-> Sum(g, T)]
           Small(n) == {T \in SUBSET Step : Cardinality(T) <= n}
           Sums(g, n) == /\ g \in [Small(n) -> Nat]
                         /\ \A T \in Small(n) : g[T] = Sum(g, T)
<1>1. /\ IsFiniteSet(Step)
      /\ \A T \in SUBSET Step : IsFiniteSet(T) /\ Cardinality(T) \in Nat
  <2>1. IsFiniteSet(Step)
    BY FS_Interval, FlowAssumption DEF Step
  <2> QED
    BY <2>1, FS_Subset, FS_CardinalityType
<1>2. \A T \in SUBSET Step :
        T # {} => /\ Pick(T) \in T
                  /\ steps[Pick(T)].tokens \in Nat
                  /\ T \ {Pick(T)} \in SUBSET Step
                  /\ Cardinality(T \ {Pick(T)}) = Cardinality(T) - 1
  <2> SUFFICES ASSUME NEW T \in SUBSET Step, T # {}
               PROVE  /\ Pick(T) \in T
                      /\ steps[Pick(T)].tokens \in Nat
                      /\ T \ {Pick(T)} \in SUBSET Step
                      /\ Cardinality(T \ {Pick(T)}) = Cardinality(T) - 1
    OBVIOUS
  <2>1. Pick(T) \in T
    OBVIOUS
  <2> HIDE DEF Pick
  <2>2. steps[Pick(T)].tokens \in Nat
    BY <2>1 DEF StepStatus
  <2>3. Cardinality(T \ {Pick(T)}) = Cardinality(T) - 1
    BY <1>1, <2>1, FS_RemoveElement
  <2> QED
    BY <2>1, <2>2, <2>3
<1> HIDE DEF Pick
<1>3. \A n \in Nat : \E g : Sums(g, n)
  <2> DEFINE P == {n \in Nat : \E g : Sums(g, n)}
  <2>1. 0 \in P
    <3> DEFINE g == [T \in Small(0) |-> 0]
    <3>1. \A T \in Small(0) : T = {}
      BY <1>1, FS_EmptySet
    <3>2. Sums(g, 0)
      BY <3>1
    <3> QED
      BY <3>2
  <2>2. ASSUME NEW n \in Nat, n \in P PROVE n + 1 \in P
    <3>1. PICK g : Sums(g, n)
      BY <2>2
    <3> DEFINE h == [T \in Small(n + 1) |-> Sum(g, T)]
    <3>2. \A T \in Small(n + 1) :
            T # {} => T \ {Pick(T)} \in Small(n)
      BY <1>1, <1>2
    <3>3. Small(n) \subseteq Small(n + 1)
      BY <1>1
    <3>4. \A T \in Small(n) : h[T] = g[T]
      BY <3>1, <3>3
    <3>5. h \in [Small(n + 1) -> Nat]
      BY <1>2, <3>1, <3>2
    <3>6. \A T \in Small(n + 1) : h[T] = Sum(h, T)
      BY <3>2, <3>4
    <3>7. Sums(h, n + 1)
      BY <3>5, <3>6
    <3> HIDE DEF h, Sums
    <3> QED
      BY <3>7
  <2> HIDE DEF P
  <2>3. Nat \subseteq P
    BY <2>1, <2>2, NatIsInduced
  <2> QED
    BY <2>3 DEF P
<1>4. PICK n \in Nat : n = Cardinality(Step)
  BY <1>1
<1>5. Small(n) = SUBSET Step
  BY <1>1, <1>4, FS_Subset
<1>6. \E g : g = F(g)
  <2>1. PICK g : Sums(g, n)
    BY <1>3
  <2>2. g = F(g)
    BY <1>5, <2>1
  <2> QED
    BY <2>2
<1>7. PICK g : g = (CHOOSE h : h = F(h)) /\ g = F(g)
  BY <1>6
<1>8. SumStepTokens(steps) = g[Step]
  BY <1>7 DEF SumStepTokens, MapThenSumSet, MapThenFoldSet, Pick
<1>9. \A m \in Nat : \A T \in Small(m) : g[T] \in Nat
  <2> DEFINE P == {m \in Nat : \A T \in Small(m) : g[T] \in Nat}
  <2>1. 0 \in P
    <3>1. \A T \in Small(0) : T = {}
      BY <1>1, FS_EmptySet
    <3>2. g[{}] = 0
      BY <1>7
    <3> QED
      BY <3>1, <3>2
  <2>2. ASSUME NEW m \in Nat, m \in P PROVE m + 1 \in P
    <3>1. ASSUME NEW T \in Small(m + 1), T # {} PROVE g[T] \in Nat
      <4>1. T \ {Pick(T)} \in Small(m) /\ steps[Pick(T)].tokens \in Nat
        BY <1>1, <1>2, <3>1
      <4>2. g[T \ {Pick(T)}] \in Nat
        BY <2>2, <4>1
      <4>3. g[T] = steps[Pick(T)].tokens + g[T \ {Pick(T)}]
        BY <1>7, <3>1
      <4> QED
        BY <4>1, <4>2, <4>3
    <3>2. g[{}] = 0
      BY <1>7
    <3>3. ASSUME NEW T \in Small(m + 1) PROVE g[T] \in Nat
      <4>1. CASE T = {}
        BY <3>2, <4>1
      <4>2. CASE T # {}
        BY <3>1, <4>2
      <4> QED
        BY <4>1, <4>2
    <3> HIDE DEF Small
    <3> QED
      BY <3>3
  <2> HIDE DEF P
  <2>3. Nat \subseteq P
    BY <2>1, <2>2, NatIsInduced
  <2> QED
    BY <2>3 DEF P
<1> QED
  BY <1>4, <1>5, <1>8, <1>9

(***************************************************************************)
(* A flow that succeeded is complete, within its budget, and shows what    *)
(* its steps answered, whatever loops and conditions did on the way.       *)
(***************************************************************************)
THEOREM FlowSuccessIsComplete == Spec => []SuccessIsComplete
<1>1. ASSUME FlowTypeOK, StatusSound, api.st.phase = "Succeeded"
      PROVE  /\ \A s \in Step :
                  api.st.steps[s].phase \in {"Succeeded", "Skipped"}
             /\ MaxTokens > 0 => SumStepTokens(api.st.steps) <= MaxTokens
             /\ \A s \in Step :
                  \/ api.st.output[s].output = api.st.steps[s].output
                  \/ /\ api.st.steps[s].phase = "Skipped"
                     /\ api.st.steps[s].iterations > 0
  <2>1. Complete(api.st)
    BY <1>1 DEF StatusSound, Sound
  <2>2. \A s \in Step : api.st.steps[s].phase \in {"Succeeded", "Skipped"}
    BY <2>1 DEF Complete, AllDone, StepDone
  <2>3. SumStepTokens(api.st.steps) \in Nat
    BY <1>1, SumOfTokens DEF FlowTypeOK, Flow, FlowStatus
  <2>4. MaxTokens \in Nat
    BY FlowAssumption
  <2>5. MaxTokens > 0 => SumStepTokens(api.st.steps) <= MaxTokens
    BY <2>1, <2>3, <2>4 DEF Complete, OverBudget
  <2> QED
    BY <2>1, <2>2, <2>5 DEF Complete, Shown
<1>2. FlowTypeOK /\ StatusSound => SuccessIsComplete
  BY <1>1 DEF SuccessIsComplete
<1> QED
  BY <1>2, StatusAlwaysSound, PTL

-----------------------------------------------------------------------------
\* The condition of a loop reads only what its own step answered.
LoopsReadOwnStep ==
  \A s \in Step, d1, d2 \in TemplateData :
    MaxIterations[s] > 0 /\ d1[s] = d2[s] /\ d1 \in LoopHolds[s]
      => d2 \in LoopHolds[s]

\* The loop of step s goes on, on the step's own output.
GoesOn(s, st) ==
  /\ st.phase = "Succeeded"
  /\ st.iterations < MaxIterations[s]
  /\ \E d \in TemplateData : /\ d[s] = [output |-> st.output, data |-> st.json]
                             /\ d \in LoopHolds[s]

\* What a step that has begun depends on is done for good.
Settled(steps) ==
  \A s \in Step, d \in Step :
    d \in DependsOn[s] /\ steps[s].phase # "Pending"
      => StepDone(steps[d]) /\ ~GoesOn(d, steps[d])

\* The inductive form of DependenciesDone: it holds of every copy, and after
\* EvaluateLoops no loop is left that could go on.
StatusSettled ==
  /\ Settled(api.st.steps)
  /\ Settled(cache.st.steps)
  /\ pc = "submit" => /\ Settled(f.st.steps)
                      /\ \A s \in Step : ~GoesOn(s, f.st.steps[s])

(***************************************************************************)
(* Collect takes back only steps that nobody has built upon, and no loop   *)
(* is left to go on.                                                       *)
(***************************************************************************)
LEMMA SettledByCollect ==
  ASSUME LoopsReadOwnStep, Typed, OneOutcome, FlowTypeOK, Sound(cache.st),
         Settled(cache.st.steps), Collect
  PROVE  /\ Settled(f'.st.steps)
         /\ \A s \in Step : ~GoesOn(s, f'.st.steps[s])
<1>1. /\ data' \in TemplateData
      /\ \A s \in Step : \E mid :
           Brought(s, cache.st.steps[s], mid, f'.st.steps[s])
  BY CollectBrings
<1>2. MaxIterations \in [Step -> Nat]
  BY FlowAssumption
<1>3. ASSUME NEW s \in Step, NEW mid,
             Brought(s, cache.st.steps[s], mid, f'.st.steps[s])
      PROVE  /\ LoopsAgain(s, mid, data') <=> GoesOn(s, mid)
             /\ ~GoesOn(s, f'.st.steps[s])
             /\ f'.st.steps[s].phase # "Pending" =>
                  /\ f'.st.steps[s] = mid
                  /\ cache.st.steps[s].phase # "Pending"
             /\ /\ StepDone(cache.st.steps[s])
                /\ ~GoesOn(s, cache.st.steps[s])
                => f'.st.steps[s] = cache.st.steps[s]
  <2>1. mid \in StepStatus /\ mid.iterations \in Nat
    BY <1>3 DEF Brought, StepStatus
  <2>2. data'[s] = [output |-> mid.output, data |-> mid.json]
    BY <1>3 DEF Brought
  <2>3. LoopsAgain(s, mid, data') => GoesOn(s, mid)
    BY <1>1, <2>2 DEF LoopsAgain, GoesOn
  <2>4. ASSUME GoesOn(s, mid) PROVE LoopsAgain(s, mid, data')
    <3>1. PICK d \in TemplateData :
            /\ d[s] = [output |-> mid.output, data |-> mid.json]
            /\ d \in LoopHolds[s]
      BY <2>4 DEF GoesOn
    <3>2. MaxIterations[s] > 0
      BY <1>2, <2>1, <2>4 DEF GoesOn
    <3>3. data' \in LoopHolds[s]
      BY <1>1, <2>2, <3>1, <3>2 DEF LoopsReadOwnStep
    <3> QED
      BY <2>4, <3>3 DEF GoesOn, LoopsAgain
  <2>5. Reset(mid).phase = "Pending"
    BY <2>1, ResetStep
  <2>6. f'.st.steps[s] = IF LoopsAgain(s, mid, data') THEN Reset(mid) ELSE mid
    BY <1>3 DEF Brought
  <2>7. ~GoesOn(s, f'.st.steps[s])
    BY <2>4, <2>5, <2>6 DEF GoesOn
  <2>8. \/ mid = cache.st.steps[s]
        \/ cache.st.steps[s].phase = "Running"
    BY <1>3 DEF Brought
  <2> QED
    BY <2>3, <2>4, <2>5, <2>6, <2>7, <2>8 DEF StepDone
<1>4. \A s \in Step : ~GoesOn(s, f'.st.steps[s])
  BY <1>1, <1>3
<1>5. ASSUME NEW s \in Step, NEW d \in Step, d \in DependsOn[s],
             f'.st.steps[s].phase # "Pending"
      PROVE  StepDone(f'.st.steps[d])
  <2>1. cache.st.steps[s].phase # "Pending"
    BY <1>1, <1>3, <1>5
  <2>2. StepDone(cache.st.steps[d]) /\ ~GoesOn(d, cache.st.steps[d])
    BY <1>5, <2>1 DEF Settled
  <2>3. f'.st.steps[d] = cache.st.steps[d]
    BY <1>1, <1>3, <2>2
  <2> QED
    BY <2>2, <2>3
<1> QED
  BY <1>4, <1>5 DEF Settled

(***************************************************************************)
(* A step is decided about when what it depends on is done, and nobody     *)
(* depends on it yet.                                                      *)
(***************************************************************************)
LEMMA SettledByDecision ==
  ASSUME FlowTypeOK, InWork(f.st, data), Settled(f.st.steps),
         \A s \in Step : ~GoesOn(s, f.st.steps[s]),
         NEW s \in Step, NEW st \in StepStatus, Decides(s, st)
  PROVE  /\ Settled(f'.st.steps)
         /\ \A t \in Step : ~GoesOn(t, f'.st.steps[t])
<1>1. /\ f'.st.steps = [f.st.steps EXCEPT ![s] = st]
      /\ f.st.steps[s].phase = "Pending"
      /\ st.phase \in {"Skipped", "Failed", "Running"}
  BY WorkDecided
<1>2. f.st.steps \in [Step -> StepStatus]
  BY DEF FlowTypeOK, Flow, FlowStatus
<1>3. \A t \in Step : ~GoesOn(t, f'.st.steps[t])
  BY <1>1, <1>2 DEF GoesOn
<1>4. DepsSucceeded(s, f.st.steps)
  BY DEF Decides, Ready
<1>5. ASSUME NEW t \in Step, NEW d \in Step, d \in DependsOn[t],
             f'.st.steps[t].phase # "Pending"
      PROVE  StepDone(f'.st.steps[d])
  <2>1. StepDone(f.st.steps[d])
    <3>1. CASE t = s
      BY <1>4, <1>5, <3>1 DEF DepsSucceeded
    <3>2. CASE t # s
      <4>1. f.st.steps[t].phase # "Pending"
        BY <1>1, <1>2, <1>5, <3>2
      <4> QED
        BY <1>5, <4>1 DEF Settled
    <3> QED
      BY <3>1, <3>2
  <2>2. d # s
    BY <1>1, <2>1 DEF StepDone
  <2> QED
    BY <1>1, <1>2, <2>1, <2>2
<1> QED
  BY <1>3, <1>5 DEF Settled

(***************************************************************************)
(* Nothing has begun at the beginning.                                     *)
(***************************************************************************)
LEMMA StatusSettledInit == Init => StatusSettled
<1>1. NoFlow.st.phase = "new"
  BY DEF NoFlow, InitialStatus
<1>2. \A s \in Step : NoFlow.st.steps[s].phase = "Pending"
  BY SoundAtFirst, <1>1 DEF Sound, FreshStep
<1> QED
  BY <1>2 DEF Init, StatusSettled, Settled

(***************************************************************************)
(* No step of the system takes back a step that another has built upon.    *)
(***************************************************************************)
LEMMA StatusSettledStep ==
  ASSUME LoopsReadOwnStep
  PROVE  QueueOK /\ FlowTypeOK /\ StatusSound /\ StatusSettled /\ [Next]_vars
           => StatusSettled'
<1> SUFFICES ASSUME QueueOK, FlowTypeOK, StatusSound, StatusSettled,
                    [Next]_vars
             PROVE  StatusSettled'
  OBVIOUS
<1>1. /\ Settled(api.st.steps)
      /\ Settled(cache.st.steps)
      /\ pc = "submit" => /\ Settled(f.st.steps)
                          /\ \A s \in Step : ~GoesOn(s, f.st.steps[s])
  BY DEF StatusSettled
<1>2. /\ Typed /\ OneOutcome
      /\ f.st \in FlowStatus
      /\ cache.st \in FlowStatus
      /\ Sound(cache.st)
      /\ pc = "submit" => InWork(f.st, data)
  BY DEF QueueOK, FlowTypeOK, Flow, StatusSound
<1>3. CASE Quiet
  <2>1. api'.st = api.st /\ cache' \in {cache, api}
    BY <1>3 DEF Quiet
  <2>2. pc' = "submit" => pc = "submit" /\ f' = f
    BY <1>3 DEF Quiet, local
  <2> QED
    BY <1>1, <2>1, <2>2 DEF StatusSettled
<1>4. ASSUME NEW reason \in Reason, Reports(reason) PROVE StatusSettled'
  <2>1. [cache.st EXCEPT !.reason = reason].steps = cache.st.steps
    BY <1>2 DEF FlowStatus
  <2>2. api' = api \/ api'.st.steps = cache.st.steps
    BY <1>4, <2>1 DEF Reports
  <2>3. cache' = cache /\ pc' = "idle"
    BY <1>4 DEF Reports, local
  <2> QED
    BY <1>1, <2>2, <2>3 DEF StatusSettled
<1>5. CASE Collect
  <2>1. /\ Settled(f'.st.steps)
        /\ \A s \in Step : ~GoesOn(s, f'.st.steps[s])
    BY <1>1, <1>2, <1>5, SettledByCollect
  <2>2. UNCHANGED <<api, cache>>
    BY <1>5 DEF Collect
  <2> QED
    BY <1>1, <2>1, <2>2 DEF StatusSettled
<1>6. ASSUME NEW s \in Step, NEW st \in StepStatus, Decides(s, st)
      PROVE  StatusSettled'
  <2>1. pc = "submit" /\ UNCHANGED <<api, cache>>
    BY <1>6 DEF Decides
  <2>2. /\ Settled(f'.st.steps)
        /\ \A t \in Step : ~GoesOn(t, f'.st.steps[t])
    BY <1>1, <1>2, <1>6, <2>1, SettledByDecision
  <2> QED
    BY <1>1, <2>1, <2>2 DEF StatusSettled
<1>7. ASSUME NEW st, Writes(st), st.steps = f.st.steps PROVE StatusSettled'
  <2>1. api' = api \/ api'.st.steps = f.st.steps
    BY <1>7 DEF Writes
  <2>2. cache' = cache /\ pc = "submit" /\ pc' = "idle"
    BY <1>7 DEF Writes
  <2> QED
    BY <1>1, <2>1, <2>2 DEF StatusSettled
<1>8. UpdateFlowPhase(f.st, data, clock).steps = f.st.steps
  BY <1>2, PhaseKeepsSteps
<1> QED
  BY <1>2, <1>3, <1>4, <1>5, <1>6, <1>7, <1>8, StatusMoves

(***************************************************************************)
(* What a step waits for stays finished, if loops read only their own      *)
(* step: a loop that goes on resets a step before anything that depends on *)
(* it begins, and never after.                                             *)
(***************************************************************************)
THEOREM FlowDependenciesDone ==
  ASSUME LoopsReadOwnStep
  PROVE  Spec => []DependenciesDone
<1>1. QueueOK /\ FlowTypeOK /\ StatusSound /\ StatusSettled /\ [Next]_vars
        => StatusSettled'
  BY StatusSettledStep
<1>2. StatusSettled => DependenciesDone
  BY FlowAssumption
     DEF StatusSettled, Settled, StepDone, DependenciesDone, Phase
<1> QED
  BY <1>1, <1>2, StatusAlwaysSound, StatusSettledInit, PTL DEF Spec

-----------------------------------------------------------------------------
\* Status new of step s keeps the task that status st waits for, or counts
\* the answer to it.
Carried(s, st, new) ==
  \/ new.phase \in {"Running", "Succeeded"} /\ new.task = st.task
  \/ /\ \E r \in DOMAIN results : results[r].task = st.task
     /\ new.iterations = st.iterations + 1
     /\ new.iterations <= MaxIterations[s]

\* A reconciliation whose write can succeed forgets no task in flight.
TasksCarried ==
  pc = "submit" /\ f.rv = api.rv =>
    \A s \in Step :
      Phase(s) = "Running" => Carried(s, api.st.steps[s], f.st.steps[s])

(***************************************************************************)
(* Collect forgets no task in flight, unless it has the answer.            *)
(***************************************************************************)
LEMMA CarriedByCollect ==
  ASSUME NEW s \in Step, NEW old \in StepStatus, NEW mid, NEW new,
         old.phase = "Running", Brought(s, old, mid, new)
  PROVE  Carried(s, old, new)
<1>1. mid \in StepStatus /\ mid.iterations = old.iterations
  BY DEF Brought
<1>2. new = IF LoopsAgain(s, mid, data') THEN Reset(mid) ELSE mid
  BY DEF Brought
<1>3. CASE LoopsAgain(s, mid, data')
  <2>1. \E r \in DOMAIN results : results[r].task = old.task
    BY <1>3 DEF Brought, LoopsAgain
  <2>2. new.iterations = mid.iterations + 1
    BY <1>1, <1>2, <1>3, ResetStep
  <2>3. mid.iterations \in Nat /\ MaxIterations[s] \in Nat
    BY <1>1, FlowAssumption DEF StepStatus
  <2>4. mid.iterations + 1 <= MaxIterations[s]
    BY <1>3, <2>3 DEF LoopsAgain
  <2> QED
    BY <1>1, <2>1, <2>2, <2>4 DEF Carried
<1>4. CASE ~LoopsAgain(s, mid, data')
  BY <1>2, <1>4 DEF Brought, Carried
<1> QED
  BY <1>3, <1>4

(***************************************************************************)
(* No step of the system makes a reconciliation forget a task in flight.   *)
(***************************************************************************)
LEMMA TasksCarriedStep ==
  /\ QueueOK /\ FlowTypeOK /\ CopiesExact /\ StatusSound /\ TasksCarried
  /\ [Next]_vars
  => TasksCarried'
<1> SUFFICES ASSUME QueueOK, FlowTypeOK, CopiesExact, StatusSound,
                    TasksCarried, [Next]_vars,
                    pc' = "submit", f'.rv = api'.rv,
                    NEW s \in Step, api'.st.steps[s].phase = "Running"
             PROVE  Carried(s, api.st.steps[s], f.st.steps[s])'
  BY DEF TasksCarried, Phase
<1>1. /\ Typed /\ OneOutcome
      /\ api.rv \in Nat /\ f.rv \in Nat
      /\ api.st.steps \in [Step -> StepStatus]
      /\ f.st.steps \in [Step -> StepStatus]
  BY DEF QueueOK, FlowTypeOK, Flow, FlowStatus
<1>2. Extends(results, results')
  BY FlowStepOfQueue, StreamsGrow DEF QueueOK
<1>3. ASSUME NEW st, NEW new, Carried(s, st, new),
             api'.st.steps[s] = st, f'.st.steps[s] = new
      PROVE  Carried(s, api.st.steps[s], f.st.steps[s])'
  BY <1>2, <1>3 DEF Carried, Extends
<1>4. CASE Quiet
  <2>1. pc = "submit" /\ f' = f
    BY <1>4 DEF Quiet, local
  <2>2. api' = api
    BY <1>1, <1>4, <2>1 DEF Quiet, CopiesExact
  <2> QED
    BY <1>3, <2>1, <2>2 DEF TasksCarried, Phase
<1>5. CASE Collect
  <2>1. /\ f'.rv = cache.rv
        /\ api' = api
        /\ \E mid : Brought(s, cache.st.steps[s], mid, f'.st.steps[s])
    BY <1>1, <1>5, CollectBrings DEF StatusSound
  <2>2. cache.st = api.st
    BY <2>1 DEF CopiesExact
  <2> QED
    BY <1>1, <1>3, <2>1, <2>2, CarriedByCollect
<1>6. ASSUME NEW t \in Step, NEW st \in StepStatus, Decides(t, st)
      PROVE  Carried(s, api.st.steps[s], f.st.steps[s])'
  <2>1. pc = "submit" /\ api' = api /\ InWork(f.st, data)
    BY <1>6 DEF Decides, StatusSound
  <2>2. /\ f'.st.steps = [f.st.steps EXCEPT ![t] = st]
        /\ f.st.steps[t].phase = "Pending"
        /\ st.iterations = f.st.steps[t].iterations
    BY <1>6, <2>1, WorkDecided
  <2>3. f'.rv = f.rv
    BY <1>6 DEF Decides, SetStep, FlowTypeOK, Flow
  <2>4. Carried(s, api.st.steps[s], f.st.steps[s])
    BY <2>1, <2>3 DEF TasksCarried, Phase
  <2>5. Carried(s, api.st.steps[s], f'.st.steps[s])
    BY <1>1, <2>2, <2>4 DEF Carried
  <2> QED
    BY <1>3, <2>1, <2>5
<1>7. ASSUME NEW st, Writes(st) PROVE FALSE
  BY <1>7 DEF Writes
<1>8. ASSUME NEW reason, Reports(reason) PROVE FALSE
  BY <1>8 DEF Reports, local
<1> QED
  BY <1>1, <1>4, <1>5, <1>6, <1>7, <1>8, StatusMoves

\* TaskKeptUntilAnswered of one step of the system.
TasksKept ==
  \A s \in Step :
    LET st == api.st.steps[s]
        new == api'.st.steps[s]
    IN st.phase = "Running" =>
         \/ new.phase \in {"Running", "Succeeded"} /\ new.task = st.task
         \/ /\ \E r \in DOMAIN results : results[r].task = st.task
            /\ new.iterations = st.iterations + 1
            /\ new.iterations <= MaxIterations[s]

(***************************************************************************)
(* No step of the system forgets a task in flight.                         *)
(***************************************************************************)
LEMMA TasksKeptStep ==
  QueueOK /\ FlowTypeOK /\ CopiesExact /\ TasksCarried /\ [Next]_vars
    => TasksKept
<1> SUFFICES ASSUME QueueOK, FlowTypeOK, CopiesExact, TasksCarried,
                    [Next]_vars, NEW s \in Step, Phase(s) = "Running"
             PROVE  Carried(s, api.st.steps[s], api'.st.steps[s])
  BY DEF TasksKept, Carried, Phase
<1>1. f.st \in FlowStatus /\ cache.st \in FlowStatus /\ Typed
  BY DEF QueueOK, FlowTypeOK, Flow
<1>2. api'.st.steps = api.st.steps
        => Carried(s, api.st.steps[s], api'.st.steps[s])
  BY DEF Carried, Phase
<1>3. CASE Quiet \/ Collect
  BY <1>2, <1>3 DEF Quiet, Collect
<1>4. ASSUME NEW t, NEW st, Decides(t, st)
      PROVE  Carried(s, api.st.steps[s], api'.st.steps[s])
  BY <1>2, <1>4 DEF Decides
<1>5. ASSUME NEW reason, Reports(reason)
      PROVE  Carried(s, api.st.steps[s], api'.st.steps[s])
  <2>1. [cache.st EXCEPT !.reason = reason].steps = cache.st.steps
    BY <1>1 DEF FlowStatus
  <2>2. api'.st.steps = api.st.steps
    BY <1>5, <2>1 DEF Reports, CopiesExact
  <2> QED
    BY <1>2, <2>2
<1>6. ASSUME NEW st, Writes(st), st.steps = f.st.steps
      PROVE  Carried(s, api.st.steps[s], api'.st.steps[s])
  <2>1. CASE api' = api
    BY <1>2, <2>1
  <2>2. CASE f.rv = api.rv /\ api'.st = st
    BY <1>6, <2>2 DEF Writes, TasksCarried
  <2> QED
    BY <1>6, <2>1, <2>2 DEF Writes
<1>7. UpdateFlowPhase(f.st, data, clock).steps = f.st.steps
  BY <1>1, PhaseKeepsSteps
<1> QED
  BY <1>1, <1>3, <1>4, <1>5, <1>6, <1>7, StatusMoves

(***************************************************************************)
(* The task a running step waits for is replaced only after its answer,    *)
(* and iterations are counted one by one up to the cap: whatever a         *)
(* reconciliation read, and wherever it was cut off.                       *)
(***************************************************************************)
THEOREM FlowKeepsTasks == Spec => TaskKeptUntilAnswered
<1>1. Init => TasksCarried
  BY DEF Init, TasksCarried
<1>2. Spec => [](/\ QueueOK /\ FlowTypeOK /\ StatusSound
                 /\ CopiesExact /\ TasksCarried)
  <2>1. FlowTypeOK /\ CopiesExact /\ [Next]_vars => CopiesExact'
    BY CopiesExactStep
  <2> QED
    BY <1>1, <2>1, StatusAlwaysSound, CopiesExactInit, TasksCarriedStep, PTL
       DEF Spec
<1>3. TasksKept =>
        \A s \in Step :
          LET st == api.st.steps[s]
              new == api'.st.steps[s]
          IN st.phase = "Running" =>
               \/ new.phase \in {"Running", "Succeeded"} /\ new.task = st.task
               \/ /\ \E r \in DOMAIN results : results[r].task = st.task
                  /\ new.iterations = st.iterations + 1
                  /\ new.iterations <= MaxIterations[s]
  BY DEF TasksKept
<1> QED
  BY <1>2, <1>3, TasksKeptStep, PTL DEF Spec, TaskKeptUntilAnswered

-----------------------------------------------------------------------------
\* Each step has been submitted once per iteration that the status counts.
OncePerIteration(steps) ==
  \A s \in Step :
    Cardinality(Submissions(s)) =
      steps[s].iterations
        + IF steps[s].phase \in {"Running", "Succeeded"} THEN 1 ELSE 0

\* The inductive form of NoDuplicateWork: what has been submitted is in the
\* status, or in the copy of it that the reconciliation will write.
WorkCounted ==
  disruptions = 0 /\ ~StaleReads =>
    /\ pc = "idle" => OncePerIteration(api.st.steps)
    /\ pc = "submit" => f.rv = api.rv /\ OncePerIteration(f.st.steps)

(***************************************************************************)
(* Disruptions are never taken back.                                       *)
(***************************************************************************)
LEMMA DisruptionsGrow ==
  Typed /\ [Next]_vars
    => disruptions' \in {disruptions, disruptions + 1}
<1> SUFFICES ASSUME Typed, [Next]_vars
             PROVE  disruptions' \in {disruptions, disruptions + 1}
  OBVIOUS
<1>1. [SharedNext]_queueVars
  BY FlowStepOfQueue
<1> QED
  BY <1>1
     DEF SharedNext, AgentNext, Submit, SubmitSubtask, StartPod, Poll,
         PollLosesReply, Deliver, StopPod, FinishTask, StoreResult, Requeue,
         DeadLetter, LoseWrite, Disrupt, queueVars

(***************************************************************************)
(* Only the reconciler adds a first attempt at a step: the agents add      *)
(* subtasks and retries.                                                   *)
(***************************************************************************)
LEMMA AgentsSubmitNoStep ==
  ASSUME Typed, AgentNext, NEW s \in Step
  PROVE  Submissions(s)' = Submissions(s)
<1>1. tasks \in Seq(Message) /\ Subtask \notin Step
  BY ArkFlowAssumption DEF Typed, QueueTypeOK
<1>2. ASSUME NEW prompt, NEW attempt, NEW retryOf,
             XAddTask(prompt, attempt, retryOf),
             prompt # s \/ attempt # 0
      PROVE  Submissions(s)' = Submissions(s)
  BY <1>1, <1>2 DEF XAddTask, Submissions
<1>3. CASE \E i \in TaskId : SubmitSubtask(i)
  BY <1>1, <1>2, <1>3 DEF SubmitSubtask, Submit
<1>4. CASE \E i \in TaskId : Requeue(i)
  <2>1. PICK i \in TaskId : Requeue(i)
    BY <1>4
  <2>2. tasks[i] \in Message
    BY <2>1, ReadIsInStream DEF Requeue
  <2>3. tasks[i].attempt + 1 # 0
    BY <2>2 DEF Message
  <2> QED
    BY <1>2, <2>1, <2>3 DEF Requeue
<1>5. CASE UNCHANGED tasks
  BY <1>5 DEF Submissions
<1> QED
  BY <1>3, <1>4, <1>5
     DEF AgentNext, StartPod, Poll, PollLosesReply, Deliver, StopPod,
         FinishTask, StoreResult, DeadLetter, LoseWrite, redisVars

(***************************************************************************)
(* Without a disruption only SubmitStep adds a first attempt at a step.    *)
(***************************************************************************)
LEMMA SubmissionsKept ==
  ASSUME Typed, [Next]_vars, disruptions' = disruptions,
         ~ \E s \in Step : SubmitStep(s)
  PROVE  \A s \in Step : Submissions(s)' = Submissions(s)
<1>1. disruptions \in Nat
  BY QueueAssumption DEF Typed, QueueTypeOK
<1>2. UNCHANGED tasks => \A s \in Step : Submissions(s)' = Submissions(s)
  BY DEF Submissions
<1>3. CASE AgentNext
  BY <1>3, AgentsSubmitNoStep
<1>4. CASE Reconcile
  <2>1. ~Disrupt
    BY <1>1 DEF Disrupt
  <2>2. UNCHANGED tasks
    BY <1>4, <2>1
       DEF Reconcile, LeaveAlone, RejectDAG, WaitForAgents, ObserveEnd,
           ReportNoQueue, ReportCondition, Collect, CollectFails, SkipStep,
           FailStep, SubmitFails, Finish, queueVars, redisVars
  <2> QED
    BY <1>2, <2>2
<1>5. CASE SyncCache \/ Resync \/ CrashOperator \/ Touch \/ ChangeGate
            \/ Tick \/ UNCHANGED vars
  BY <1>2, <1>5
     DEF SyncCache, Resync, CrashOperator, Touch, ChangeGate, Tick, vars,
         queueVars, redisVars
<1> QED
  BY <1>3, <1>4, <1>5 DEF Next

(***************************************************************************)
(* SubmitStep adds one first attempt at its step, and none at another.     *)
(***************************************************************************)
LEMMA SubmitStepCounts ==
  ASSUME Typed, NEW s \in Step, SubmitStep(s), NEW t \in Step
  PROVE  Cardinality(Submissions(t)') =
           Cardinality(Submissions(t)) + IF t = s THEN 1 ELSE 0
<1> DEFINE n == Len(tasks) + 1
<1>1. /\ tasks \in Seq(Message)
      /\ tasks' = Append(tasks, [prompt |-> s, attempt |-> 0, retryOf |-> 0])
  BY DEF Typed, QueueTypeOK, SubmitStep, SubmitTask, Submit, XAddTask
<1>2. /\ Submissions(t)' =
           IF t = s THEN Submissions(t) \union {n} ELSE Submissions(t)
      /\ n \notin Submissions(t)
  BY <1>1 DEF Submissions
<1>3. IsFiniteSet(Submissions(t))
  <2>1. Len(tasks) \in Nat /\ DOMAIN tasks = 1 .. Len(tasks)
    BY <1>1
  <2>2. IsFiniteSet(1 .. Len(tasks))
    BY <2>1, FS_Interval
  <2>3. Submissions(t) \subseteq 1 .. Len(tasks)
    BY <2>1 DEF Submissions
  <2> QED
    BY <2>2, <2>3, FS_Subset
<1>4. Cardinality(Submissions(t)) \in Nat
  BY <1>3, FS_CardinalityType
<1> HIDE DEF n
<1>5. Cardinality(Submissions(t) \union {n}) = Cardinality(Submissions(t)) + 1
  BY <1>2, <1>3, FS_AddElement
<1> QED
  BY <1>2, <1>4, <1>5

(***************************************************************************)
(* Collect counts an iteration for every answer that it takes back.        *)
(***************************************************************************)
LEMMA BroughtCounts ==
  ASSUME NEW s \in Step, NEW old \in StepStatus, NEW mid, NEW new,
         Brought(s, old, mid, new)
  PROVE  new.iterations
           + (IF new.phase \in {"Running", "Succeeded"} THEN 1 ELSE 0)
         = old.iterations
             + (IF old.phase \in {"Running", "Succeeded"} THEN 1 ELSE 0)
<1>1. /\ mid \in StepStatus
      /\ mid.iterations = old.iterations
      /\ mid.iterations \in Nat
  BY DEF Brought, StepStatus
<1>2. mid = old \/ (old.phase = "Running" /\ mid.phase = "Succeeded")
  BY DEF Brought
<1>3. new = IF LoopsAgain(s, mid, data') THEN Reset(mid) ELSE mid
  BY DEF Brought
<1>4. CASE LoopsAgain(s, mid, data')
  <2>1. new.phase = "Pending" /\ new.iterations = mid.iterations + 1
    BY <1>1, <1>3, <1>4, ResetStep
  <2>2. mid.phase = "Succeeded"
    BY <1>4 DEF LoopsAgain
  <2> QED
    BY <1>1, <1>2, <2>1, <2>2
<1>5. CASE ~LoopsAgain(s, mid, data')
  BY <1>1, <1>2, <1>3, <1>5
<1> QED
  BY <1>4, <1>5

(***************************************************************************)
(* Nothing is submitted, and nothing counted, at the beginning.            *)
(***************************************************************************)
LEMMA WorkCountedInit == Init => WorkCounted
<1> SUFFICES ASSUME Init PROVE WorkCounted
  OBVIOUS
<1>1. tasks = <<>> /\ api = NoFlow /\ pc = "idle"
  BY DEF Init, QueueInit
<1>2. ASSUME NEW s \in Step PROVE Cardinality(Submissions(s)) = 0
  <2>1. Submissions(s) = {}
    BY <1>1 DEF Submissions
  <2> QED
    BY <2>1, FS_EmptySet
<1>3. NoFlow.st.phase = "new"
  BY DEF NoFlow, InitialStatus
<1>4. \A s \in Step : api.st.steps[s].phase = "Pending"
                        /\ api.st.steps[s].iterations = 0
  BY <1>1, <1>3, SoundAtFirst DEF Sound, FreshStep
<1> QED
  BY <1>1, <1>2, <1>4 DEF WorkCounted, OncePerIteration

(***************************************************************************)
(* Undisturbed, every step of the system counts what it submits.           *)
(***************************************************************************)
LEMMA WorkCountedStep ==
  /\ QueueOK /\ FlowTypeOK /\ CopiesExact /\ StatusSound /\ WorkCounted
  /\ [Next]_vars
  => WorkCounted'
<1> SUFFICES ASSUME QueueOK, FlowTypeOK, CopiesExact, StatusSound,
                    WorkCounted, [Next]_vars, disruptions' = 0, ~StaleReads
             PROVE  /\ pc' = "idle" => OncePerIteration(api.st.steps)'
                    /\ pc' = "submit" => f'.rv = api'.rv
                                           /\ OncePerIteration(f.st.steps)'
  BY DEF WorkCounted
<1>1. /\ Typed /\ OneOutcome
      /\ cache.st \in FlowStatus
      /\ f.st \in FlowStatus
      /\ f.st.steps \in [Step -> StepStatus]
      /\ cache.st.steps \in [Step -> StepStatus]
      /\ pc \in {"idle", "submit"}
  BY DEF QueueOK, FlowTypeOK, Flow, FlowStatus
<1>2. disruptions = 0 /\ disruptions' = disruptions
  <2>1. disruptions \in Nat
    BY <1>1, QueueAssumption DEF Typed, QueueTypeOK
  <2> QED
    BY <1>1, <2>1, DisruptionsGrow
<1>3. /\ pc = "idle" => OncePerIteration(api.st.steps)
      /\ pc = "submit" => f.rv = api.rv /\ OncePerIteration(f.st.steps)
  BY <1>2 DEF WorkCounted
<1>4. ASSUME NEW s \in Step, SubmitStep(s)
      PROVE  /\ pc' = "submit" /\ f'.rv = api'.rv
             /\ OncePerIteration(f.st.steps)'
  <2> DEFINE new == [f.st.steps[s] EXCEPT !.phase = "Running",
                                          !.task = Len(tasks) + 1]
  <2>1. /\ pc = "submit" /\ pc' = pc /\ api' = api
        /\ f' = [f EXCEPT !.st.steps[s] = new]
        /\ f.st.steps[s].phase = "Pending"
    BY <1>4 DEF SubmitStep, SetStep, Turn, Ready
  <2>2. new.phase = "Running" /\ new.iterations = f.st.steps[s].iterations
    BY <1>1 DEF StepStatus
  <2> HIDE DEF new
  <2>3. f'.rv = f.rv /\ f'.st.steps = [f.st.steps EXCEPT ![s] = new]
    BY <2>1 DEF FlowTypeOK, Flow, FlowStatus
  <2>4. ASSUME NEW t \in Step
        PROVE  Cardinality(Submissions(t)') =
                 f'.st.steps[t].iterations
                   + IF f'.st.steps[t].phase \in {"Running", "Succeeded"}
                     THEN 1 ELSE 0
    <3>1. Cardinality(Submissions(t)') =
            Cardinality(Submissions(t)) + IF t = s THEN 1 ELSE 0
      BY <1>1, <1>4, SubmitStepCounts
    <3>2. Cardinality(Submissions(t)) =
            f.st.steps[t].iterations
              + IF f.st.steps[t].phase \in {"Running", "Succeeded"}
                THEN 1 ELSE 0
      BY <1>3, <2>1 DEF OncePerIteration
    <3>3. f.st.steps[t].iterations \in Nat
      BY <1>1 DEF StepStatus
    <3>4. CASE t = s
      <4>1. f'.st.steps[t] = new
        BY <1>1, <2>3, <3>4
      <4> QED
        BY <2>1, <2>2, <3>1, <3>2, <3>3, <3>4, <4>1
    <3>5. CASE t # s
      <4>1. f'.st.steps[t] = f.st.steps[t]
        BY <1>1, <2>3, <3>5
      <4> QED
        BY <3>1, <3>2, <3>3, <3>5, <4>1
    <3> QED
      BY <3>4, <3>5
  <2> QED
    BY <1>3, <2>1, <2>3, <2>4 DEF OncePerIteration
<1>5. CASE \E s \in Step : SubmitStep(s)
  BY <1>4, <1>5
<1>6. CASE ~ \E s \in Step : SubmitStep(s)
  <2>1. \A s \in Step : Submissions(s)' = Submissions(s)
    BY <1>1, <1>2, <1>6, SubmissionsKept
  <2>2. /\ OncePerIteration(api.st.steps)' <=>
             \A s \in Step :
               Cardinality(Submissions(s)) =
                 api'.st.steps[s].iterations
                   + IF api'.st.steps[s].phase \in {"Running", "Succeeded"}
                     THEN 1 ELSE 0
        /\ OncePerIteration(f.st.steps)' <=>
             \A s \in Step :
               Cardinality(Submissions(s)) =
                 f'.st.steps[s].iterations
                   + IF f'.st.steps[s].phase \in {"Running", "Succeeded"}
                     THEN 1 ELSE 0
    BY <2>1 DEF OncePerIteration
  <2>3. ASSUME NEW steps, OncePerIteration(steps)
        PROVE  /\ api'.st.steps = steps => OncePerIteration(api.st.steps)'
               /\ f'.st.steps = steps => OncePerIteration(f.st.steps)'
    BY <2>2, <2>3 DEF OncePerIteration
  <2>4. CASE Quiet
    <3>1. pc' = pc /\ f' = f /\ api' = api
      BY <1>2, <2>4 DEF Quiet, local
    <3> QED
      BY <1>3, <2>3, <3>1
  <2>5. ASSUME NEW reason, Reports(reason)
        PROVE  pc' = "idle" /\ OncePerIteration(api.st.steps)'
    <3>1. [cache.st EXCEPT !.reason = reason].steps = cache.st.steps
      BY <1>1 DEF FlowStatus
    <3>2. api'.st.steps = api.st.steps
      BY <2>5, <3>1 DEF Reports, CopiesExact
    <3> QED
      BY <1>3, <2>3, <2>5, <3>2 DEF Reports, local
  <2>6. CASE Collect
    <3>1. /\ f'.rv = cache.rv /\ api' = api /\ pc = "idle" /\ pc' = "submit"
          /\ \A s \in Step : \E mid :
               Brought(s, cache.st.steps[s], mid, f'.st.steps[s])
      BY <1>1, <2>6, CollectBrings DEF StatusSound
    <3>2. cache = api
      BY <2>6 DEF Collect, Begin
    <3>3. ASSUME NEW s \in Step
          PROVE  Cardinality(Submissions(s)) =
                   f'.st.steps[s].iterations
                     + IF f'.st.steps[s].phase \in {"Running", "Succeeded"}
                       THEN 1 ELSE 0
      <4>1. PICK mid : Brought(s, cache.st.steps[s], mid, f'.st.steps[s])
        BY <3>1
      <4>2. Cardinality(Submissions(s)) =
              cache.st.steps[s].iterations
                + IF cache.st.steps[s].phase \in {"Running", "Succeeded"}
                  THEN 1 ELSE 0
        BY <1>3, <3>1, <3>2 DEF OncePerIteration
      <4> QED
        BY <1>1, <4>1, <4>2, BroughtCounts
    <3> QED
      BY <2>2, <3>1, <3>2, <3>3
  <2>7. ASSUME NEW s \in Step, NEW st \in StepStatus, Decides(s, st)
        PROVE  /\ pc' = "submit" /\ f'.rv = api'.rv
               /\ OncePerIteration(f.st.steps)'
    <3>1. pc = "submit" /\ api' = api /\ InWork(f.st, data)
      BY <2>7 DEF Decides, StatusSound
    <3>2. /\ pc' = pc
          /\ f'.st.steps = [f.st.steps EXCEPT ![s] = st]
          /\ f.st.steps[s].phase = "Pending"
          /\ st.iterations = f.st.steps[s].iterations
      BY <2>7, <3>1, WorkDecided
    <3>3. f'.rv = f.rv
      BY <2>7 DEF Decides, SetStep, FlowTypeOK, Flow
    <3>4. st.phase \in {"Skipped", "Failed"}
      BY <1>1, <1>6, <2>7 DEF Decides, StepStatus
    <3>5. OncePerIteration(f'.st.steps)
      BY <1>1, <1>3, <3>1, <3>2, <3>4 DEF OncePerIteration
    <3> QED
      BY <1>3, <2>3, <3>1, <3>2, <3>3, <3>5
  <2>8. ASSUME NEW st, Writes(st), st.steps = f.st.steps
        PROVE  pc' = "idle" /\ OncePerIteration(api.st.steps)'
    <3>1. pc = "submit" /\ pc' = "idle" /\ api'.st = st
      BY <1>2, <1>3, <2>8 DEF Writes
    <3> QED
      BY <1>3, <2>3, <2>8, <3>1
  <2>9. UpdateFlowPhase(f.st, data, clock).steps = f.st.steps
    BY <1>1, PhaseKeepsSteps
  <2> QED
    BY <1>1, <2>4, <2>5, <2>6, <2>7, <2>8, <2>9, StatusMoves
<1> QED
  BY <1>5, <1>6

(***************************************************************************)
(* Undisturbed and reading the current version, the reconciler submits no  *)
(* step twice, however often it is woken and however the agents retry.     *)
(***************************************************************************)
THEOREM FlowWorkIsNotRepeated == Spec => []NoDuplicateWork
<1>1. Spec => []WorkCounted
  <2>1. FlowTypeOK /\ CopiesExact /\ [Next]_vars => CopiesExact'
    BY CopiesExactStep
  <2> QED
    BY <2>1, StatusAlwaysSound, CopiesExactInit, WorkCountedInit,
       WorkCountedStep, PTL DEF Spec
<1>2. WorkCounted => NoDuplicateWork
  BY DEF WorkCounted, OncePerIteration, NoDuplicateWork
<1> QED
  BY <1>1, <1>2, PTL
=============================================================================
