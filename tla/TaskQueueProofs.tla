--------------------------- MODULE TaskQueueProofs ---------------------------
(***************************************************************************)
(* Theorems about the task queue, for any number of pods, tasks, retries   *)
(* and disruptions.                                                        *)
(***************************************************************************)
EXTENDS TaskQueue, TLAPS

\* Tasks after the cursor are untouched, and only a task that was read has an
\* owner.
CursorExact ==
  \A i \in TaskId : /\ i > cursor => stage[i] = "unread"
                    /\ stage[i] = "unread" => owner[i] = NoPod

\* The strengthening of the type invariant that is inductive.
Typed == QueueTypeOK /\ CursorExact

\* A step of the queue in a larger system: anybody may add a fresh task, and
\* a disruption may strike somewhere else or while a task is added.
SharedNext ==
  \/ \E prompt \in Prompt : Submit(prompt)
  \/ AgentNext
  \/ /\ tasks' = tasks \/ \E prompt \in Prompt : XAddTask(prompt, 0, 0)
     /\ Disrupt
     /\ UNCHANGED <<group, cursor, pel, stage, owner, results, dead, up>>

(***************************************************************************)
(* Before the first task the queue is well typed.                          *)
(***************************************************************************)
LEMMA TypedInit == QueueInit => Typed
BY QueueAssumption, NoPodAssumption
   DEF QueueInit, Typed, QueueTypeOK, CursorExact, TaskId, Message, Answer,
       Stage

(***************************************************************************)
(* Adding a message to the stream keeps the types of the queue.            *)
(***************************************************************************)
LEMMA TypedXAdd ==
  ASSUME Typed, NEW prompt \in Prompt, NEW attempt \in Nat,
         NEW retryOf \in 0 .. MaxTasks, XAddTask(prompt, attempt, retryOf)
  PROVE  /\ tasks' \in Seq(Message)
         /\ Len(tasks') = Len(tasks) + 1
         /\ Len(tasks') <= MaxTasks
<1>1. [prompt |-> prompt, attempt |-> attempt, retryOf |-> retryOf]
        \in Message
  BY DEF Message
<1> QED
  BY <1>1, QueueAssumption DEF Typed, QueueTypeOK, XAddTask

(***************************************************************************)
(* A task some pod has read is in the stream.                              *)
(***************************************************************************)
LEMMA ReadIsInStream ==
  ASSUME Typed, NEW i \in TaskId, stage[i] # "unread"
  PROVE  /\ i \in DOMAIN tasks
         /\ i <= cursor
         /\ tasks[i] \in Message
BY QueueAssumption DEF Typed, QueueTypeOK, CursorExact, TaskId

(***************************************************************************)
(* Every step of the queue keeps its types, and touches no task after the  *)
(* cursor.                                                                 *)
(***************************************************************************)
LEMMA TypedStep == Typed /\ [SharedNext]_queueVars => Typed'
<1> SUFFICES ASSUME Typed, [SharedNext]_queueVars
             PROVE  Typed'
  OBVIOUS
<1> USE QueueAssumption, NoPodAssumption
<1>0. ASSUME NEW prompt \in Prompt, Submit(prompt)
           PROVE  Typed'
  <2>1. /\ tasks' \in Seq(Message)
        /\ Len(tasks') = Len(tasks) + 1
        /\ Len(tasks') <= MaxTasks
    BY <1>0, TypedXAdd DEF Submit
  <2> QED
    BY <1>0, <2>1 DEF Typed, QueueTypeOK, CursorExact, Submit, podVars,
                           TaskId
<1>1. ASSUME NEW w \in Pod, StartPod(w) PROVE Typed'
  <2>1. disruptions' \in 0 .. MaxDisruptions
    BY <1>1 DEF Typed, QueueTypeOK, StartPod, Disrupt
  <2>2. group' \in BOOLEAN
    BY <1>1, Zenon DEF Typed, QueueTypeOK, StartPod
  <2>3. cursor' \in cursor .. Len(tasks)
    BY <1>1 DEF Typed, QueueTypeOK, StartPod
  <2>4. pel \subseteq 1 .. cursor'
    BY <2>3 DEF Typed, QueueTypeOK
  <2> QED
    BY <1>1, <2>1, <2>2, <2>3, <2>4
       DEF Typed, QueueTypeOK, CursorExact, StartPod, TaskId
<1>2. ASSUME NEW w \in Pod, Poll(w) PROVE Typed'
  <2>1. cursor + 1 \in TaskId
    BY <1>2 DEF Typed, QueueTypeOK, TaskId, Poll, Deliver
  <2> QED
    BY <1>2, <2>1 DEF Typed, QueueTypeOK, CursorExact, Poll, Deliver, TaskId,
                      Stage
<1>3. ASSUME NEW w \in Pod, PollLosesReply(w) PROVE Typed'
  <2>1. cursor + 1 \in TaskId
    BY <1>3 DEF Typed, QueueTypeOK, TaskId, PollLosesReply, Deliver
  <2> QED
    BY <1>3, <2>1 DEF Typed, QueueTypeOK, CursorExact, PollLosesReply,
                      Deliver, Disrupt, TaskId, Stage
<1>4. ASSUME NEW w \in Pod, StopPod(w) PROVE Typed'
  BY <1>4 DEF Typed, QueueTypeOK, CursorExact, StopPod, Disrupt, redisVars,
              TaskId, Stage
<1>5. ASSUME NEW i \in TaskId, NEW ok \in BOOLEAN, FinishTask(i, ok)
      PROVE  Typed'
  <2>1. i <= cursor
    BY <1>5, ReadIsInStream DEF FinishTask
  <2> QED
    <3>1. disruptions' \in 0 .. MaxDisruptions
      BY <1>5 DEF Typed, QueueTypeOK, FinishTask, Disrupt
    <3>2. pel' \subseteq 1 .. cursor
      BY <1>5, Zenon DEF Typed, QueueTypeOK, FinishTask
    <3>3. stage' \in [TaskId -> Stage]
      <4>1. (IF ok THEN "acked" ELSE "nacked") \in Stage
        BY Zenon DEF Stage
      <4> QED
        BY <1>5, <4>1 DEF Typed, QueueTypeOK, FinishTask
    <3>4. CursorExact'
      BY <1>5, <2>1 DEF Typed, QueueTypeOK, CursorExact, FinishTask, TaskId
    <3> QED
      BY <1>5, <3>1, <3>2, <3>3, <3>4 DEF Typed, QueueTypeOK, FinishTask
<1>6. ASSUME NEW i \in TaskId, NEW out \in Result,
             NEW tokens \in 0 .. MaxUsage, StoreResult(i, out, tokens)
      PROVE  Typed'
  <2>1. i <= cursor
    BY <1>6, ReadIsInStream DEF StoreResult
  <2>2. [task |-> i, result |-> out, tokens |-> tokens] \in Answer
    BY DEF Answer
  <2>3. results' \in Seq(Answer)
    BY <1>6, <2>2 DEF Typed, QueueTypeOK, StoreResult
  <2> QED
    BY <1>6, <2>1, <2>3 DEF Typed, QueueTypeOK, CursorExact, StoreResult,
                            End, TaskId, Stage
<1>7. ASSUME NEW i \in TaskId, Requeue(i) PROVE Typed'
  <2>1. i <= cursor /\ tasks[i] \in Message
    BY <1>7, ReadIsInStream DEF Requeue
  <2>2. /\ tasks' \in Seq(Message)
        /\ Len(tasks') = Len(tasks) + 1
        /\ Len(tasks') <= MaxTasks
    <3>1. /\ tasks[i].prompt \in Prompt
          /\ tasks[i].attempt + 1 \in Nat
          /\ i \in 0 .. MaxTasks
      BY <2>1 DEF Message, TaskId
    <3> QED
      BY <1>7, <3>1, TypedXAdd DEF Requeue
  <2> QED
    BY <1>7, <2>1, <2>2 DEF Typed, QueueTypeOK, CursorExact, Requeue, End,
                            TaskId, Stage
<1>8. ASSUME NEW i \in TaskId, DeadLetter(i) PROVE Typed'
  <2>1. i <= cursor
    BY <1>8, ReadIsInStream DEF DeadLetter
  <2>2. dead' \in Seq(TaskId)
    BY <1>8 DEF Typed, QueueTypeOK, DeadLetter
  <2> QED
    BY <1>8, <2>1, <2>2 DEF Typed, QueueTypeOK, CursorExact, DeadLetter, End,
                            TaskId, Stage
<1>9. ASSUME NEW i \in TaskId, LoseWrite(i) PROVE Typed'
  <2>1. i <= cursor
    BY <1>9, ReadIsInStream DEF LoseWrite
  <2> QED
    BY <1>9, <2>1 DEF Typed, QueueTypeOK, CursorExact, LoseWrite, End,
                      Disrupt, redisVars, TaskId, Stage
<1>10. ASSUME NEW i \in TaskId, SubmitSubtask(i) PROVE Typed'
  BY <1>10, <1>0 DEF SubmitSubtask
<1>11. ASSUME tasks' = tasks \/ \E prompt \in Prompt : XAddTask(prompt, 0, 0),
              Disrupt,
              UNCHANGED <<group, cursor, pel, stage, owner, results, dead, up>>
       PROVE  Typed'
  <2>1. /\ tasks' \in Seq(Message)
        /\ Len(tasks') \in {Len(tasks), Len(tasks) + 1}
        /\ Len(tasks') <= MaxTasks
    BY <1>11, TypedXAdd DEF Typed, QueueTypeOK
  <2>2. disruptions' \in 0 .. MaxDisruptions
    BY <1>11 DEF Typed, QueueTypeOK, Disrupt
  <2> QED
    BY <1>11, <2>1, <2>2 DEF Typed, QueueTypeOK, CursorExact
<1>12. CASE UNCHANGED queueVars
  BY <1>12 DEF Typed, QueueTypeOK, CursorExact, queueVars
<1> QED
  BY <1>0, <1>1, <1>2, <1>3, <1>4, <1>5, <1>6, <1>7, <1>8, <1>9, <1>10,
     <1>11, <1>12 DEF SharedNext, AgentNext

(***************************************************************************)
(* The queue's own steps are steps of the larger system's queue.           *)
(***************************************************************************)
LEMMA QueueIsShared == [QueueNext]_queueVars => [SharedNext]_queueVars
BY DEF QueueNext, SharedNext

(***************************************************************************)
(* The queue is well typed throughout.                                     *)
(***************************************************************************)
THEOREM QueueTypes == QueueSpec => []QueueTypeOK
<1>1. QueueSpec => []Typed
  BY TypedInit, TypedStep, QueueIsShared, PTL DEF QueueSpec
<1>2. Typed => QueueTypeOK
  BY DEF Typed
<1> QED
  BY <1>1, <1>2, PTL

-----------------------------------------------------------------------------
\* A step that at most adds a fresh task.
AddsNoOutcome ==
  /\ UNCHANGED <<results, dead>>
  /\ tasks' = tasks \/ \E prompt \in Prompt : XAddTask(prompt, 0, 0)

\* Task i has the outcomes it had.
SameOutcomes(i) == /\ Answers(i)' = Answers(i)
                   /\ Retries(i)' = Retries(i)
                   /\ DeadLetters(i)' = DeadLetters(i)

(***************************************************************************)
(* A step that at most adds a fresh task leaves the outcomes of every task *)
(* as they are: a fresh task retries none.                                 *)
(***************************************************************************)
LEMMA OutcomesKept ==
  ASSUME Typed, AddsNoOutcome
  PROVE  \A i \in TaskId : SameOutcomes(i)
<1>1. ASSUME NEW i \in TaskId
      PROVE  Answers(i)' = Answers(i) /\ DeadLetters(i)' = DeadLetters(i)
  BY DEF AddsNoOutcome, Answers, DeadLetters
<1>2. ASSUME NEW i \in TaskId PROVE Retries(i)' = Retries(i)
  <2>1. CASE tasks' = tasks
    BY <2>1 DEF Retries
  <2>2. CASE \E prompt \in Prompt : XAddTask(prompt, 0, 0)
    <3>1. PICK prompt \in Prompt : XAddTask(prompt, 0, 0)
      BY <2>2
    <3>2. /\ DOMAIN tasks' = DOMAIN tasks \union {Len(tasks) + 1}
          /\ \A j \in DOMAIN tasks : tasks'[j] = tasks[j]
          /\ tasks'[Len(tasks) + 1].retryOf = 0
      BY <3>1 DEF Typed, QueueTypeOK, XAddTask
    <3> QED
      BY <3>2 DEF Retries, TaskId
  <2> QED
    BY <2>1, <2>2 DEF AddsNoOutcome
<1> QED
  BY <1>1, <1>2 DEF SameOutcomes

(***************************************************************************)
(* The second command of Ack adds one answer to its task and nothing to    *)
(* any other.                                                              *)
(***************************************************************************)
LEMMA StoreResultAdds ==
  ASSUME Typed, NEW i \in TaskId, NEW out \in Result,
         NEW tokens \in 0 .. MaxUsage, StoreResult(i, out, tokens)
  PROVE  /\ Answers(i)' = Answers(i) \union {Len(results) + 1}
         /\ Retries(i)' = Retries(i)
         /\ DeadLetters(i)' = DeadLetters(i)
         /\ \A j \in TaskId \ {i} : SameOutcomes(j)
<1>1. /\ DOMAIN results' = DOMAIN results \union {Len(results) + 1}
      /\ \A r \in DOMAIN results : results'[r] = results[r]
      /\ results'[Len(results) + 1].task = i
  BY DEF Typed, QueueTypeOK, StoreResult
<1>2. \A j : Retries(j)' = Retries(j) /\ DeadLetters(j)' = DeadLetters(j)
  BY DEF StoreResult, Retries, DeadLetters
<1> QED
  BY <1>1, <1>2 DEF Answers, SameOutcomes

(***************************************************************************)
(* Nack's requeue adds one retry to its task and nothing to any other.     *)
(***************************************************************************)
LEMMA RequeueAdds ==
  ASSUME Typed, NEW i \in TaskId, Requeue(i)
  PROVE  /\ Answers(i)' = Answers(i)
         /\ Retries(i)' = Retries(i) \union {Len(tasks) + 1}
         /\ DeadLetters(i)' = DeadLetters(i)
         /\ \A j \in TaskId \ {i} : SameOutcomes(j)
<1>1. /\ DOMAIN tasks' = DOMAIN tasks \union {Len(tasks) + 1}
      /\ \A j \in DOMAIN tasks : tasks'[j] = tasks[j]
      /\ tasks'[Len(tasks) + 1].retryOf = i
  BY DEF Typed, QueueTypeOK, Requeue, XAddTask
<1>2. \A j : Answers(j)' = Answers(j) /\ DeadLetters(j)' = DeadLetters(j)
  BY DEF Requeue, Answers, DeadLetters
<1> QED
  BY <1>1, <1>2 DEF Retries, SameOutcomes

(***************************************************************************)
(* Nack's dead letter adds one dead letter to its task and nothing to any  *)
(* other.                                                                  *)
(***************************************************************************)
LEMMA DeadLetterAdds ==
  ASSUME Typed, NEW i \in TaskId, DeadLetter(i)
  PROVE  /\ Answers(i)' = Answers(i)
         /\ Retries(i)' = Retries(i)
         /\ DeadLetters(i)' = DeadLetters(i) \union {Len(dead) + 1}
         /\ \A j \in TaskId \ {i} : SameOutcomes(j)
<1>1. /\ DOMAIN dead' = DOMAIN dead \union {Len(dead) + 1}
      /\ \A d \in DOMAIN dead : dead'[d] = dead[d]
      /\ dead'[Len(dead) + 1] = i
  BY DEF Typed, QueueTypeOK, DeadLetter
<1>2. \A j : Answers(j)' = Answers(j) /\ Retries(j)' = Retries(j)
  BY DEF DeadLetter, Answers, Retries
<1> QED
  BY <1>1, <1>2 DEF DeadLetters, SameOutcomes

(***************************************************************************)
(* A task without an outcome has none of any kind.                         *)
(***************************************************************************)
LEMMA NoOutcome ==
  ASSUME NEW i, Outcomes(i) = {}
  PROVE  Answers(i) = {} /\ Retries(i) = {} /\ DeadLetters(i) = {}
<1>1. /\ \A r \in Answers(i) : <<"answer", r>> \in Outcomes(i)
      /\ \A j \in Retries(i) : <<"retry", j>> \in Outcomes(i)
      /\ \A d \in DeadLetters(i) : <<"dead letter", d>> \in Outcomes(i)
  BY DEF Outcomes
<1> QED
  BY <1>1

(***************************************************************************)
(* A step that writes no outcome, and ends goroutines only, keeps          *)
(* OneOutcome.                                                             *)
(***************************************************************************)
LEMMA QuietStep ==
  ASSUME Typed, OneOutcome, AddsNoOutcome,
         \A i \in TaskId : stage'[i] # "gone" => stage[i] # "gone"
  PROVE  OneOutcome'
<1>1. \A i \in TaskId : Outcomes(i)' = Outcomes(i)
  BY OutcomesKept DEF SameOutcomes, Outcomes
<1> QED
  BY <1>1 DEF OneOutcome

(***************************************************************************)
(* The step that ends a task with its one outcome keeps OneOutcome.        *)
(***************************************************************************)
LEMMA EndingStep ==
  ASSUME Typed, OneOutcome, NEW i \in TaskId, NEW o, stage[i] # "gone",
         End(i), Outcomes(i) = {} => Outcomes(i)' \subseteq {o},
         \A j \in TaskId \ {i} : SameOutcomes(j)
  PROVE  OneOutcome'
<1>1. Outcomes(i)' \subseteq {o}
  BY DEF OneOutcome
<1>2. stage' = [stage EXCEPT ![i] = "gone"] /\ DOMAIN stage = TaskId
  BY DEF End, Typed, QueueTypeOK
<1> SUFFICES ASSUME NEW j \in TaskId
             PROVE  /\ \A a, b \in Outcomes(j)' : a = b
                    /\ stage'[j] # "gone" => Outcomes(j)' = {}
  BY DEF OneOutcome
<1>3. CASE j = i
  BY <1>1, <1>2, <1>3
<1>4. CASE j # i
  <2>1. Outcomes(j)' = Outcomes(j) /\ stage'[j] = stage[j]
    BY <1>2, <1>4 DEF SameOutcomes, Outcomes
  <2> QED
    BY <2>1 DEF OneOutcome
<1> QED
  BY <1>3, <1>4

(***************************************************************************)
(* Without tasks there is no outcome.                                      *)
(***************************************************************************)
LEMMA OneOutcomeInit == QueueInit => OneOutcome
BY DEF QueueInit, OneOutcome, Outcomes, Answers, Retries, DeadLetters

(***************************************************************************)
(* No step of the queue gives a task a second outcome.                     *)
(***************************************************************************)
LEMMA OneOutcomeStep ==
  Typed /\ OneOutcome /\ [SharedNext]_queueVars => OneOutcome'
<1> SUFFICES ASSUME Typed, OneOutcome, [SharedNext]_queueVars
             PROVE  OneOutcome'
  OBVIOUS
<1>1. ASSUME NEW prompt \in Prompt, Submit(prompt) PROVE OneOutcome'
  BY <1>1, QuietStep DEF Submit, podVars, AddsNoOutcome
<1>2. ASSUME NEW w \in Pod, StartPod(w) PROVE OneOutcome'
  BY <1>2, QuietStep DEF StartPod, AddsNoOutcome
<1>3. ASSUME NEW w \in Pod, Poll(w) \/ PollLosesReply(w) PROVE OneOutcome'
  <2>1. cursor + 1 \in TaskId => stage[cursor + 1] = "unread"
    BY QueueAssumption DEF Typed, QueueTypeOK, CursorExact, TaskId
  <2>2. \A i \in TaskId : stage'[i] # "gone" => stage[i] # "gone"
    BY <1>3, <2>1 DEF Poll, PollLosesReply, Typed, QueueTypeOK
  <2> QED
    BY <1>3, <2>2, QuietStep DEF Poll, PollLosesReply, Deliver, AddsNoOutcome
<1>4. ASSUME NEW w \in Pod, StopPod(w) PROVE OneOutcome'
  BY <1>4, QuietStep DEF StopPod, redisVars, AddsNoOutcome
<1>5. ASSUME NEW i \in TaskId, NEW ok \in BOOLEAN, FinishTask(i, ok)
      PROVE  OneOutcome'
  <2>1. \A j \in TaskId : stage'[j] # "gone" => stage[j] # "gone"
    BY <1>5 DEF FinishTask, Typed, QueueTypeOK
  <2> QED
    BY <1>5, <2>1, QuietStep DEF FinishTask, AddsNoOutcome
<1>6. ASSUME NEW i \in TaskId, NEW out \in Result,
             NEW tokens \in 0 .. MaxUsage, StoreResult(i, out, tokens)
      PROVE OneOutcome'
  <2>1. stage[i] # "gone" /\ End(i)
    BY <1>6 DEF StoreResult
  <2>2. Outcomes(i) = {} =>
          Outcomes(i)' \subseteq {<<"answer", Len(results) + 1>>}
    <3> SUFFICES ASSUME Outcomes(i) = {}
                 PROVE  Outcomes(i)' \subseteq {<<"answer", Len(results) + 1>>}
      OBVIOUS
    <3>1. /\ Answers(i)' = {Len(results) + 1}
          /\ Retries(i)' = {}
          /\ DeadLetters(i)' = {}
      BY <1>6, NoOutcome, StoreResultAdds
    <3> QED
      BY <3>1 DEF Outcomes
  <2> QED
    BY <1>6, <2>1, <2>2, StoreResultAdds, EndingStep
<1>7. ASSUME NEW i \in TaskId, Requeue(i) PROVE OneOutcome'
  <2>1. stage[i] # "gone" /\ End(i)
    BY <1>7 DEF Requeue
  <2>2. Outcomes(i) = {} => Outcomes(i)' \subseteq {<<"retry", Len(tasks) + 1>>}
    <3> SUFFICES ASSUME Outcomes(i) = {}
                 PROVE  Outcomes(i)' \subseteq {<<"retry", Len(tasks) + 1>>}
      OBVIOUS
    <3>1. /\ Retries(i)' = {Len(tasks) + 1}
          /\ Answers(i)' = {}
          /\ DeadLetters(i)' = {}
      BY <1>7, NoOutcome, RequeueAdds
    <3> QED
      BY <3>1 DEF Outcomes
  <2> QED
    BY <1>7, <2>1, <2>2, RequeueAdds, EndingStep
<1>8. ASSUME NEW i \in TaskId, DeadLetter(i) PROVE OneOutcome'
  <2>1. stage[i] # "gone" /\ End(i)
    BY <1>8 DEF DeadLetter
  <2>2. Outcomes(i) = {} =>
          Outcomes(i)' \subseteq {<<"dead letter", Len(dead) + 1>>}
    <3> SUFFICES ASSUME Outcomes(i) = {}
                 PROVE  Outcomes(i)'
                           \subseteq {<<"dead letter", Len(dead) + 1>>}
      OBVIOUS
    <3>1. /\ DeadLetters(i)' = {Len(dead) + 1}
          /\ Answers(i)' = {}
          /\ Retries(i)' = {}
      BY <1>8, NoOutcome, DeadLetterAdds
    <3> QED
      BY <3>1 DEF Outcomes
  <2> QED
    BY <1>8, <2>1, <2>2, DeadLetterAdds, EndingStep
<1>9. ASSUME NEW i \in TaskId, LoseWrite(i) PROVE OneOutcome'
  <2>1. \A j \in TaskId : stage'[j] # "gone" => stage[j] # "gone"
    BY <1>9 DEF LoseWrite, End, Typed, QueueTypeOK
  <2> QED
    BY <1>9, <2>1, QuietStep DEF LoseWrite, redisVars, AddsNoOutcome
<1>10. ASSUME NEW i \in TaskId, SubmitSubtask(i) PROVE OneOutcome'
  BY <1>1, <1>10, QueueAssumption DEF SubmitSubtask
<1>11. ASSUME tasks' = tasks \/ \E prompt \in Prompt : XAddTask(prompt, 0, 0),
              UNCHANGED <<stage, results, dead>>
       PROVE  OneOutcome'
  BY <1>11, QuietStep DEF AddsNoOutcome
<1>12. CASE UNCHANGED queueVars
  BY <1>11, <1>12 DEF queueVars
<1> QED
  BY <1>1, <1>2, <1>3, <1>4, <1>5, <1>6, <1>7, <1>8, <1>9, <1>10, <1>11,
     <1>12 DEF SharedNext, AgentNext

(***************************************************************************)
(* Every task of the stream has at most one outcome, and has it only after *)
(* its goroutine ended: Ack and Nack never both take effect, nor one of    *)
(* them twice.                                                             *)
(***************************************************************************)
THEOREM QueueOneOutcome == QueueSpec => []OneOutcome
<1>1. QueueSpec => [](Typed /\ OneOutcome)
  BY TypedInit, TypedStep, OneOutcomeInit, OneOutcomeStep, QueueIsShared, PTL
     DEF QueueSpec
<1> QED
  BY <1>1, PTL

-----------------------------------------------------------------------------
\* The attempts of the messages in stream s are counted from one to the next.
Counted(s) ==
  \A j \in DOMAIN s :
    /\ s[j].attempt <= MaxRetries
    /\ s[j].retryOf < j
    /\ IF s[j].retryOf = 0 THEN s[j].attempt = 0
       ELSE /\ s[j].attempt = s[s[j].retryOf].attempt + 1
            /\ s[j].prompt = s[s[j].retryOf].prompt

(***************************************************************************)
(* Appending a message that is counted keeps the stream counted.           *)
(***************************************************************************)
LEMMA CountedAppend ==
  ASSUME Typed, Counted(tasks), NEW prompt \in Prompt, NEW attempt \in Nat,
         NEW retryOf \in 0 .. Len(tasks), attempt <= MaxRetries,
         retryOf = 0 => attempt = 0,
         retryOf # 0 => /\ attempt = tasks[retryOf].attempt + 1
                        /\ prompt = tasks[retryOf].prompt,
         XAddTask(prompt, attempt, retryOf)
  PROVE  Counted(tasks')
<1> DEFINE n == Len(tasks) + 1
<1>1. /\ DOMAIN tasks' = DOMAIN tasks \union {n}
      /\ DOMAIN tasks = 1 .. Len(tasks)
      /\ Len(tasks) \in Nat
      /\ \A j \in DOMAIN tasks : tasks'[j] = tasks[j] /\ tasks[j] \in Message
      /\ tasks'[n] = [prompt |-> prompt, attempt |-> attempt,
                      retryOf |-> retryOf]
  BY DEF Typed, QueueTypeOK, XAddTask
<1> SUFFICES ASSUME NEW j \in DOMAIN tasks'
             PROVE  /\ tasks'[j].attempt <= MaxRetries
                    /\ tasks'[j].retryOf < j
                    /\ IF tasks'[j].retryOf = 0 THEN tasks'[j].attempt = 0
                       ELSE /\ tasks'[j].attempt
                                 = tasks'[tasks'[j].retryOf].attempt + 1
                            /\ tasks'[j].prompt
                                 = tasks'[tasks'[j].retryOf].prompt
  BY DEF Counted
<1>2. CASE j = n
  BY <1>1, <1>2
<1>3. CASE j \in DOMAIN tasks
  <2>1. tasks[j].retryOf = 0 \/ tasks[j].retryOf \in DOMAIN tasks
    BY <1>1, <1>3 DEF Counted, Message
  <2> QED
    BY <1>1, <1>3, <2>1 DEF Counted
<1> QED
  BY <1>1, <1>2, <1>3

\* A dead letter is the last attempt of its task.
DeadAtLast ==
  \A d \in DOMAIN dead : /\ dead[d] \in DOMAIN tasks
                         /\ tasks[dead[d]].attempt = MaxRetries

\* The inductive form of RetriesCounted.
CountsRetries == Counted(tasks) /\ DeadAtLast

(***************************************************************************)
(* Every step counts attempts.                                             *)
(***************************************************************************)
LEMMA RetriesCountedStep ==
  Typed /\ CountsRetries /\ [QueueNext]_queueVars => CountsRetries'
<1> SUFFICES ASSUME Typed, Counted(tasks), DeadAtLast, [QueueNext]_queueVars
             PROVE  Counted(tasks') /\ DeadAtLast'
  BY DEF CountsRetries
<1> USE QueueAssumption
<1>1. ASSUME UNCHANGED <<tasks, dead>>
      PROVE  Counted(tasks') /\ DeadAtLast'
  BY <1>1 DEF DeadAtLast
<1>2. ASSUME NEW prompt, NEW attempt, NEW retryOf,
             XAddTask(prompt, attempt, retryOf), UNCHANGED dead
      PROVE  DeadAtLast'
  <2>1. \A i \in DOMAIN tasks : i \in DOMAIN tasks' /\ tasks'[i] = tasks[i]
    BY <1>2 DEF Typed, QueueTypeOK, XAddTask
  <2> QED
    BY <1>2, <2>1 DEF DeadAtLast
<1>3. ASSUME NEW prompt \in Prompt, Submit(prompt)
      PROVE  Counted(tasks') /\ DeadAtLast'
  <2>1. XAddTask(prompt, 0, 0) /\ UNCHANGED dead /\ 0 \in 0 .. Len(tasks)
    BY <1>3 DEF Submit, Typed, QueueTypeOK
  <2>2. Counted(tasks')
    BY <2>1, CountedAppend
  <2> QED
    BY <1>2, <2>1, <2>2
<1>4. ASSUME NEW i \in TaskId, Requeue(i)
      PROVE  Counted(tasks') /\ DeadAtLast'
  <2>1. /\ i \in 0 .. Len(tasks)
        /\ i # 0
        /\ tasks[i] \in Message
    BY <1>4, ReadIsInStream DEF Requeue, Typed, QueueTypeOK, TaskId
  <2>2. /\ tasks[i].prompt \in Prompt
        /\ tasks[i].attempt + 1 \in Nat
        /\ tasks[i].attempt + 1 <= MaxRetries
    BY <1>4, <2>1 DEF Requeue, Message
  <2>3. XAddTask(tasks[i].prompt, tasks[i].attempt + 1, i) /\ UNCHANGED dead
    BY <1>4 DEF Requeue
  <2>4. Counted(tasks')
    BY <2>1, <2>2, <2>3, CountedAppend
  <2> QED
    BY <1>2, <2>3, <2>4
<1>5. ASSUME NEW i \in TaskId, DeadLetter(i)
      PROVE  Counted(tasks') /\ DeadAtLast'
  <2>1. i \in DOMAIN tasks /\ tasks[i] \in Message
    BY <1>5, ReadIsInStream DEF DeadLetter
  <2>2. tasks[i].attempt = MaxRetries
    BY <1>5, <2>1 DEF DeadLetter, Counted, Message
  <2>3. /\ DOMAIN dead' = DOMAIN dead \union {Len(dead) + 1}
        /\ \A d \in DOMAIN dead : dead'[d] = dead[d]
        /\ dead'[Len(dead) + 1] = i
        /\ UNCHANGED tasks
    BY <1>5 DEF Typed, QueueTypeOK, DeadLetter
  <2> QED
    BY <2>1, <2>2, <2>3 DEF DeadAtLast
<1>6. ASSUME NEW w \in Pod,
             StartPod(w) \/ Poll(w) \/ PollLosesReply(w) \/ StopPod(w)
      PROVE  UNCHANGED <<tasks, dead>>
  BY <1>6 DEF StartPod, Poll, PollLosesReply, Deliver, StopPod, redisVars
<1>7. ASSUME NEW i \in TaskId,
             \/ \E ok \in BOOLEAN : FinishTask(i, ok)
             \/ \E out \in Result, tokens \in 0 .. MaxUsage :
                  StoreResult(i, out, tokens)
             \/ LoseWrite(i)
      PROVE  UNCHANGED <<tasks, dead>>
  BY <1>7 DEF FinishTask, StoreResult, LoseWrite, redisVars
<1>8. ASSUME NEW i \in TaskId, SubmitSubtask(i)
      PROVE  Counted(tasks') /\ DeadAtLast'
  BY <1>3, <1>8 DEF SubmitSubtask
<1>9. CASE UNCHANGED queueVars
  BY <1>1, <1>9 DEF queueVars
<1> QED
  BY <1>1, <1>3, <1>4, <1>5, <1>6, <1>7, <1>8, <1>9 DEF QueueNext, AgentNext

(***************************************************************************)
(* Nack counts the attempts of a task up to MaxRetries and dead-letters    *)
(* the last one.                                                           *)
(***************************************************************************)
THEOREM QueueRetriesCounted == QueueSpec => []RetriesCounted
<1>1. QueueInit => CountsRetries
  BY DEF QueueInit, CountsRetries, Counted, DeadAtLast
<1>2. CountsRetries => RetriesCounted
  BY DEF CountsRetries, Counted, DeadAtLast, RetriesCounted
<1>3. QueueSpec => [](Typed /\ CountsRetries)
  BY <1>1, TypedInit, TypedStep, QueueIsShared, RetriesCountedStep, PTL
     DEF QueueSpec
<1> QED
  BY <1>2, <1>3, PTL

-----------------------------------------------------------------------------
\* The tasks whose goroutine runs.
Running == {i \in TaskId : stage[i] = "running"}

\* What NothingLost says while there was no disruption.
NothingLostYet ==
  /\ \A i \in TaskId : stage[i] = "gone" => Outcomes(i) # {}
  /\ pel = Running

(***************************************************************************)
(* A step that is no disruption loses nothing.                             *)
(***************************************************************************)
LEMMA NothingLostStep ==
  Typed /\ NothingLost /\ [QueueNext]_queueVars => NothingLost'
<1> SUFFICES ASSUME Typed, NothingLost, [QueueNext]_queueVars,
                    disruptions' = 0
             PROVE  NothingLostYet'
  BY DEF NothingLost, NothingLostYet, Running
<1>1. /\ disruptions \in 0 .. MaxDisruptions
      /\ disruptions' = disruptions \/ Disrupt
  <2>1. disruptions \in 0 .. MaxDisruptions
    BY DEF Typed, QueueTypeOK
  <2>2. ASSUME NEW w \in Pod,
               StartPod(w) \/ Poll(w) \/ PollLosesReply(w) \/ StopPod(w)
        PROVE  disruptions' = disruptions \/ Disrupt
    BY <2>2 DEF StartPod, Poll, PollLosesReply, StopPod
  <2>3. ASSUME NEW i \in TaskId,
               \/ SubmitSubtask(i)
               \/ \E ok \in BOOLEAN : FinishTask(i, ok)
               \/ \E out \in Result, tokens \in 0 .. MaxUsage :
                    StoreResult(i, out, tokens)
               \/ Requeue(i) \/ DeadLetter(i) \/ LoseWrite(i)
        PROVE  disruptions' = disruptions \/ Disrupt
    BY <2>3 DEF SubmitSubtask, Submit, FinishTask, StoreResult, Requeue,
                DeadLetter, LoseWrite
  <2>4. ASSUME NEW prompt \in Prompt, Submit(prompt)
        PROVE  disruptions' = disruptions
    BY <2>4 DEF Submit
  <2>5. CASE UNCHANGED queueVars
    BY <2>1, <2>5 DEF queueVars
  <2> QED
    BY <2>1, <2>2, <2>3, <2>4, <2>5 DEF QueueNext, AgentNext
<1>2. disruptions = 0 /\ ~Disrupt
  BY <1>1 DEF Disrupt
<1>3. NothingLostYet
  BY <1>2 DEF NothingLost, NothingLostYet, Running
<1>4. ASSUME AddsNoOutcome, UNCHANGED <<stage, pel>> PROVE NothingLostYet'
  BY <1>3, <1>4, OutcomesKept DEF NothingLostYet, Running, SameOutcomes,
                                  Outcomes
<1>5. ASSUME NEW i \in TaskId, End(i), stage[i] # "running", UNCHANGED pel,
             Outcomes(i)' # {}, \A j \in TaskId \ {i} : SameOutcomes(j)
      PROVE  NothingLostYet'
  <2>1. stage' = [stage EXCEPT ![i] = "gone"] /\ DOMAIN stage = TaskId
    BY <1>5 DEF End, Typed, QueueTypeOK
  <2>2. Running' = Running
    BY <1>5, <2>1 DEF Running
  <2>3. \A j \in TaskId \ {i} : Outcomes(j)' = Outcomes(j)
    BY <1>5 DEF SameOutcomes, Outcomes
  <2> QED
    BY <1>3, <1>5, <2>1, <2>2, <2>3 DEF NothingLostYet
<1>6. ASSUME NEW prompt \in Prompt, Submit(prompt) PROVE NothingLostYet'
  BY <1>4, <1>6 DEF Submit, AddsNoOutcome, podVars
<1>7. ASSUME NEW w \in Pod, StartPod(w) PROVE NothingLostYet'
  BY <1>4, <1>7 DEF StartPod, AddsNoOutcome
<1>8. ASSUME NEW w \in Pod, Poll(w) PROVE NothingLostYet'
  <2>1. cursor + 1 \in TaskId
    BY <1>8, QueueAssumption DEF Poll, Deliver, Typed, QueueTypeOK, TaskId
  <2>2. /\ stage' = [stage EXCEPT ![cursor + 1] = "running"]
        /\ DOMAIN stage = TaskId
        /\ pel' = pel \union {cursor + 1}
        /\ AddsNoOutcome
    BY <1>8 DEF Poll, Deliver, Typed, QueueTypeOK, AddsNoOutcome
  <2>3. Running' = Running \union {cursor + 1}
    BY <2>1, <2>2 DEF Running
  <2>4. \A i \in TaskId : Outcomes(i)' = Outcomes(i)
    BY <2>2, OutcomesKept DEF SameOutcomes, Outcomes
  <2> QED
    BY <1>3, <2>2, <2>3, <2>4 DEF NothingLostYet
<1>9. ASSUME NEW i \in TaskId, NEW ok \in BOOLEAN, FinishTask(i, ok)
      PROVE  NothingLostYet'
  <2>1. /\ stage'[i] \notin {"running", "gone"}
        /\ \A j \in TaskId \ {i} : stage'[j] = stage[j]
        /\ pel' = pel \ {i}
        /\ AddsNoOutcome
    <3>1. DOMAIN stage = TaskId
      BY DEF Typed, QueueTypeOK
    <3>2. stage' = [stage EXCEPT ![i] = IF ok THEN "acked" ELSE "nacked"]
      BY <1>9 DEF FinishTask
    <3>3. pel' = pel \ {i}
      BY <1>2, <1>9, Zenon DEF FinishTask
    <3>4. AddsNoOutcome
      BY <1>9, Zenon DEF FinishTask, AddsNoOutcome
    <3> QED
      BY <3>1, <3>2, <3>3, <3>4
  <2>2. Running' = Running \ {i}
    BY <2>1 DEF Running
  <2>3. \A j \in TaskId : Outcomes(j)' = Outcomes(j)
    BY <2>1, OutcomesKept DEF SameOutcomes, Outcomes
  <2> QED
    BY <1>3, <2>1, <2>2, <2>3 DEF NothingLostYet
<1>10. ASSUME NEW i \in TaskId, NEW out \in Result,
              NEW tokens \in 0 .. MaxUsage, StoreResult(i, out, tokens)
       PROVE  NothingLostYet'
  <2>1. Answers(i)' # {} /\ \A j \in TaskId \ {i} : SameOutcomes(j)
    BY <1>10, StoreResultAdds
  <2>2. Outcomes(i)' # {}
    BY <2>1 DEF Outcomes
  <2>3. End(i) /\ stage[i] # "running" /\ UNCHANGED pel
    BY <1>10 DEF StoreResult
  <2> QED
    BY <1>5, <2>1, <2>2, <2>3
<1>11. ASSUME NEW i \in TaskId, Requeue(i) PROVE NothingLostYet'
  <2>1. Retries(i)' # {} /\ \A j \in TaskId \ {i} : SameOutcomes(j)
    BY <1>11, RequeueAdds
  <2>2. Outcomes(i)' # {}
    BY <2>1 DEF Outcomes
  <2>3. End(i) /\ stage[i] # "running" /\ UNCHANGED pel
    BY <1>11 DEF Requeue
  <2> QED
    BY <1>5, <2>1, <2>2, <2>3
<1>12. ASSUME NEW i \in TaskId, DeadLetter(i) PROVE NothingLostYet'
  <2>1. DeadLetters(i)' # {} /\ \A j \in TaskId \ {i} : SameOutcomes(j)
    BY <1>12, DeadLetterAdds
  <2>2. Outcomes(i)' # {}
    BY <2>1 DEF Outcomes
  <2>3. End(i) /\ stage[i] # "running" /\ UNCHANGED pel
    BY <1>12 DEF DeadLetter
  <2> QED
    BY <1>5, <2>1, <2>2, <2>3
<1>13. ASSUME NEW i \in TaskId, SubmitSubtask(i) PROVE NothingLostYet'
  BY <1>6, <1>13, QueueAssumption DEF SubmitSubtask
<1>14. CASE UNCHANGED queueVars
  BY <1>4, <1>14 DEF queueVars, AddsNoOutcome
<1>15. \A w \in Pod : ~PollLosesReply(w) /\ ~StopPod(w)
  BY <1>2 DEF PollLosesReply, StopPod
<1>16. \A i \in TaskId : ~LoseWrite(i)
  BY <1>2 DEF LoseWrite
<1> QED
  BY <1>6, <1>7, <1>8, <1>9, <1>10, <1>11, <1>12, <1>13, <1>14, <1>15, <1>16
     DEF QueueNext, AgentNext

(***************************************************************************)
(* Tasks are lost in disruptions only: while there was none, a task whose  *)
(* goroutine ended has an outcome, and Redis has exactly the running tasks *)
(* pending.                                                                *)
(***************************************************************************)
THEOREM QueueLosesNothing == QueueSpec => []NothingLost
<1>1. QueueInit => NothingLost
  BY DEF QueueInit, NothingLost
<1>2. QueueSpec => [](Typed /\ NothingLost)
  BY <1>1, TypedInit, TypedStep, QueueIsShared, NothingLostStep, PTL
     DEF QueueSpec
<1> QED
  BY <1>2, PTL
-----------------------------------------------------------------------------
(***************************************************************************)
(* The task queue implements TaskSettlement: at-most-once delivery in the  *)
(* order of the stream, and at most one end per task.                      *)
(***************************************************************************)
\* The fates of all tasks: what the queue shows of TaskSettlement's state.
Fates == [i \in TaskId |-> FateOf(i)]

(***************************************************************************)
(* A task whose stage and outcomes stay has the fate it had.               *)
(***************************************************************************)
LEMMA FateKept ==
  ASSUME Typed, Typed', NEW i \in TaskId, stage'[i] = stage[i],
         SameOutcomes(i), i > Len(tasks') <=> i > Len(tasks)
  PROVE  FateOf(i)' = FateOf(i)
<1>1. i <= Len(tasks') <=> i <= Len(tasks)
  BY QueueAssumption DEF Typed, QueueTypeOK, TaskId
<1>2. Answers(i)' = Answers(i) /\ Retries(i)' = Retries(i)
        /\ DeadLetters(i)' = DeadLetters(i)
  BY DEF SameOutcomes
<1> QED
  BY <1>1, <1>2 DEF FateOf

\* What FateOf says of a task, by its stage.
FatesByStage ==
  \A i \in TaskId :
    /\ FateOf(i) = "absent" <=> i > Len(tasks)
    /\ FateOf(i) = "queued" <=> i <= Len(tasks) /\ stage[i] = "unread"
    /\ FateOf(i) = "claimed" <=> stage[i] \in {"running", "acked", "nacked"}

(***************************************************************************)
(* A task is absent, queued or claimed exactly by its stage and the length *)
(* of the stream; only a task that is gone has a fate of another kind.     *)
(***************************************************************************)
LEMMA FateByStage == Typed => FatesByStage
<1> SUFFICES ASSUME Typed, NEW i \in TaskId
             PROVE  /\ FateOf(i) = "absent" <=> i > Len(tasks)
                    /\ FateOf(i) = "queued" <=>
                         i <= Len(tasks) /\ stage[i] = "unread"
                    /\ FateOf(i) = "claimed" <=>
                         stage[i] \in {"running", "acked", "nacked"}
  BY DEF FatesByStage
<1>1. stage[i] \in Stage /\ Len(tasks) \in Nat /\ i \in Nat
  BY QueueAssumption DEF Typed, QueueTypeOK, TaskId
<1>2. i > Len(tasks) => stage[i] = "unread"
  BY <1>1, QueueAssumption DEF Typed, QueueTypeOK, CursorExact, TaskId
<1>3. CASE i > Len(tasks)
  BY <1>1, <1>2, <1>3 DEF FateOf
<1>4. CASE i <= Len(tasks) /\ stage[i] = "unread"
  BY <1>1, <1>4 DEF FateOf
<1>5. CASE i <= Len(tasks) /\ stage[i] \in {"running", "acked", "nacked"}
  BY <1>1, <1>5 DEF FateOf
<1>6. CASE i <= Len(tasks) /\ stage[i] = "gone"
  BY <1>1, <1>6 DEF FateOf
<1> QED
  BY <1>1, <1>3, <1>4, <1>5, <1>6 DEF Stage

(***************************************************************************)
(* The same holds of the next state.                                       *)
(***************************************************************************)
LEMMA FateByStageNext == Typed' => FatesByStage'
BY FateByStage, PTL

(***************************************************************************)
(* The queue without tasks is one without fates.                           *)
(***************************************************************************)
LEMMA SettlementInit == QueueInit => Settlement!Init
BY QueueAssumption
   DEF QueueInit, Settlement!Init, FateOf, TaskId, Settlement!TaskId

(***************************************************************************)
(* A message appended to the stream takes the next free identifier.        *)
(***************************************************************************)
LEMMA Appended ==
  ASSUME Typed, Typed', NEW prompt, NEW attempt, NEW retryOf,
         XAddTask(prompt, attempt, retryOf),
         \A i \in TaskId : stage[i] = "unread" => stage'[i] = "unread"
  PROVE  \E n \in TaskId :
           /\ Len(tasks) \in Nat
           /\ n = Len(tasks) + 1
           /\ Len(tasks') = n
           /\ FateOf(n) = "absent"
           /\ \A i \in TaskId : FateOf(i) = "absent" => i >= n
           /\ FateOf(n)' = "queued"
<1> USE QueueAssumption
<1> PICK n : n = Len(tasks) + 1
  OBVIOUS
<1>1. n \in TaskId /\ Len(tasks) \in Nat /\ Len(tasks') = n
  BY DEF Typed, QueueTypeOK, XAddTask, TaskId
<1>2. FateOf(n) = "absent" /\ \A i \in TaskId : FateOf(i) = "absent" => i >= n
  BY <1>1, FateByStage DEF FatesByStage, TaskId
<1>3. stage[n] = "unread"
  <2>1. n > cursor
    BY <1>1 DEF Typed, QueueTypeOK
  <2> QED
    BY <1>1, <2>1 DEF Typed, CursorExact
<1>4. FateOf(n)' = "queued"
  BY <1>1, <1>3, FateByStageNext DEF FatesByStage, TaskId
<1> QED
  BY <1>1, <1>2, <1>4

(***************************************************************************)
(* Every step of the queue is a step of TaskSettlement, or leaves all      *)
(* fates as they are.                                                      *)
(***************************************************************************)
LEMMA SettlementStep ==
  /\ Typed /\ Typed'
  /\ OneOutcome /\ OneOutcome'
  /\ [QueueNext]_queueVars
  => [Settlement!Next]_Fates
<1> SUFFICES ASSUME Typed, Typed', OneOutcome, OneOutcome',
                    [QueueNext]_queueVars
             PROVE  Settlement!Next \/ Fates' = Fates
  OBVIOUS
<1> USE QueueAssumption
<1>1. /\ FatesByStage /\ FatesByStage'
      /\ DOMAIN stage = TaskId /\ DOMAIN stage' = TaskId
      /\ Len(tasks) \in Nat
  BY FateByStage, FateByStageNext DEF Typed, QueueTypeOK
<1>2. ASSUME AddsNoOutcome, UNCHANGED tasks,
             NEW i \in TaskId, stage'[i] = stage[i]
      PROVE  FateOf(i)' = FateOf(i)
  <2>1. SameOutcomes(i)
    BY <1>2, OutcomesKept
  <2> QED
    BY <1>2, <2>1, FateKept
<1>3. ASSUME NEW prompt \in Prompt, Submit(prompt) PROVE Settlement!Next
  <2>1. XAddTask(prompt, 0, 0) /\ UNCHANGED stage /\ AddsNoOutcome
    BY <1>3 DEF Submit, podVars, AddsNoOutcome
  <2>2. PICK n \in TaskId :
          /\ Len(tasks') = n
          /\ n = Len(tasks) + 1
          /\ FateOf(n) = "absent"
          /\ \A i \in TaskId : FateOf(i) = "absent" => i >= n
          /\ FateOf(n)' = "queued"
    BY <2>1, Appended
  <2>3. ASSUME NEW i \in TaskId \ {n} PROVE FateOf(i)' = FateOf(i)
    <3>1. SameOutcomes(i) /\ stage'[i] = stage[i]
      BY <2>1, OutcomesKept
    <3>2. i > Len(tasks') <=> i > Len(tasks)
      BY <1>1, <2>2 DEF TaskId
    <3> QED
      BY <3>1, <3>2, FateKept
  <2>4. Fates' = [Fates EXCEPT ![n] = "queued"]
    BY <2>2, <2>3 DEF Fates
  <2>5. Settlement!Enqueue(n)
    BY <2>2, <2>4 DEF Settlement!Enqueue, Settlement!NextFree, Fates,
                      Settlement!TaskId, TaskId
  <2> QED
    BY <2>2, <2>5 DEF Settlement!Next, Settlement!TaskId, TaskId
<1>4. ASSUME NEW w \in Pod, StartPod(w) PROVE Fates' = Fates
  <2>1. AddsNoOutcome /\ UNCHANGED <<tasks, stage>>
    BY <1>4 DEF StartPod, AddsNoOutcome
  <2> QED
    BY <1>2, <2>1 DEF Fates
<1>5. ASSUME NEW w \in Pod, Poll(w) \/ PollLosesReply(w)
      PROVE  Settlement!Next
  <2> PICK c : c = cursor + 1
    OBVIOUS
  <2>1. /\ c \in TaskId
        /\ c <= Len(tasks)
        /\ \A i \in TaskId : i >= c => stage[i] = "unread"
        /\ UNCHANGED tasks
        /\ AddsNoOutcome
    BY <1>5 DEF Poll, PollLosesReply, Deliver, Typed, QueueTypeOK,
                CursorExact, TaskId, AddsNoOutcome
  <2>2. /\ stage'[c] \in {"running", "gone"}
        /\ \A i \in TaskId \ {c} : stage'[i] = stage[i]
    BY <1>1, <1>5, <2>1 DEF Poll, PollLosesReply
  <2>3. FateOf(c) = "queued"
    BY <1>1, <2>1 DEF FatesByStage, TaskId
  <2>4. \A i \in TaskId : i > c => FateOf(i) \in {"absent", "queued"}
    BY <1>1, <2>1 DEF FatesByStage, TaskId
  <2>5. FateOf(c)' \in {"claimed", "lost"}
    <3>1. CASE stage'[c] = "running"
      BY <1>1, <2>1, <3>1 DEF FatesByStage
    <3>2. CASE stage'[c] = "gone"
      <4>1. Outcomes(c) = {}
        BY <2>1 DEF OneOutcome
      <4>2. /\ Answers(c)' = {}
            /\ Retries(c)' = {}
            /\ DeadLetters(c)' = {}
        BY <2>1, <4>1, NoOutcome, OutcomesKept DEF SameOutcomes
      <4>3. ~(c > Len(tasks'))
        BY <1>1, <2>1 DEF TaskId
      <4> QED
        BY <3>2, <4>2, <4>3 DEF FateOf
    <3> QED
      BY <2>2, <3>1, <3>2
  <2>6. Fates' = [Fates EXCEPT ![c] = FateOf(c)']
    BY <1>2, <2>1, <2>2 DEF Fates
  <2>7. Settlement!Claim(c)
    BY <2>1, <2>3, <2>4, <2>5, <2>6
       DEF Settlement!Claim, Settlement!InOrder, Fates, Settlement!TaskId,
           TaskId
  <2> QED
    BY <2>1, <2>7 DEF Settlement!Next, Settlement!TaskId, TaskId
<1>6. ASSUME NEW S \in SUBSET TaskId, AddsNoOutcome, UNCHANGED tasks,
             \A i \in S : /\ stage[i] \in {"running", "acked", "nacked"}
                         /\ stage'[i] = "gone",
             \A i \in TaskId \ S : stage'[i] = stage[i]
      PROVE  Settlement!Next
  <2>1. ASSUME NEW i \in S
        PROVE  FateOf(i) = "claimed" /\ FateOf(i)' = "lost"
    <3>1. FateOf(i) = "claimed" /\ i <= Len(tasks)
      BY <1>1, <1>6 DEF FatesByStage, TaskId
    <3>2. Outcomes(i) = {}
      BY <1>6 DEF OneOutcome
    <3>3. /\ Answers(i)' = {}
          /\ Retries(i)' = {}
          /\ DeadLetters(i)' = {}
      BY <1>6, <3>2, NoOutcome, OutcomesKept DEF SameOutcomes
    <3>4. ~(i > Len(tasks'))
      BY <1>1, <1>6, <3>1 DEF TaskId
    <3> QED
      BY <1>6, <3>1, <3>3, <3>4 DEF FateOf
  <2>2. Fates' = [i \in TaskId |-> IF i \in S THEN "lost" ELSE Fates[i]]
    BY <1>2, <1>6, <2>1 DEF Fates
  <2>3. Settlement!Lose(S)
    BY <2>1, <2>2 DEF Settlement!Lose, Fates, Settlement!TaskId, TaskId
  <2> QED
    BY <2>3 DEF Settlement!Next, Settlement!TaskId, TaskId
<1>7. ASSUME NEW w \in Pod, StopPod(w) PROVE Settlement!Next
  <2> DEFINE S == {i \in TaskId : /\ owner[i] = w
                                 /\ stage[i] \notin {"unread", "gone"}}
  <2>1. AddsNoOutcome /\ UNCHANGED tasks
    BY <1>7 DEF StopPod, redisVars, AddsNoOutcome
  <2>2. \A i \in TaskId : stage[i] = "unread" => owner[i] # w
    BY NoPodAssumption DEF Typed, CursorExact
  <2>3. \A i \in TaskId :
          stage'[i] = IF owner[i] = w THEN "gone" ELSE stage[i]
    BY <1>7 DEF StopPod
  <2>4. \A i \in S : /\ stage[i] \in {"running", "acked", "nacked"}
                     /\ stage'[i] = "gone"
    BY <2>3 DEF Typed, QueueTypeOK, Stage
  <2>5. \A i \in TaskId \ S : stage'[i] = stage[i]
    BY <2>2, <2>3
  <2> HIDE DEF S
  <2>6. S \in SUBSET TaskId
    BY DEF S
  <2> QED
    BY <1>6, <2>1, <2>4, <2>5, <2>6
<1>8. ASSUME NEW i \in TaskId, LoseWrite(i) PROVE Settlement!Next
  <2>1. AddsNoOutcome /\ UNCHANGED tasks
    BY <1>8 DEF LoseWrite, redisVars, AddsNoOutcome
  <2>2. /\ stage[i] \in {"running", "acked", "nacked"}
        /\ stage'[i] = "gone"
        /\ \A j \in TaskId \ {i} : stage'[j] = stage[j]
    BY <1>1, <1>8 DEF LoseWrite, End
  <2> QED
    BY <1>6, <2>1, <2>2
<1>9. ASSUME NEW i \in TaskId, NEW ok \in BOOLEAN, FinishTask(i, ok)
      PROVE  Fates' = Fates
  <2>1. AddsNoOutcome /\ UNCHANGED tasks
    BY <1>9, Zenon DEF FinishTask, AddsNoOutcome
  <2>2. /\ stage[i] = "running"
        /\ stage'[i] \in {"acked", "nacked"}
        /\ \A j \in TaskId \ {i} : stage'[j] = stage[j]
    <3>1. stage' = [stage EXCEPT ![i] = IF ok THEN "acked" ELSE "nacked"]
      BY <1>9 DEF FinishTask
    <3>2. stage[i] = "running"
      BY <1>9 DEF FinishTask
    <3> QED
      BY <1>1, <3>1, <3>2
  <2>3. FateOf(i)' = FateOf(i)
    BY <1>1, <2>2 DEF FatesByStage
  <2> QED
    BY <1>2, <2>1, <2>2, <2>3 DEF Fates
<1>10. ASSUME NEW i \in TaskId, UNCHANGED tasks, End(i),
              stage[i] \in {"acked", "nacked"},
              \/ Answers(i)' # {}
              \/ /\ Answers(i)' = {} /\ Retries(i)' = {}
                 /\ DeadLetters(i)' # {},
              \A j \in TaskId \ {i} : SameOutcomes(j)
       PROVE  Settlement!Next
  <2>1. /\ stage'[i] = "gone"
        /\ \A j \in TaskId \ {i} : stage'[j] = stage[j]
    BY <1>1, <1>10 DEF End
  <2>2. FateOf(i) = "claimed" /\ ~(i > Len(tasks'))
    BY <1>1, <1>10 DEF FatesByStage, TaskId
  <2>3. FateOf(i)' \in {"answered", "dead"}
    BY <1>10, <2>1, <2>2 DEF FateOf
  <2>4. \A j \in TaskId \ {i} : FateOf(j)' = FateOf(j)
    BY <1>10, <2>1, FateKept
  <2>5. Fates' = [Fates EXCEPT ![i] = FateOf(i)']
    BY <2>4 DEF Fates
  <2>6. Settlement!Settle(i)
    BY <2>2, <2>3, <2>5 DEF Settlement!Settle, Fates
  <2> QED
    BY <2>6 DEF Settlement!Next, Settlement!TaskId, TaskId
<1>11. ASSUME NEW i \in TaskId, NEW out \in Result,
              NEW tokens \in 0 .. MaxUsage, StoreResult(i, out, tokens)
       PROVE  Settlement!Next
  <2>1. Answers(i)' # {} /\ \A j \in TaskId \ {i} : SameOutcomes(j)
    BY <1>11, StoreResultAdds
  <2>2. UNCHANGED tasks /\ End(i) /\ stage[i] \in {"acked", "nacked"}
    BY <1>11 DEF StoreResult
  <2> QED
    BY <1>10, <2>1, <2>2
<1>12. ASSUME NEW i \in TaskId, DeadLetter(i) PROVE Settlement!Next
  <2>1. UNCHANGED tasks /\ End(i) /\ stage[i] = "nacked"
    BY <1>12 DEF DeadLetter
  <2>2. Outcomes(i) = {}
    BY <2>1 DEF OneOutcome
  <2>3. /\ Answers(i)' = {} /\ Retries(i)' = {} /\ DeadLetters(i)' # {}
        /\ \A j \in TaskId \ {i} : SameOutcomes(j)
    BY <1>12, <2>2, NoOutcome, DeadLetterAdds
  <2> QED
    BY <1>10, <2>1, <2>3
<1>13. ASSUME NEW i \in TaskId, Requeue(i) PROVE Settlement!Next
  <2>1. /\ End(i) /\ stage[i] = "nacked"
        /\ XAddTask(tasks[i].prompt, tasks[i].attempt + 1, i)
    BY <1>13 DEF Requeue
  <2>2. /\ stage'[i] = "gone"
        /\ \A j \in TaskId \ {i} : stage'[j] = stage[j]
    BY <1>1, <2>1 DEF End
  <2>3. PICK n \in TaskId :
          /\ Len(tasks') = n
          /\ n = Len(tasks) + 1
          /\ FateOf(n) = "absent"
          /\ \A j \in TaskId : FateOf(j) = "absent" => j >= n
          /\ FateOf(n)' = "queued"
    BY <2>1, <2>2, Appended
  <2>4. FateOf(i) = "claimed" /\ i < n
    BY <1>1, <2>1, <2>3 DEF FatesByStage, TaskId
  <2>5. Outcomes(i) = {}
    BY <2>1 DEF OneOutcome
  <2>6. /\ Answers(i)' = {} /\ Retries(i)' # {}
        /\ \A j \in TaskId \ {i} : SameOutcomes(j)
    BY <1>13, <2>5, NoOutcome, RequeueAdds
  <2>7. ~(i > Len(tasks'))
    BY <2>3, <2>4 DEF TaskId
  <2>8. FateOf(i)' = "retried"
    BY <2>2, <2>6, <2>7 DEF FateOf
  <2>9. ASSUME NEW j \in TaskId \ {i, n} PROVE FateOf(j)' = FateOf(j)
    <3>1. SameOutcomes(j) /\ stage'[j] = stage[j]
      BY <2>2, <2>6
    <3>2. j > Len(tasks') <=> j > Len(tasks)
      BY <1>1, <2>3 DEF TaskId
    <3> QED
      BY <3>1, <3>2, FateKept
  <2>10. Fates' = [Fates EXCEPT ![i] = "retried", ![n] = "queued"]
    BY <2>3, <2>4, <2>8, <2>9 DEF Fates
  <2>11. Settlement!Retry(i, n)
    BY <2>3, <2>4, <2>10 DEF Settlement!Retry, Settlement!NextFree, Fates,
                             Settlement!TaskId, TaskId
  <2> QED
    BY <2>3, <2>11 DEF Settlement!Next, Settlement!TaskId, TaskId
<1>14. ASSUME NEW i \in TaskId, SubmitSubtask(i) PROVE Settlement!Next
  BY <1>3, <1>14 DEF SubmitSubtask
<1>15. CASE UNCHANGED queueVars
  <2>1. AddsNoOutcome /\ UNCHANGED <<tasks, stage>>
    BY <1>15 DEF queueVars, AddsNoOutcome
  <2> QED
    BY <1>2, <2>1 DEF Fates
<1> QED
  BY <1>3, <1>4, <1>5, <1>7, <1>8, <1>9, <1>11, <1>12, <1>13, <1>14, <1>15
     DEF QueueNext, AgentNext

(***************************************************************************)
(* The task queue settles tasks as TaskSettlement says: nobody claims a    *)
(* task twice or out of order, and no task ends twice.                     *)
(***************************************************************************)
THEOREM QueueSettlesTasks == QueueSpec => SettlesTasks
<1>1. QueueSpec => [](Typed /\ OneOutcome)
  BY TypedInit, TypedStep, OneOutcomeInit, OneOutcomeStep, QueueIsShared, PTL
     DEF QueueSpec
<1> QED
  BY <1>1, SettlementInit, SettlementStep, PTL
     DEF QueueSpec, SettlesTasks, Settlement!Spec, Fates
=============================================================================
