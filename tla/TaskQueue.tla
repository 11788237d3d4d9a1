------------------------------ MODULE TaskQueue ------------------------------
(***************************************************************************)
(* The Redis task queue and the agent pods that work on it                 *)
(* (internal/agent/queue/queue.go, runtime/agent/main.go).                 *)
(*                                                                         *)
(* The stream "agent-tasks" is append-only; the identifier of a message is *)
(* its position.  One consumer group reads it with a cursor, so a message  *)
(* is handed to one pod, once.  A pod runs every task it reads in a        *)
(* goroutine of its own.  Ack and Nack are two Redis commands each, and a  *)
(* pod can stop between them.                                              *)
(*                                                                         *)
(* A prompt, and the text an agent answers, are abstract values.  Redis    *)
(* errors, lost replies and stopped pods are "disruptions", at most        *)
(* MaxDisruptions of them.                                                 *)
(***************************************************************************)
EXTENDS Integers, Sequences, FiniteSets

CONSTANTS
  Pod,             \* the agent pods
  Prompt,          \* what a client can ask
  Subtask,         \* the prompt of a task an agent submits itself
  Result,          \* the texts an agent can answer
  MaxUsage,        \* the largest token count an answer reports
  MaxRetries,      \* AGENT_MAX_RETRIES
  TasksMayFail,    \* whether RunTask may return an error
  InitialPods,     \* the pods that run before the first task is submitted
  MaxTasks,        \* bound: messages ever added to the stream
  MaxSubmissions,  \* bound: Prompt -> fresh tasks of clients and agents
  MaxDisruptions   \* bound: disruptions in a behaviour

ASSUME QueueAssumption ==
  /\ Subtask \in Prompt
  /\ MaxUsage \in Nat
  /\ MaxRetries \in Nat
  /\ TasksMayFail \in BOOLEAN
  /\ InitialPods \subseteq Pod
  /\ MaxTasks \in Nat
  /\ MaxSubmissions \in [Prompt -> Nat]
  /\ MaxDisruptions \in Nat

NoPod == "no pod"

ASSUME NoPodAssumption == NoPod \notin Pod

TaskId == 1 .. MaxTasks

\* retryOf is 0 for a fresh task.  The code does not store it: it is a
\* history field that says which message a retry repeats.
Message == [prompt : Prompt, attempt : Nat, retryOf : 0 .. MaxTasks]

Answer == [task : TaskId, result : Result, tokens : 0 .. MaxUsage]

\* Where a task is: not read by any pod; running RunTask; acknowledged and
\* about to store its result (Ack) or to be requeued (Nack); or its
\* goroutine has ended, by finishing or with its pod.
Stage == {"unread", "running", "acked", "nacked", "gone"}

VARIABLES
  tasks,        \* stream agent-tasks
  group,        \* whether the consumer group exists
  cursor,       \* the group's last delivered identifier
  pel,          \* the group's pending entries: delivered, not acknowledged
  stage,        \* TaskId -> Stage
  owner,        \* TaskId -> the pod that read the task
  results,      \* stream agent-tasks-results
  dead,         \* stream agent-tasks-dead: the identifiers in it
  up,           \* the pods that run
  disruptions   \* disruptions so far

redisVars == <<tasks, group, cursor, pel, results, dead>>
podVars   == <<stage, owner, up>>
queueVars == <<tasks, group, cursor, pel, stage, owner, results, dead, up,
               disruptions>>

QueueInit ==
  /\ tasks = <<>>
  /\ group = (InitialPods # {})
  /\ cursor = 0
  /\ pel = {}
  /\ stage = [i \in TaskId |-> "unread"]
  /\ owner = [i \in TaskId |-> NoPod]
  /\ results = <<>>
  /\ dead = <<>>
  /\ up = InitialPods
  /\ disruptions = 0

Disrupt ==
  /\ disruptions < MaxDisruptions
  /\ disruptions' = disruptions + 1

(***************************************************************************)
(* XADD agent-tasks.                                                       *)
(***************************************************************************)
XAddTask(prompt, attempt, retryOf) ==
  /\ Len(tasks) < MaxTasks
  /\ tasks' = Append(tasks, [prompt |-> prompt, attempt |-> attempt,
                             retryOf |-> retryOf])

\* A client of the queue submits a task.
Submit(prompt) ==
  /\ XAddTask(prompt, 0, 0)
  /\ UNCHANGED <<group, cursor, pel, results, dead, podVars, disruptions>>

Room(prompt) ==
  Cardinality({j \in DOMAIN tasks :
                 tasks[j].prompt = prompt /\ tasks[j].attempt = 0})
    < MaxSubmissions[prompt]

\* A running task calls the built-in tool submit_subtask.
SubmitSubtask(i) ==
  /\ stage[i] = "running"
  /\ Room(Subtask)
  /\ Submit(Subtask)

\* Slip: the cursor of an existing group is set back to the start.
StartPodRereads(w) ==
  /\ w \notin up
  /\ up' = up \union {w}
  /\ group' = TRUE
  /\ cursor' = 0
  /\ UNCHANGED <<tasks, pel, stage, owner, results, dead, disruptions>>

\* Slip: the cursor of an existing group is set to the end.
StartPodSkips(w) ==
  /\ w \notin up
  /\ up' = up \union {w}
  /\ group' = TRUE
  /\ cursor' = Len(tasks)
  /\ UNCHANGED <<tasks, pel, stage, owner, results, dead, disruptions>>

(***************************************************************************)
(* A pod starts.  queue.New creates the group at "$", so that tasks added  *)
(* before are never delivered; an existing group is left as it is, and an  *)
(* error is ignored.                                                       *)
(***************************************************************************)
StartPod(w) ==
  /\ w \notin up
  /\ up' = up \union {w}
  /\ \/ /\ group' = TRUE
        /\ cursor' = IF group THEN cursor ELSE Len(tasks)
        /\ UNCHANGED disruptions
     \/ /\ UNCHANGED <<group, cursor>>
        /\ Disrupt
  /\ UNCHANGED <<tasks, pel, stage, owner, results, dead>>

\* Slip: the cursor moves by two messages when one is handed out.
DeliverSkips(w) ==
  /\ w \in up
  /\ group
  /\ cursor < Len(tasks)
  /\ cursor' = cursor + 2
  /\ pel' = pel \union {cursor + 1}
  /\ owner' = [owner EXCEPT ![cursor + 1] = w]
  /\ UNCHANGED <<tasks, group, results, dead, up>>

\* XREADGROUP hands the next message to pod w.
Deliver(w) ==
  /\ w \in up
  /\ group
  /\ cursor < Len(tasks)
  /\ cursor' = cursor + 1
  /\ pel' = pel \union {cursor + 1}
  /\ owner' = [owner EXCEPT ![cursor + 1] = w]
  /\ UNCHANGED <<tasks, group, results, dead, up>>

\* Poll, and the goroutine started for the task it returns.
Poll(w) ==
  /\ Deliver(w)
  /\ stage' = [stage EXCEPT ![cursor + 1] = "running"]
  /\ UNCHANGED disruptions

\* Poll fails after Redis has recorded the delivery: no goroutine starts.
PollLosesReply(w) ==
  /\ Deliver(w)
  /\ stage' = [stage EXCEPT ![cursor + 1] = "gone"]
  /\ Disrupt

\* Slip: only Ack acknowledges.
FinishWithoutNackXAck(i, ok) ==
  /\ stage[i] = "running"
  /\ ok \/ TasksMayFail
  /\ stage' = [stage EXCEPT ![i] = IF ok THEN "acked" ELSE "nacked"]
  /\ pel' = IF ok THEN pel \ {i} ELSE pel
  /\ UNCHANGED <<tasks, group, cursor, owner, results, dead, up, disruptions>>

\* RunTask returns, and the XACK with which both Ack (ok) and Nack begin.
FinishTask(i, ok) ==
  /\ stage[i] = "running"
  /\ ok \/ TasksMayFail
  /\ stage' = [stage EXCEPT ![i] = IF ok THEN "acked" ELSE "nacked"]
  /\ \/ /\ pel' = pel \ {i}
        /\ UNCHANGED disruptions
     \/ /\ UNCHANGED pel      \* the error of the XACK is ignored
        /\ Disrupt
  /\ UNCHANGED <<tasks, group, cursor, owner, results, dead, up>>

\* The goroutine of task i ends.
End(i) == stage' = [stage EXCEPT ![i] = "gone"]

\* The second command of Ack: XADD agent-tasks-results.
StoreResult(i, out, tokens) ==
  /\ stage[i] = "acked"
  /\ results' = Append(results, [task |-> i, result |-> out,
                                 tokens |-> tokens])
  /\ End(i)
  /\ UNCHANGED <<tasks, group, cursor, pel, owner, dead, up, disruptions>>

\* Slip: Nack does not return after requeueing.
RequeueContinues(i) ==
  /\ stage[i] = "nacked"
  /\ tasks[i].attempt < MaxRetries
  /\ XAddTask(tasks[i].prompt, tasks[i].attempt + 1, i)
  /\ UNCHANGED <<group, cursor, pel, stage, owner, results, dead, up,
                 disruptions>>

\* Slip: the attempt counter is carried over as it is.
RequeueUncounted(i) ==
  /\ stage[i] = "nacked"
  /\ tasks[i].attempt < MaxRetries
  /\ XAddTask(tasks[i].prompt, tasks[i].attempt, i)
  /\ End(i)
  /\ UNCHANGED <<group, cursor, pel, owner, results, dead, up, disruptions>>

\* The second command of Nack while attempts are left: the task is added to
\* the stream again, as a new message.
Requeue(i) ==
  /\ stage[i] = "nacked"
  /\ tasks[i].attempt < MaxRetries
  /\ XAddTask(tasks[i].prompt, tasks[i].attempt + 1, i)
  /\ End(i)
  /\ UNCHANGED <<group, cursor, pel, owner, results, dead, up, disruptions>>

\* Slip: the last attempt ends without the XADD to agent-tasks-dead.
DeadLetterUnwritten(i) ==
  /\ stage[i] = "nacked"
  /\ tasks[i].attempt >= MaxRetries
  /\ End(i)
  /\ UNCHANGED <<tasks, group, cursor, pel, owner, results, dead, up,
                 disruptions>>

\* The second command of Nack after the last attempt: XADD agent-tasks-dead.
DeadLetter(i) ==
  /\ stage[i] = "nacked"
  /\ tasks[i].attempt >= MaxRetries
  /\ dead' = Append(dead, i)
  /\ End(i)
  /\ UNCHANGED <<tasks, group, cursor, pel, owner, results, up, disruptions>>

\* The second command of Ack or Nack fails; its error is ignored.
LoseWrite(i) ==
  /\ stage[i] \in {"acked", "nacked"}
  /\ End(i)
  /\ Disrupt
  /\ UNCHANGED <<redisVars, owner, up>>

\* Pod w stops or is killed: every goroutine it runs ends where it stands.
StopPod(w) ==
  /\ w \in up
  /\ up' = up \ {w}
  /\ stage' = [i \in TaskId |->
                 IF owner[i] = w THEN "gone" ELSE stage[i]]
  /\ Disrupt
  /\ UNCHANGED <<redisVars, owner>>

(***************************************************************************)
(* The agents: everything but the clients' Submit.                         *)
(***************************************************************************)
AgentNext ==
  \/ \E w \in Pod :
       StartPod(w) \/ Poll(w) \/ PollLosesReply(w) \/ StopPod(w)
  \/ \E i \in TaskId :
       \/ SubmitSubtask(i)
       \/ \E ok \in BOOLEAN : FinishTask(i, ok)
       \/ \E out \in Result, tokens \in 0 .. MaxUsage :
            StoreResult(i, out, tokens)
       \/ Requeue(i)
       \/ DeadLetter(i)
       \/ LoseWrite(i)

QueueNext ==
  \/ \E prompt \in Prompt : Room(prompt) /\ Submit(prompt)
  \/ AgentNext

(***************************************************************************)
(* A Deployment restarts its pods, a pod polls forever, RunTask is bounded *)
(* by the task timeout, and Redis answers.                                 *)
(***************************************************************************)
AgentFairness ==
  /\ \A w \in Pod : WF_queueVars(StartPod(w)) /\ WF_queueVars(Poll(w))
  /\ \A i \in TaskId :
       /\ WF_queueVars(\E ok \in BOOLEAN : FinishTask(i, ok))
       /\ WF_queueVars(\E out \in Result, tokens \in 0 .. MaxUsage :
                         StoreResult(i, out, tokens))
       /\ WF_queueVars(Requeue(i))
       /\ WF_queueVars(DeadLetter(i))

QueueSpec == QueueInit /\ [][QueueNext]_queueVars /\ AgentFairness

-----------------------------------------------------------------------------
QueueTypeOK ==
  /\ tasks \in Seq(Message)
  /\ Len(tasks) <= MaxTasks
  /\ group \in BOOLEAN
  /\ cursor \in 0 .. Len(tasks)
  /\ pel \subseteq 1 .. cursor
  /\ stage \in [TaskId -> Stage]
  /\ owner \in [TaskId -> Pod \union {NoPod}]
  /\ results \in Seq(Answer)
  /\ dead \in Seq(TaskId)
  /\ up \subseteq Pod
  /\ disruptions \in 0 .. MaxDisruptions

Answers(i)     == {r \in DOMAIN results : results[r].task = i}
Retries(i)     == {j \in DOMAIN tasks : tasks[j].retryOf = i}
DeadLetters(i) == {d \in DOMAIN dead : dead[d] = i}

Outcomes(i) ==
  {<<"answer", r>> : r \in Answers(i)}
    \union {<<"retry", j>> : j \in Retries(i)}
    \union {<<"dead letter", d>> : d \in DeadLetters(i)}

(***************************************************************************)
(* A task that was read is answered, retried or dead-lettered, never two   *)
(* of these and none of them twice, whatever Redis errors and pod stops    *)
(* come between the two commands of Ack and of Nack; a task nobody has     *)
(* finished has no outcome.                                                *)
(***************************************************************************)
OneOutcome ==
  \A i \in TaskId :
    /\ \A a, b \in Outcomes(i) : a = b
    /\ stage[i] # "gone" => Outcomes(i) = {}

(***************************************************************************)
(* Without disruptions nothing is lost: a task whose goroutine has ended   *)
(* has an outcome, and the pending entries are the running tasks.          *)
(***************************************************************************)
NothingLost ==
  disruptions = 0 =>
    /\ \A i \in TaskId : stage[i] = "gone" => Outcomes(i) # {}
    /\ pel = {i \in TaskId : stage[i] = "running"}

(***************************************************************************)
(* Nack counts attempts: a retry repeats the prompt of an earlier task     *)
(* with one more attempt, no task is attempted more than MaxRetries times  *)
(* again, and only a task at its last attempt is dead-lettered.            *)
(***************************************************************************)
RetriesCounted ==
  /\ \A j \in DOMAIN tasks :
       LET t == tasks[j] IN
       /\ t.attempt <= MaxRetries
       /\ t.retryOf < j
       /\ IF t.retryOf = 0 THEN t.attempt = 0
          ELSE /\ t.attempt = tasks[t.retryOf].attempt + 1
               /\ t.prompt = tasks[t.retryOf].prompt
  /\ \A d \in DOMAIN dead : tasks[dead[d]].attempt = MaxRetries

(***************************************************************************)
(* Once the group exists every task in the stream after its cursor is read *)
(* by some pod.                                                            *)
(***************************************************************************)
EveryTaskRead ==
  \A i \in TaskId :
    (group /\ cursor < i /\ i <= Len(tasks)) ~> stage[i] # "unread"

\* The fresh task that message i repeats, over all its retries.
Origin[i \in DOMAIN tasks] ==
  IF tasks[i].retryOf = 0 THEN i ELSE Origin[tasks[i].retryOf]

(***************************************************************************)
(* A fresh task that is still to be delivered is settled in the end: one   *)
(* of its attempts is answered, or its last one is dead-lettered, unless a *)
(* disruption happens.  The chain of retries must neither break off nor go *)
(* on for ever.  (A task added before the group exists is never delivered, *)
(* and a disruption can lose a task for good: see NothingLost.)            *)
(***************************************************************************)
EveryTaskSettled ==
  \A i \in TaskId :
    (group /\ cursor < i /\ i <= Len(tasks) /\ tasks[i].retryOf = 0)
      ~> \/ disruptions > 0
         \/ \E j \in DOMAIN tasks :
              Origin[j] = i /\ Answers(j) \union DeadLetters(j) # {}

(***************************************************************************)
(* The queue implements TaskSettlement: at-most-once delivery in the order *)
(* of the stream, with one end per task.                                   *)
(***************************************************************************)
FateOf(i) ==
  CASE i > Len(tasks) -> "absent"
    [] i <= Len(tasks) /\ stage[i] = "unread" -> "queued"
    [] stage[i] \in {"running", "acked", "nacked"} -> "claimed"
    [] OTHER -> IF Answers(i) # {} THEN "answered"
                ELSE IF Retries(i) # {} THEN "retried"
                ELSE IF DeadLetters(i) # {} THEN "dead" ELSE "lost"

Settlement == INSTANCE TaskSettlement
                WITH fate <- [i \in TaskId |-> FateOf(i)]

\* TaskSettlement holds of the queue under the mapping FateOf.
SettlesTasks == Settlement!Spec
=============================================================================
