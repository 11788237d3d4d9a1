---------------------------- MODULE WebhookStream ----------------------------
(***************************************************************************)
(* An HTTP request that fired a trigger and waits for the flow             *)
(* (internal/controller/trigger_webhook_server.go): in sync mode it polls  *)
(* the flow and answers how it ended; in sse mode it also reports steps,   *)
(* and the tokens that the agents append to one Redis list.  A goroutine   *)
(* takes them from the list and hands them to the handler over a bounded   *)
(* channel.                                                                *)
(*                                                                         *)
(* The flow is run by its reconciler and by agents, whose part in this is  *)
(* to append tokens and end-of-stream markers (runtime/agent/main.go,      *)
(* queue.go).  The handler sees the flow through an informer's cache.      *)
(***************************************************************************)
EXTENDS Integers, Sequences, SequencesExt, FiniteSets

CONSTANTS
  NSteps,          \* len(spec.steps)
  DependsOn,       \* Step -> the steps it depends on
  Modes,           \* the modes a request may ask for
  Chunks,          \* bound: Step -> its tokens, over all attempts
  Retries,         \* how often a failed task is run again
  Capacity,        \* the capacity of the token channel (256)
  MaxDisruptions   \* bound: disruptions in a behaviour

Step == 1 .. NSteps

ASSUME StreamAssumption ==
  /\ NSteps \in Nat \ {0}
  /\ DependsOn \in [Step -> SUBSET Step]
  /\ Modes \subseteq {"sync", "sse"}
  /\ Chunks \in [Step -> Nat]
  /\ Retries \in Nat
  /\ Capacity \in Nat \ {0}
  /\ MaxDisruptions \in Nat

VARIABLES
  mode,         \* ?mode= of the request
  streaming,    \* whether the flow has a stream key (sse mode and Redis)
  dispatched,   \* how many flows the fire has created
  flow,         \* the flow on the API server
  seen,         \* the flow in the informer's cache
  task,         \* Step -> what the agents do for it
  list,         \* all that was ever appended to the Redis list
  popped,       \* how much of it BLPOP has taken
  reader,       \* the goroutine of startTokenStream; "closed": it has ended
  held,         \* the token it has taken and not sent yet
  channel,      \* the token channel
  open,         \* whether the handler still reads the channel (not nil)
  pc,           \* where the handler is
  told,         \* stepPhases: the phases of the steps it has seen last
  said,         \* Step -> phase -> the step events it has written
  sent,         \* the token events it has written
  answer,       \* its last event, in sync mode its answer; "none" before
  expired,      \* whether the request's context is done
  disruptions   \* disruptions so far

params == <<mode, streaming, dispatched>>
world == <<flow, seen, task>>
stream == <<popped, reader, held, channel>>
client == <<said, sent, answer>>
handler == <<open, pc, told, client>>
vars == <<params, world, list, stream, handler, expired, disruptions>>

\* queue.StreamDone, and a token of step s.
Marker == <<0, 0>>

Token == Step \X Nat

\* The phases of a step that are told to the client: step.started,
\* step.completed and step.failed.
Reported == {"Running", "Succeeded", "Failed"}

\* A phase that is not set yet, the empty string of the code, is "none" here.
Absent == [phase |-> "absent", steps |-> [s \in Step |-> "none"]]

Idle == [at |-> "none", attempt |-> 0, chunks |-> 0]

Init ==
  /\ mode \in Modes
  /\ streaming \in BOOLEAN /\ (streaming => mode = "sse")
  /\ dispatched \in 0 .. 2
  /\ flow = [Absent EXCEPT !.phase = "none"]
  /\ seen = Absent
  /\ task = [s \in Step |-> Idle]
  /\ list = <<>>
  /\ popped = 0
  /\ reader = "closed"
  /\ held = <<>>
  /\ channel = <<>>
  /\ open = FALSE
  /\ pc = "begin"
  /\ told = [s \in Step |-> "none"]
  /\ said = [s \in Step |-> [phase \in Reported |-> 0]]
  /\ sent = <<>>
  /\ answer = "none"
  /\ expired = FALSE
  /\ disruptions = 0

Disrupt ==
  /\ disruptions < MaxDisruptions
  /\ disruptions' = disruptions + 1

\* The handler writes its last event and returns.
End(word) ==
  /\ answer' = word
  /\ pc' = "done"
  /\ UNCHANGED <<params, world, list, stream, open, told, said, sent, expired>>

\* The handler takes a token from the channel and sends it to the client.
PassToken ==
  /\ channel # <<>>
  /\ sent' = Append(sent, Head(channel))
  /\ channel' = Tail(channel)

(***************************************************************************)
(* handleSync and handleSSE, up to their loops.                            *)
(***************************************************************************)
Refuse ==
  /\ pc = "begin"
  /\ dispatched # 1
  /\ End("bad request")
  /\ UNCHANGED disruptions

\* startTokenStream; without a stream key the channel is closed at once.
Accept ==
  /\ pc = "begin"
  /\ dispatched = 1
  /\ pc' = IF mode = "sync" THEN "select" ELSE "drain"
  /\ open' = (mode = "sse")
  /\ reader' = IF streaming THEN "pop" ELSE "closed"
  /\ UNCHANGED <<params, world, list, popped, held, channel, told, client,
                 expired, disruptions>>

(***************************************************************************)
(* The goroutine of startTokenStream.                                      *)
(***************************************************************************)
StreamDone(item) == item = Marker

Pop ==
  /\ reader = "pop"
  /\ popped < Len(list)
  /\ popped' = popped + 1
  /\ LET item == list[popped + 1]
     IN IF StreamDone(item)
        THEN reader' = "closed" /\ held' = <<>>
        ELSE reader' = "send" /\ held' = <<item>>
  /\ UNCHANGED <<params, world, list, channel, handler, expired, disruptions>>

\* Slip: what does not fit into the channel is dropped.
SendOrDrop ==
  channel' = IF Len(channel) < Capacity THEN channel \o held ELSE channel

\* Slip: a channel without a limit.
SendUnbounded == channel' = channel \o held

Enqueue ==
  /\ Len(channel) < Capacity
  /\ channel' = channel \o held

Send ==
  /\ reader = "send"
  /\ Enqueue
  /\ reader' = "pop"
  /\ held' = <<>>
  /\ UNCHANGED <<params, world, list, popped, handler, expired, disruptions>>

\* The context is done: BLPOP fails, and so may the send.
StopReader ==
  /\ expired
  /\ reader # "closed"
  /\ reader' = "closed"
  /\ held' = <<>>
  /\ UNCHANGED <<params, world, list, popped, channel, handler, expired,
                 disruptions>>

\* BLPOP fails, and may have taken a token: the stream ends.
PopFails ==
  /\ reader = "pop"
  /\ Disrupt
  /\ popped' \in {popped, IF popped < Len(list) THEN popped + 1 ELSE popped}
  /\ reader' = "closed"
  /\ UNCHANGED <<params, world, list, held, channel, handler, expired>>

(***************************************************************************)
(* The loop of handleSSE.                                                  *)
(***************************************************************************)
\* drainTokens goes on while there is a token, ...
DrainToken ==
  /\ pc = "drain"
  /\ open
  /\ PassToken
  /\ UNCHANGED <<params, world, list, popped, reader, held, open, pc, told,
                 said, answer, expired, disruptions>>

\* ... and sets the channel to nil when it is closed.
Drained ==
  /\ pc = "drain"
  /\ open => channel = <<>>
  /\ open' = (open /\ reader # "closed")
  /\ pc' = "select"
  /\ UNCHANGED <<params, world, list, stream, told, client, expired,
                 disruptions>>

\* The select takes a token, or notices that the channel is closed.
SelectToken ==
  /\ pc = "select"
  /\ open
  /\ \/ PassToken
     \/ /\ channel = <<>>
        /\ reader = "closed"
        /\ UNCHANGED <<sent, channel>>
  /\ pc' = "drain"
  /\ UNCHANGED <<params, world, list, popped, reader, held, open, told, said,
                 answer, expired, disruptions>>

\* The select sees that the context is done.
TimeOut ==
  /\ pc = "select"
  /\ expired
  /\ End("timeout")
  /\ UNCHANGED disruptions

\* Slip: whatever stops a wait is taken for the timeout.
TimedOutAnyway == "timeout"

\* handleSync looks at its context; handleSSE reports the error.
Failure == IF mode = "sync" /\ expired THEN "timeout" ELSE "error"

\* Get fails: the flow is not in the cache yet, or an API error.
GetFails ==
  /\ pc = "select"
  /\ \/ seen.phase = "absent" /\ UNCHANGED disruptions
     \/ seen.phase # "absent" /\ Disrupt
  /\ End(Failure)

\* emitStepEvents: an event for every step that has changed.
EmitStepEvents ==
  /\ told' = seen.steps
  /\ said' = [s \in Step |-> [phase \in Reported |->
       IF seen.steps[s] = phase /\ told[s] # phase
       THEN said[s][phase] + 1 ELSE said[s][phase]]]

\* Slip: the flow's end is reported without what is left of the stream.
EndWithoutDraining == "done"

\* A flow that succeeded waits for the channel to be closed.
AfterSuccess == IF open THEN "finish" ELSE "done"

\* Slip: a flow that failed waits for the stream to end, too.
DrainAfterFailure == AfterSuccess

\* A flow that failed does not: a step that failed may leave no marker.
AfterFailure == "done"

\* The last event of a flow that has ended.
Outcome ==
  IF seen.phase = "Succeeded" THEN "flow.completed" ELSE "flow.failed"

PollSSE ==
  /\ pc = "select"
  /\ mode = "sse"
  /\ seen.phase # "absent"
  /\ EmitStepEvents
  /\ pc' = IF seen.phase = "Succeeded" THEN AfterSuccess
           ELSE IF seen.phase = "Failed" THEN AfterFailure ELSE "drain"
  /\ answer' = IF pc' # "done" THEN "none" ELSE Outcome
  /\ UNCHANGED <<params, world, list, stream, open, sent, expired,
                 disruptions>>

\* emitFlowTerminal: the tokens until the channel is closed, and the end.
FinishToken ==
  /\ pc = "finish"
  /\ PassToken
  /\ UNCHANGED <<params, world, list, popped, reader, held, open, pc, told,
                 said, answer, expired, disruptions>>

Finish ==
  /\ pc = "finish"
  /\ channel = <<>>
  /\ reader = "closed"
  /\ End("flow.completed")
  /\ UNCHANGED disruptions

\* waitForFlow.
PollSync ==
  /\ pc = "select"
  /\ mode = "sync"
  /\ seen.phase \in {"Succeeded", "Failed"}
  /\ End(Outcome)
  /\ UNCHANGED disruptions
-----------------------------------------------------------------------------
(***************************************************************************)
(* The agents' part: PublishChunk while the task runs, DoneChunk before    *)
(* Ack or Nack.                                                            *)
(***************************************************************************)
PublishChunk(s) ==
  /\ streaming
  /\ task[s].at = "running"
  /\ task[s].chunks < Chunks[s]
  /\ task' = [task EXCEPT ![s].chunks = @ + 1]
  /\ list' = Append(list, <<s, task'[s].chunks>>)
  /\ UNCHANGED <<params, flow, seen, stream, handler, expired, disruptions>>

\* RunTask returned.  The marker is appended whatever it returned.
DoneChunk(s) ==
  /\ task[s].at = "running"
  /\ \E next \in {"answered", "failed"} :
       /\ task' = [task EXCEPT ![s].at = next]
       /\ list' = IF streaming THEN Append(list, Marker) ELSE list
  /\ UNCHANGED <<params, flow, seen, stream, handler, expired, disruptions>>

\* RPUSH fails, and the error is dropped.
DoneChunkLost(s) ==
  /\ streaming
  /\ task[s].at = "running"
  /\ Disrupt
  /\ task' = [task EXCEPT ![s].at = "answered"]
  /\ UNCHANGED <<params, flow, seen, list, stream, handler, expired>>

\* Nack: the task is run again with the same key, or is a dead letter.  The
\* step waits for the first attempt, and will not get an answer.
Nack(s) ==
  /\ \/ task[s].at = "failed"
     \/ task[s].at = "answered" /\ task[s].attempt > 0
  /\ task' = [task EXCEPT ![s] =
       IF task[s].at = "failed" /\ task[s].attempt < Retries
       THEN [at |-> "running", attempt |-> task[s].attempt + 1,
             chunks |-> task[s].chunks]
       ELSE [task[s] EXCEPT !.at = "lost"]]
  /\ UNCHANGED <<params, flow, seen, list, stream, handler, expired,
                 disruptions>>

\* The pod is stopped in the middle of a task.
StopPod(s) ==
  /\ task[s].at \in {"running", "failed"}
  /\ Disrupt
  /\ task' = [task EXCEPT ![s].at = "lost"]
  /\ UNCHANGED <<params, flow, seen, list, stream, handler, expired>>

(***************************************************************************)
(* The flow's reconciler, as the request sees it, and the informer.        *)
(***************************************************************************)
StepDone(phase) == phase \in {"Succeeded", "Skipped"}

StartFlow ==
  /\ flow.phase = "none"
  /\ flow' = [phase |-> "Running", steps |-> [s \in Step |-> "Pending"]]
  /\ UNCHANGED <<params, seen, task, list, stream, handler, expired,
                 disruptions>>

SetStep(s, phase) ==
  LET steps == [flow.steps EXCEPT ![s] = phase]
  IN flow' = [phase |-> IF phase = "Failed" THEN "Failed"
                        ELSE IF \A t \in Step : StepDone(steps[t])
                             THEN "Succeeded" ELSE "Running",
              steps |-> steps]

\* A step whose dependencies are done is submitted, skipped, or fails since
\* its inputs do not resolve.
ConsiderStep(s) ==
  /\ flow.phase = "Running"
  /\ flow.steps[s] = "Pending"
  /\ \A d \in DependsOn[s] : StepDone(flow.steps[d])
  /\ \/ /\ SetStep(s, "Running")
        /\ task' = [task EXCEPT ![s].at = "running"]
     \/ SetStep(s, "Skipped") /\ UNCHANGED task
     \/ SetStep(s, "Failed") /\ UNCHANGED task
  /\ UNCHANGED <<params, seen, list, stream, handler, expired, disruptions>>

\* The answer of the first attempt reaches the step.
CollectStep(s) ==
  /\ flow.phase = "Running"
  /\ task[s].at = "answered"
  /\ task[s].attempt = 0
  /\ SetStep(s, "Succeeded")
  /\ task' = [task EXCEPT ![s].at = "none"]
  /\ UNCHANGED <<params, seen, list, stream, handler, expired, disruptions>>

\* The flow times out or is over its budget.
FailFlow ==
  /\ flow.phase = "Running"
  /\ flow' = [flow EXCEPT !.phase = "Failed"]
  /\ UNCHANGED <<params, seen, task, list, stream, handler, expired,
                 disruptions>>

SyncCache ==
  /\ seen # flow
  /\ seen' = flow
  /\ UNCHANGED <<params, flow, task, list, stream, handler, expired,
                 disruptions>>

\* The timeout of parseSyncTimeout, or the client goes away.
Expire ==
  /\ ~expired
  /\ expired' = TRUE
  /\ UNCHANGED <<params, world, list, stream, handler, disruptions>>

Reader == Pop \/ Send \/ StopReader \/ PopFails

Handle ==
  \/ Refuse \/ Accept
  \/ DrainToken \/ Drained \/ SelectToken \/ TimeOut \/ GetFails
  \/ PollSSE \/ FinishToken \/ Finish \/ PollSync

Agent(s) ==
  PublishChunk(s) \/ DoneChunk(s) \/ DoneChunkLost(s) \/ Nack(s) \/ StopPod(s)

\* The life of a request.  What happens after its answer is left out.
Next ==
  /\ pc # "done"
  /\ \/ Reader \/ Handle \/ Expire
     \/ StartFlow \/ FailFlow \/ SyncCache
     \/ \E s \in Step : Agent(s) \/ ConsiderStep(s) \/ CollectStep(s)

(***************************************************************************)
(* The goroutine and the handler go on, the ticker ticks, and the informer *)
(* catches up.  The select is fair to each of its cases.                   *)
(***************************************************************************)
Fairness ==
  /\ WF_vars(Reader)
  /\ WF_vars(Handle)
  /\ SF_vars(TimeOut)
  /\ SF_vars(PollSSE \/ PollSync)
  /\ WF_vars(SyncCache)

Spec == Init /\ [][Next]_vars /\ Fairness
-----------------------------------------------------------------------------
(***************************************************************************)
(* Properties.                                                             *)
(***************************************************************************)
StepPhase ==
  {"none", "Pending", "Running", "Succeeded", "Skipped", "Failed"}

FlowState ==
  [phase : {"absent", "none", "Running", "Succeeded", "Failed"},
   steps : [Step -> StepPhase]]

TaskState ==
  [at : {"none", "running", "answered", "failed", "lost"},
   attempt : 0 .. Retries, chunks : Nat]

LastWord ==
  {"flow.completed", "flow.failed", "timeout", "error", "bad request"}

\* The types of the variables; the token channel is never longer than its
\* capacity (startTokenStream).
TypeOK ==
  /\ mode \in Modes
  /\ streaming \in BOOLEAN
  /\ dispatched \in Nat
  /\ flow \in FlowState
  /\ seen \in FlowState
  /\ task \in [Step -> TaskState]
  /\ list \in Seq(Token \union {Marker})
  /\ popped \in 0 .. Len(list)
  /\ reader \in {"pop", "send", "closed"}
  /\ held \in Seq(Token) /\ Len(held) = (IF reader = "send" THEN 1 ELSE 0)
  /\ channel \in Seq(Token) /\ Len(channel) <= Capacity
  /\ open \in BOOLEAN
  /\ pc \in {"begin", "drain", "select", "finish", "done"}
  /\ told \in [Step -> StepPhase]
  /\ said \in [Step -> [Reported -> Nat]]
  /\ sent \in Seq(Token)
  /\ answer \in LastWord \union {"none"}
  /\ expired \in BOOLEAN
  /\ disruptions \in 0 .. MaxDisruptions

\* The tokens that are the items up to the first end-of-stream marker.
IsStream(tokens, items) ==
  /\ tokens \in Seq(Token)
  /\ IsPrefix(tokens, items)
  /\ tokens # items => items[Len(tokens) + 1] = Marker

\* Tokens the client has got, and what is on its way to it.
Forwarded == sent \o channel \o held

Undisturbed == ~expired /\ disruptions = 0

\* The client gets the tokens in the order in which the agents appended
\* them, none twice and none left out, up to the first marker and nothing
\* after it; what it has not got yet is on its way from the list over the
\* goroutine and the channel.  (startTokenStream, drainTokens, handleSSE and
\* emitFlowTerminal read one channel in three places.)
StreamConserved ==
  /\ Forwarded \in Seq(Token)
  /\ IsPrefix(Forwarded, list)
  /\ Undisturbed => IsStream(Forwarded, SubSeq(list, 1, popped))

\* A client told that the flow has completed in time has got the whole
\* stream, and of every step one completion if it succeeded and none if it
\* was skipped.  (emitFlowTerminal drains the channel before the last event,
\* after emitStepEvents has compared the steps with what it said before.)
CompletionIsComplete ==
  (answer = "flow.completed" /\ mode = "sse") =>
    /\ \A s \in Step :
         said[s]["Succeeded"] =
           (IF flow.steps[s] = "Succeeded" THEN 1 ELSE 0)
    /\ streaming /\ Undisturbed => IsStream(sent, list)

\* The last word is true: it says how the flow ended, and that the request
\* ran out of time only if it did.  An error means that an API call failed,
\* or that the flow was not in the cache yet, and then nothing has been said
\* of it; in sync mode it is not the timeout under another name.  A request
\* is refused exactly if it has not created one flow.  Nothing follows the
\* last word.  (emitFlowTerminal, waitForFlow, handleSync, handleSSE.)
LastWordIsTrue ==
  /\ answer = "flow.completed" => flow.phase = "Succeeded"
  /\ answer = "flow.failed" => flow.phase = "Failed"
  /\ answer = "timeout" => expired
  /\ answer = "error" =>
       /\ mode = "sync" => ~expired
       /\ \/ disruptions > 0
          \/ /\ seen.phase = "absent"
             /\ \A s \in Step, phase \in Reported : said[s][phase] = 0
  /\ pc = "done" => (answer = "bad request" <=> dispatched # 1)
  /\ pc = "done" <=> answer # "none"

(***************************************************************************)
(* A client gets its last word once its time is up, in any case; once the  *)
(* flow has failed, whether the stream is over or not; and once it has     *)
(* succeeded, if a step has run.  (handleSSE's select and waitForFlow;     *)
(* emitFlowTerminal ranges over the channel, without a look at the         *)
(* context, until the goroutine has found a marker.  If every step was     *)
(* skipped there is none, and the client waits for the timeout; nor need   *)
(* there be one if writing it has failed.)                                 *)
(***************************************************************************)
AnswerComes ==
  ( \/ expired
    \/ flow.phase = "Failed"
    \/ /\ flow.phase = "Succeeded"
       /\ \/ ~streaming
          \/ Marker \in {list[k] : k \in DOMAIN list}
          \/ disruptions = 0 /\ \E s \in Step : flow.steps[s] # "Skipped" )
    ~> pc = "done"
=============================================================================
