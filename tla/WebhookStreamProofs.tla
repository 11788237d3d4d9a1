------------------------- MODULE WebhookStreamProofs -------------------------
(***************************************************************************)
(* Theorems about a request that waits for its flow, for any number of     *)
(* steps, tokens, retries and disruptions and any capacity of the channel. *)
(***************************************************************************)
EXTENDS WebhookStream, SequenceTheorems, TLAPS

\* What is forwarded are the first items of the list, tokens all of them, and
\* the goroutine has taken at least these.
Placed ==
  /\ Forwarded \in Seq(Token)
  /\ Len(Forwarded) <= popped
  /\ \A k \in 1 .. Len(Forwarded) : Forwarded[k] = list[k]

\* The goroutine has taken the marker behind what is forwarded.
AtMarker == popped = Len(Forwarded) + 1 /\ list[popped] = Marker

\* How far the goroutine has come.
ReaderExact ==
  /\ reader # "closed" => popped = Len(Forwarded)
  /\ Undisturbed => popped = Len(Forwarded) \/ AtMarker
  /\ (/\ Undisturbed /\ streaming /\ reader = "closed"
      /\ pc # "begin" /\ answer # "bad request") => AtMarker
  /\ pc = "begin" => popped = 0 /\ reader = "closed"
  /\ ~streaming => list = <<>> /\ reader = "closed"

\* When the handler has seen the end of the channel.
ChannelExact ==
  /\ streaming => mode = "sse"
  /\ (mode = "sse" /\ pc \in {"drain", "select"} /\ ~open) =>
       reader = "closed" /\ channel = <<>>
  /\ (mode = "sse" /\ answer = "flow.completed") =>
       reader = "closed" /\ channel = <<>>

\* A step that is run is Running, nothing is undone, and a flow that has
\* ended stays as it is.
FlowExact ==
  /\ flow.phase = "none" => \A s \in Step : flow.steps[s] = "none"
  /\ \A s \in Step : task[s].at # "none" => flow.steps[s] = "Running"
  /\ \A s \in Step :
       seen.steps[s] = "Succeeded" => flow.steps[s] = "Succeeded"
  /\ seen.phase \in {"Succeeded", "Failed"} => seen = flow

\* What the client has been told.
ToldExact ==
  /\ \A s \in Step : told[s] = "Succeeded" => seen.steps[s] = "Succeeded"
  /\ \A s \in Step :
       said[s]["Succeeded"] = (IF told[s] = "Succeeded" THEN 1 ELSE 0)

\* What the handler knows when it ends.
EndExact ==
  /\ pc = "finish" =>
       mode = "sse" /\ seen.phase = "Succeeded" /\ told = seen.steps
  /\ answer = "flow.completed" =>
       seen.phase = "Succeeded" /\ (mode = "sse" => told = seen.steps)
  /\ answer = "flow.failed" => seen.phase = "Failed"
  /\ answer = "timeout" => expired
  /\ pc = "done" <=> answer # "none"

\* Before the flow is in the cache, nothing has been said of it.
UnseenExact ==
  /\ flow.phase # "absent"
  /\ seen.phase = "absent" =>
       \A s \in Step, phase \in Reported : said[s][phase] = 0

\* Why a request has got an error, or has been refused.
ErrorExact ==
  /\ answer = "error" =>
       /\ disruptions > 0 \/ seen.phase = "absent"
       /\ mode = "sync" => ~expired
  /\ answer = "bad request" => dispatched # 1
  /\ (pc # "begin" /\ answer # "bad request") => dispatched = 1

\* The strengthening of the request's invariants that is inductive.
StreamInv ==
  /\ TypeOK
  /\ Placed
  /\ ReaderExact
  /\ ChannelExact
  /\ FlowExact
  /\ ToldExact
  /\ EndExact
  /\ UnseenExact
  /\ ErrorExact
-----------------------------------------------------------------------------
(***************************************************************************)
(* Types.                                                                  *)
(***************************************************************************)
\* The markers of the list are not tokens.
LEMMA MarkerIsNoToken == Marker \notin Token
BY StreamAssumption DEF Marker, Token, Step

(***************************************************************************)
(* The flow and the agents, as a request finds them, are well typed.       *)
(***************************************************************************)
LEMMA InitTypes == Init => TypeOK
<1> SUFFICES ASSUME Init PROVE TypeOK
  OBVIOUS
<1>1. flow \in FlowState /\ seen \in FlowState
  BY DEF Init, FlowState, Absent, StepPhase
<1>2. task \in [Step -> TaskState]
  BY StreamAssumption DEF Init, TaskState, Idle
<1>3. said \in [Step -> [Reported -> Nat]]
  BY DEF Init
<1>4. streaming \in BOOLEAN /\ dispatched \in Nat
  BY DEF Init
<1>5. told \in [Step -> StepPhase]
  BY DEF Init, StepPhase
<1>6. /\ list \in Seq(Token \union {Marker}) /\ popped \in 0 .. Len(list)
      /\ held \in Seq(Token) /\ Len(held) = 0
      /\ channel \in Seq(Token) /\ Len(channel) <= Capacity
      /\ sent \in Seq(Token)
  BY StreamAssumption DEF Init
<1>7. disruptions \in 0 .. MaxDisruptions
  BY StreamAssumption DEF Init
<1>8. /\ mode \in Modes /\ reader = "closed" /\ open = FALSE /\ pc = "begin"
      /\ answer = "none" /\ expired = FALSE
  BY DEF Init
<1> QED
  BY <1>1, <1>2, <1>3, <1>4, <1>5, <1>6, <1>7, <1>8 DEF TypeOK

\* The part of the types that the request itself can disturb, and the part of
\* the world around it.
StreamTypes ==
  /\ popped \in 0 .. Len(list)
  /\ reader \in {"pop", "send", "closed"}
  /\ held \in Seq(Token) /\ Len(held) = (IF reader = "send" THEN 1 ELSE 0)
  /\ channel \in Seq(Token) /\ Len(channel) <= Capacity
  /\ list \in Seq(Token \union {Marker})

HandlerTypes ==
  /\ open \in BOOLEAN
  /\ pc \in {"begin", "drain", "select", "finish", "done"}
  /\ told \in [Step -> StepPhase]
  /\ said \in [Step -> [Reported -> Nat]]
  /\ sent \in Seq(Token)
  /\ answer \in LastWord \union {"none"}

WorldTypes ==
  /\ flow \in FlowState
  /\ seen \in FlowState
  /\ task \in [Step -> TaskState]

ParamTypes ==
  /\ mode \in Modes
  /\ streaming \in BOOLEAN
  /\ dispatched \in Nat
  /\ expired \in BOOLEAN
  /\ disruptions \in 0 .. MaxDisruptions

LEMMA TypesByPart ==
  TypeOK <=> StreamTypes /\ HandlerTypes /\ WorldTypes /\ ParamTypes
BY DEF TypeOK, StreamTypes, HandlerTypes, WorldTypes, ParamTypes

(***************************************************************************)
(* What the goroutine, the handler and the agents do to the tokens is to   *)
(* tokens.                                                                 *)
(***************************************************************************)
LEMMA PassTokenTypes ==
  ASSUME channel \in Seq(Token), Len(channel) <= Capacity,
         sent \in Seq(Token), PassToken
  PROVE  /\ channel' \in Seq(Token) /\ Len(channel') <= Capacity
         /\ sent' \in Seq(Token)
<1>1. Head(channel) \in Token /\ channel' \in Seq(Token)
        /\ Len(channel') = Len(channel) - 1
  BY HeadTailProperties DEF PassToken
<1>2. Len(channel') <= Capacity
  BY <1>1, StreamAssumption
<1> QED
  BY <1>1, <1>2, AppendProperties DEF PassToken

LEMMA StreamTypesStep ==
  TypeOK /\ ReaderExact /\ [Next]_vars => StreamTypes'
<1> SUFFICES ASSUME TypeOK, ReaderExact, [Next]_vars PROVE StreamTypes'
  OBVIOUS
<1> USE DEF StreamTypes
<1>1. CASE Pop
  <2>1. popped + 1 \in 1 .. Len(list) /\ popped' = popped + 1
    BY <1>1 DEF Pop, TypeOK
  <2>2. list[popped + 1] \in Token \union {Marker}
    BY <2>1, ElementOfSeq DEF TypeOK
  <2>3. CASE list[popped + 1] = Marker
    <3>1. reader' = "closed" /\ held' = <<>>
      BY <1>1, <2>3 DEF Pop, StreamDone
    <3> QED
      BY <1>1, <2>1, <3>1 DEF Pop, TypeOK
  <2>4. CASE list[popped + 1] # Marker
    <3>1. reader' = "send" /\ held' = <<list[popped + 1]>>
      BY <1>1, <2>4 DEF Pop, StreamDone
    <3>2. held' \in Seq(Token) /\ Len(held') = 1
      BY <2>2, <2>4, <3>1
    <3> QED
      BY <1>1, <2>1, <3>1, <3>2 DEF Pop, TypeOK
  <2> QED
    BY <2>3, <2>4
<1>2. CASE Send
  <2>1. channel \in Seq(Token) /\ held \in Seq(Token) /\ Len(held) = 1
    BY <1>2 DEF Send, TypeOK
  <2>2. channel' \in Seq(Token) /\ Len(channel') = Len(channel) + 1
    <3>1. /\ channel \o held \in Seq(Token)
          /\ Len(channel \o held) = Len(channel) + Len(held)
      BY <2>1, ConcatProperties
    <3> QED
      BY <1>2, <2>1, <3>1 DEF Send, Enqueue
  <2>3. Len(channel') <= Capacity
    BY <1>2, <2>2, StreamAssumption DEF Send, Enqueue, TypeOK
  <2> QED
    BY <1>2, <2>2, <2>3 DEF Send, TypeOK
<1>3. CASE StopReader
  BY <1>3 DEF StopReader, TypeOK
<1>4. CASE PopFails
  BY <1>4 DEF PopFails, TypeOK
<1>5. CASE Accept
  <2>1. Len(held) = 0 /\ reader' # "send"
    BY <1>5 DEF Accept, TypeOK, ReaderExact
  <2>2. reader' \in {"pop", "closed"}
    BY <1>5 DEF Accept
  <2> QED
    BY <1>5, <2>1, <2>2 DEF Accept, TypeOK
<1>6. CASE DrainToken \/ SelectToken \/ FinishToken
  BY <1>6, PassTokenTypes DEF DrainToken, SelectToken, FinishToken, TypeOK
<1>7. ASSUME NEW s \in Step, PublishChunk(s) PROVE StreamTypes'
  <2>1. <<s, task'[s].chunks>> \in Token
    <3>1. task[s] \in TaskState
      BY DEF TypeOK
    <3>2. task'[s].chunks = task[s].chunks + 1
      BY <1>7, <3>1 DEF PublishChunk, TypeOK, TaskState
    <3> QED
      BY <3>1, <3>2 DEF TaskState, Token
  <2>2. list' \in Seq(Token \union {Marker}) /\ Len(list') = Len(list) + 1
    BY <1>7, <2>1, AppendProperties DEF PublishChunk, TypeOK
  <2> QED
    BY <1>7, <2>2 DEF PublishChunk, TypeOK, stream
<1>8. ASSUME NEW s \in Step, DoneChunk(s) PROVE StreamTypes'
  <2>1. list' = Append(list, Marker) \/ list' = list
    BY <1>8 DEF DoneChunk
  <2>2. list \in Seq(Token \union {Marker})
    BY DEF TypeOK
  <2>3. /\ list' \in Seq(Token \union {Marker})
        /\ Len(list') = Len(list) + 1 \/ Len(list') = Len(list)
    BY <2>1, <2>2, AppendProperties
  <2> QED
    BY <1>8, <2>3 DEF DoneChunk, TypeOK, stream
<1>9. CASE UNCHANGED <<stream, list>>
  BY <1>9 DEF stream, TypeOK
<1>10. \/ Pop \/ Send \/ StopReader \/ PopFails \/ Accept
       \/ DrainToken \/ SelectToken \/ FinishToken
       \/ \E s \in Step : PublishChunk(s) \/ DoneChunk(s)
       \/ UNCHANGED <<stream, list>>
  BY DEF Next, Reader, Handle, Refuse, Drained, TimeOut, GetFails, PollSSE,
         Finish, PollSync, End, Expire, StartFlow, FailFlow, SyncCache,
         Agent, DoneChunkLost, Nack, StopPod, ConsiderStep, CollectStep, vars
<1> QED
  BY <1>1, <1>2, <1>3, <1>4, <1>5, <1>6, <1>7, <1>8, <1>9, <1>10

LEMMA HandlerTypesStep == TypeOK /\ [Next]_vars => HandlerTypes'
<1> SUFFICES ASSUME TypeOK, [Next]_vars PROVE HandlerTypes'
  OBVIOUS
<1> USE DEF HandlerTypes
<1>1. CASE UNCHANGED handler
  BY <1>1 DEF handler, client, TypeOK
<1>2. CASE Accept
  <2>1. open' \in BOOLEAN /\ pc' \in {"drain", "select"}
    BY <1>2 DEF Accept
  <2> QED
    BY <1>2, <2>1 DEF Accept, client, TypeOK
<1>3. CASE DrainToken \/ SelectToken \/ FinishToken
  <2>1. sent' \in Seq(Token)
    BY <1>3, PassTokenTypes DEF DrainToken, SelectToken, FinishToken, TypeOK
  <2> QED
    BY <1>3, <2>1 DEF DrainToken, SelectToken, FinishToken, TypeOK
<1>4. CASE Drained
  <2>1. open' \in BOOLEAN
    BY <1>4 DEF Drained
  <2> QED
    BY <1>4, <2>1 DEF Drained, client, TypeOK
<1>5. ASSUME NEW word \in LastWord, End(word) PROVE HandlerTypes'
  BY <1>5 DEF End, TypeOK
<1>6. CASE Refuse \/ TimeOut \/ GetFails \/ Finish \/ PollSync
  BY <1>5, <1>6
     DEF Refuse, TimeOut, GetFails, Finish, PollSync, Failure, Outcome,
         LastWord
<1>7. CASE PollSSE
  <2>1. told' \in [Step -> StepPhase]
    BY <1>7 DEF PollSSE, EmitStepEvents, TypeOK, FlowState
  <2>2. said' \in [Step -> [Reported -> Nat]]
    BY <1>7 DEF PollSSE, EmitStepEvents, TypeOK
  <2>3. pc' \in {"drain", "finish", "done"}
    BY <1>7 DEF PollSSE, AfterSuccess, AfterFailure
  <2>4. answer' \in LastWord \union {"none"}
    BY <1>7 DEF PollSSE, Outcome, LastWord
  <2> QED
    BY <1>7, <2>1, <2>2, <2>3, <2>4 DEF PollSSE, TypeOK
<1>8. \/ UNCHANGED handler
      \/ Accept \/ DrainToken \/ SelectToken \/ FinishToken \/ Drained
      \/ Refuse \/ TimeOut \/ GetFails \/ Finish \/ PollSync \/ PollSSE
  BY DEF Next, Reader, Pop, Send, StopReader, PopFails, Handle, Expire,
         StartFlow, FailFlow, SyncCache, Agent, PublishChunk, DoneChunk,
         DoneChunkLost, Nack, StopPod, ConsiderStep, CollectStep, vars
<1> QED
  BY <1>1, <1>2, <1>3, <1>4, <1>6, <1>7, <1>8

LEMMA WorldTypesStep == TypeOK /\ [Next]_vars => WorldTypes'
<1> SUFFICES ASSUME TypeOK, [Next]_vars PROVE WorldTypes'
  OBVIOUS
<1> USE DEF WorldTypes
<1>0. ASSUME NEW s \in Step,
             NEW next \in {"none", "running", "answered", "failed", "lost"},
             task' = [task EXCEPT ![s].at = next]
      PROVE  task' \in [Step -> TaskState]
  <2>1. task \in [Step -> TaskState] /\ task[s] \in TaskState
    BY DEF TypeOK
  <2>2. [task[s] EXCEPT !.at = next] \in TaskState
    BY <2>1 DEF TaskState
  <2>3. task' = [task EXCEPT ![s] = [task[s] EXCEPT !.at = next]]
    BY <1>0
  <2> QED
    BY <2>1, <2>2, <2>3
<1>1. CASE UNCHANGED world
  BY <1>1 DEF world, TypeOK
<1>2. CASE StartFlow
  <2>1. flow' \in FlowState
    BY <1>2 DEF StartFlow, FlowState, StepPhase
  <2> QED
    BY <1>2, <2>1 DEF StartFlow, TypeOK
<1>3. CASE FailFlow
  <2>1. flow' \in FlowState
    BY <1>3 DEF FailFlow, FlowState, TypeOK
  <2> QED
    BY <1>3, <2>1 DEF FailFlow, TypeOK
<1>4. CASE SyncCache
  BY <1>4 DEF SyncCache, TypeOK
<1>5. ASSUME NEW s \in Step, PublishChunk(s) PROVE WorldTypes'
  <2>1. task' \in [Step -> TaskState]
    <3>1. task[s] \in TaskState
      BY DEF TypeOK
    <3>2. [task[s] EXCEPT !.chunks = @ + 1] \in TaskState
      BY <3>1 DEF TaskState
    <3>3. task' = [task EXCEPT ![s] = [task[s] EXCEPT !.chunks = @ + 1]]
      BY <1>5 DEF PublishChunk
    <3> QED
      BY <3>2, <3>3 DEF TypeOK
  <2> QED
    BY <1>5, <2>1 DEF PublishChunk, TypeOK
<1>6. ASSUME NEW s \in Step, DoneChunk(s) \/ DoneChunkLost(s) \/ StopPod(s)
      PROVE  WorldTypes'
  <2>1. \E next \in {"answered", "failed", "lost"} :
           task' = [task EXCEPT ![s].at = next]
    BY <1>6 DEF DoneChunk, DoneChunkLost, StopPod
  <2>2. task' \in [Step -> TaskState]
    BY <1>0, <2>1
  <2> QED
    BY <1>6, <2>2 DEF DoneChunk, DoneChunkLost, StopPod, TypeOK
<1>7. ASSUME NEW s \in Step, Nack(s) PROVE WorldTypes'
  <2>1. task[s] \in TaskState
    BY DEF TypeOK
  <2>2. CASE task[s].at = "failed" /\ task[s].attempt < Retries
    <3> DEFINE again == [at |-> "running", attempt |-> task[s].attempt + 1,
                         chunks |-> task[s].chunks]
    <3>1. task' = [task EXCEPT ![s] = again]
      BY <1>7, <2>2 DEF Nack
    <3>2. again \in TaskState
      BY <2>1, <2>2, StreamAssumption DEF TaskState
    <3> QED
      BY <1>7, <3>1, <3>2 DEF Nack, TypeOK
  <2>3. CASE ~(task[s].at = "failed" /\ task[s].attempt < Retries)
    <3>1. task' = [task EXCEPT ![s] = [task[s] EXCEPT !.at = "lost"]]
      BY <1>7, <2>3 DEF Nack
    <3>2. [task[s] EXCEPT !.at = "lost"] \in TaskState
      BY <2>1 DEF TaskState
    <3> QED
      BY <1>7, <3>1, <3>2 DEF Nack, TypeOK
  <2> QED
    BY <2>2, <2>3
<1>8. ASSUME NEW s \in Step, NEW phase \in StepPhase, SetStep(s, phase)
      PROVE  flow' \in FlowState
  BY <1>8 DEF SetStep, TypeOK, FlowState
<1>9. ASSUME NEW s \in Step, ConsiderStep(s) \/ CollectStep(s)
      PROVE  WorldTypes'
  <2>1. flow' \in FlowState
    BY <1>8, <1>9 DEF ConsiderStep, CollectStep, StepPhase
  <2>2. \/ task' = task
        \/ task' = [task EXCEPT ![s].at = "running"]
        \/ task' = [task EXCEPT ![s].at = "none"]
    BY <1>9 DEF ConsiderStep, CollectStep
  <2>3. task' \in [Step -> TaskState]
    <3>1. task \in [Step -> TaskState]
      BY DEF TypeOK
    <3> QED
      BY <1>0, <2>2, <3>1
  <2> QED
    BY <1>9, <2>1, <2>3 DEF ConsiderStep, CollectStep, TypeOK
<1>10. \/ UNCHANGED world
       \/ StartFlow \/ FailFlow \/ SyncCache
       \/ \E s \in Step :
            \/ PublishChunk(s) \/ DoneChunk(s) \/ DoneChunkLost(s)
            \/ StopPod(s) \/ Nack(s) \/ ConsiderStep(s) \/ CollectStep(s)
  BY DEF Next, Reader, Pop, Send, StopReader, PopFails, Handle, Refuse,
         Accept, DrainToken, Drained, SelectToken, TimeOut, GetFails,
         PollSSE, FinishToken, Finish, PollSync, End, Expire, Agent, vars
<1> QED
  BY <1>1, <1>2, <1>3, <1>4, <1>5, <1>6, <1>7, <1>9, <1>10

\* The request stays what it is, its time runs out once, and every disruption
\* is counted.
LEMMA ParamsKept ==
  [Next]_vars => /\ UNCHANGED params
                 /\ expired' = expired \/ expired' = TRUE
                 /\ disruptions' = disruptions \/ Disrupt
BY DEF Next, Reader, Pop, Send, StopReader, PopFails, Handle, Refuse,
       Accept, DrainToken, Drained, SelectToken, TimeOut, GetFails,
       PollSSE, FinishToken, Finish, PollSync, End, Expire, Agent,
       PublishChunk, DoneChunk, DoneChunkLost, Nack, StopPod, StartFlow,
       FailFlow, SyncCache, ConsiderStep, CollectStep, vars

LEMMA ParamTypesStep == TypeOK /\ [Next]_vars => ParamTypes'
<1> SUFFICES ASSUME TypeOK, [Next]_vars PROVE ParamTypes'
  OBVIOUS
<1>1. disruptions' \in 0 .. MaxDisruptions
  BY ParamsKept, StreamAssumption DEF Disrupt, TypeOK
<1> QED
  BY <1>1, ParamsKept DEF ParamTypes, params, TypeOK

\* What has been disturbed stays so.
LEMMA DisturbedForGood == TypeOK /\ [Next]_vars => (Undisturbed' => Undisturbed)
BY ParamsKept DEF Undisturbed, Disrupt, TypeOK
-----------------------------------------------------------------------------
(***************************************************************************)
(* What the request knows of the flow.                                     *)
(***************************************************************************)
LEMMA FlowExactInit == Init => FlowExact
BY DEF Init, FlowExact, Absent, Idle

\* A step gets another phase, and the flow with it.
LEMMA SetStepSets ==
  ASSUME TypeOK, NEW s \in Step, NEW phase \in StepPhase, SetStep(s, phase)
  PROVE  /\ flow'.phase \in {"Running", "Succeeded", "Failed"}
         /\ flow'.steps[s] = phase
         /\ \A t \in Step \ {s} : flow'.steps[t] = flow.steps[t]
BY DEF SetStep, TypeOK, FlowState

LEMMA FlowExactStep == TypeOK /\ FlowExact /\ [Next]_vars => FlowExact'
<1> SUFFICES ASSUME TypeOK, FlowExact, [Next]_vars PROVE FlowExact'
  OBVIOUS
<1>1. CASE UNCHANGED world
  BY <1>1 DEF world, FlowExact
<1>2. CASE StartFlow
  <2>1. /\ \A s \in Step : flow.steps[s] = "none"
        /\ flow'.phase = "Running"
        /\ UNCHANGED <<seen, task>>
    BY <1>2 DEF StartFlow, FlowExact
  <2>2. seen.phase \notin {"Succeeded", "Failed"}
    BY <1>2 DEF StartFlow, FlowExact
  <2> QED
    BY <2>1, <2>2 DEF FlowExact
<1>3. CASE FailFlow
  <2>1. /\ flow.phase = "Running" /\ flow'.phase = "Failed"
        /\ flow'.steps = flow.steps
        /\ UNCHANGED <<seen, task>>
    BY <1>3 DEF FailFlow, TypeOK, FlowState
  <2> QED
    BY <2>1 DEF FlowExact
<1>4. CASE SyncCache
  BY <1>4 DEF SyncCache, FlowExact
<1>5. ASSUME NEW s \in Step, Agent(s) PROVE FlowExact'
  <2>1. task[s].at # "none" /\ UNCHANGED <<flow, seen>>
    BY <1>5 DEF Agent, PublishChunk, DoneChunk, DoneChunkLost, Nack, StopPod
  <2>2. \A t \in Step \ {s} : task'[t] = task[t]
    BY <1>5 DEF Agent, PublishChunk, DoneChunk, DoneChunkLost, Nack, StopPod,
                TypeOK
  <2> QED
    BY <2>1, <2>2 DEF FlowExact
<1>6. ASSUME NEW s \in Step, ConsiderStep(s) \/ CollectStep(s)
      PROVE  FlowExact'
  <2>1. PICK phase \in StepPhase :
          SetStep(s, phase) /\ (task'[s].at # "none" => phase = "Running")
    <3>1. CASE ConsiderStep(s)
      <4>1. task[s].at = "none"
        BY <3>1 DEF ConsiderStep, FlowExact
      <4> QED
        BY <3>1, <4>1 DEF ConsiderStep, StepPhase
    <3>2. CASE CollectStep(s)
      BY <3>2 DEF CollectStep, StepPhase, TypeOK, TaskState
    <3> QED
      BY <1>6, <3>1, <3>2
  <2>2. /\ flow'.phase \in {"Running", "Succeeded", "Failed"}
        /\ flow'.steps[s] = phase
        /\ \A t \in Step \ {s} : flow'.steps[t] = flow.steps[t]
    BY <2>1, SetStepSets
  <2>3. /\ flow.phase = "Running" /\ UNCHANGED seen
        /\ flow.steps[s] # "Succeeded"
        /\ \A t \in Step \ {s} : task'[t] = task[t]
    BY <1>6 DEF ConsiderStep, CollectStep, FlowExact, TypeOK
  <2> QED
    BY <2>1, <2>2, <2>3 DEF FlowExact
<1>7. \/ UNCHANGED world
      \/ StartFlow \/ FailFlow \/ SyncCache
      \/ \E s \in Step : Agent(s) \/ ConsiderStep(s) \/ CollectStep(s)
  BY DEF Next, Reader, Pop, Send, StopReader, PopFails, Handle, Refuse,
         Accept, DrainToken, Drained, SelectToken, TimeOut, GetFails,
         PollSSE, FinishToken, Finish, PollSync, End, Expire, vars
<1> QED
  BY <1>1, <1>2, <1>3, <1>4, <1>5, <1>6, <1>7

(***************************************************************************)
(* What the client has been told of the steps.                             *)
(***************************************************************************)
LEMMA ToldExactInit == Init => ToldExact
BY DEF Init, ToldExact, Absent, Reported

LEMMA ToldExactStep ==
  TypeOK /\ FlowExact /\ ToldExact /\ [Next]_vars => ToldExact'
<1> SUFFICES ASSUME TypeOK, FlowExact, ToldExact, [Next]_vars
             PROVE  ToldExact'
  OBVIOUS
<1>1. CASE UNCHANGED <<told, said, seen>>
  BY <1>1 DEF ToldExact
<1>2. CASE SyncCache
  BY <1>2 DEF SyncCache, handler, client, ToldExact, FlowExact
<1>3. CASE PollSSE
  <2>1. told' = seen.steps /\ seen' = seen
    BY <1>3 DEF PollSSE, EmitStepEvents, world
  <2>2. ASSUME NEW s \in Step
        PROVE  said'[s]["Succeeded"] =
                 (IF seen.steps[s] = "Succeeded" /\ told[s] # "Succeeded"
                  THEN said[s]["Succeeded"] + 1 ELSE said[s]["Succeeded"])
    BY <1>3 DEF PollSSE, EmitStepEvents, Reported
  <2>3. ASSUME NEW s \in Step
        PROVE  said'[s]["Succeeded"] =
                 (IF told'[s] = "Succeeded" THEN 1 ELSE 0)
    <3>1. /\ told[s] = "Succeeded" => seen.steps[s] = "Succeeded"
          /\ said[s]["Succeeded"] = (IF told[s] = "Succeeded" THEN 1 ELSE 0)
      BY DEF ToldExact
    <3> QED
      BY <2>1, <2>2, <3>1
  <2> QED
    BY <2>1, <2>3 DEF ToldExact
<1>4. UNCHANGED <<told, said, seen>> \/ SyncCache \/ PollSSE
  BY DEF Next, Reader, Pop, Send, StopReader, PopFails, Handle, Refuse,
         Accept, DrainToken, Drained, SelectToken, TimeOut, GetFails,
         FinishToken, Finish, PollSync, End, Expire, Agent,
         PublishChunk, DoneChunk, DoneChunkLost, Nack, StopPod, StartFlow,
         FailFlow, ConsiderStep, CollectStep, vars, world, handler, client
<1> QED
  BY <1>1, <1>2, <1>3, <1>4

(***************************************************************************)
(* What the handler knows of the flow when it writes its last event.       *)
(***************************************************************************)
LEMMA EndExactInit == Init => EndExact
BY DEF Init, EndExact

LEMMA EndExactStep ==
  TypeOK /\ FlowExact /\ EndExact /\ [Next]_vars => EndExact'
<1> SUFFICES ASSUME TypeOK, FlowExact, EndExact, [Next]_vars
             PROVE  EndExact'
  OBVIOUS
<1>1. CASE UNCHANGED <<mode, pc, answer, told, seen>>
  <2>1. expired => expired'
    BY ParamsKept
  <2> QED
    BY <1>1, <2>1 DEF EndExact
<1>2. CASE pc # "done" /\ SyncCache
  <2>1. pc # "finish" /\ answer = "none" /\ UNCHANGED <<pc, answer>>
    BY <1>2 DEF SyncCache, EndExact, FlowExact, handler, client
  <2> QED
    BY <1>2, <2>1 DEF EndExact
<1>3. CASE pc # "done" /\ (Accept \/ SelectToken \/ Drained)
  <2>1. /\ answer = "none" /\ UNCHANGED answer
        /\ pc' \in {"drain", "select"}
    BY <1>3 DEF Accept, SelectToken, Drained, EndExact, client
  <2> QED
    BY <2>1 DEF EndExact
<1>4. ASSUME NEW word \in LastWord, End(word),
             word = "flow.completed" =>
               /\ seen.phase = "Succeeded"
               /\ mode = "sse" => told = seen.steps,
             word = "flow.failed" => seen.phase = "Failed",
             word = "timeout" => expired
      PROVE  EndExact'
  BY <1>4 DEF End, EndExact, LastWord, world, params
<1>5. CASE Refuse \/ TimeOut \/ GetFails
  BY <1>4, <1>5 DEF Refuse, TimeOut, GetFails, Failure, LastWord
<1>6. CASE Finish
  BY <1>4, <1>6 DEF Finish, EndExact, LastWord
<1>7. CASE PollSync
  BY <1>4, <1>7 DEF PollSync, Outcome, LastWord
<1>8. CASE PollSSE
  <2>1. /\ mode' = "sse" /\ seen' = seen /\ told' = seen.steps
        /\ pc' = "drain" \/ seen.phase \in {"Succeeded", "Failed"}
        /\ pc' \in {"drain", "finish", "done"}
        /\ pc' = "finish" => seen.phase = "Succeeded"
        /\ pc' # "done" => answer' = "none"
        /\ pc' = "done" => answer' = Outcome
    BY <1>8 DEF PollSSE, EmitStepEvents, world, params, AfterSuccess,
                AfterFailure
  <2>2. /\ pc' = "done" => answer' \in {"flow.completed", "flow.failed"}
        /\ answer' = "flow.completed" => seen.phase = "Succeeded"
        /\ answer' = "flow.failed" => seen.phase = "Failed"
    BY <2>1 DEF Outcome
  <2> QED
    BY <2>1, <2>2 DEF EndExact
<1>9. \/ UNCHANGED <<mode, pc, answer, told, seen>>
      \/ pc # "done" /\ SyncCache
      \/ pc # "done" /\ (Accept \/ SelectToken \/ Drained)
      \/ Refuse \/ TimeOut \/ GetFails \/ Finish \/ PollSync \/ PollSSE
  BY DEF Next, Reader, Pop, Send, StopReader, PopFails, Handle, Expire,
         DrainToken, FinishToken, Agent, PublishChunk, DoneChunk,
         DoneChunkLost, Nack, StopPod, StartFlow, FailFlow, ConsiderStep,
         CollectStep, vars, params, world, handler, client
<1> QED
  BY <1>1, <1>2, <1>3, <1>5, <1>6, <1>7, <1>8, <1>9

(***************************************************************************)
(* The cache gets the flow once, and the handler reports what is in it.    *)
(***************************************************************************)
LEMMA UnseenExactInit == Init => UnseenExact
BY DEF Init, UnseenExact, Absent

LEMMA UnseenExactStep ==
  TypeOK /\ UnseenExact /\ [Next]_vars => UnseenExact'
<1> SUFFICES ASSUME TypeOK, UnseenExact, [Next]_vars
             PROVE  UnseenExact'
  OBVIOUS
<1>1. flow'.phase # "absent"
  <2>1. flow \in [phase : {"absent", "none", "Running", "Succeeded", "Failed"},
                  steps : [Step -> StepPhase]]
    BY DEF TypeOK, FlowState
  <2>2. \/ flow' = flow
        \/ flow' = [flow EXCEPT !.phase = "Failed"]
        \/ \E phase, steps : /\ phase # "absent"
                             /\ flow' = [phase |-> phase, steps |-> steps]
    <3>1. ASSUME NEW s \in Step, NEW phase, SetStep(s, phase)
          PROVE  \E p, steps : /\ p # "absent"
                               /\ flow' = [phase |-> p, steps |-> steps]
      <4> DEFINE steps0 == [flow.steps EXCEPT ![s] = phase]
                 p0 == IF phase = "Failed" THEN "Failed"
                       ELSE IF \A t \in Step : StepDone(steps0[t])
                            THEN "Succeeded" ELSE "Running"
      <4>1. flow' = [phase |-> p0, steps |-> steps0]
        BY <3>1 DEF SetStep
      <4>2. p0 # "absent"
        OBVIOUS
      <4> HIDE DEF p0, steps0
      <4> QED
        BY <4>1, <4>2
    <3>2. ASSUME NEW s \in Step, ConsiderStep(s) \/ CollectStep(s)
          PROVE  \E p, steps : /\ p # "absent"
                               /\ flow' = [phase |-> p, steps |-> steps]
      BY <3>1, <3>2 DEF ConsiderStep, CollectStep
    <3>3. CASE StartFlow
      BY <3>3 DEF StartFlow
    <3>4. CASE FailFlow
      BY <3>4 DEF FailFlow
    <3>5. \/ flow' = flow \/ StartFlow \/ FailFlow
          \/ \E s \in Step : ConsiderStep(s) \/ CollectStep(s)
      BY DEF Next, Reader, Pop, Send, StopReader, PopFails, Handle, Refuse,
             Accept, DrainToken, Drained, SelectToken, TimeOut, GetFails,
             PollSSE, FinishToken, Finish, PollSync, End, Expire, SyncCache,
             Agent, PublishChunk, DoneChunk, DoneChunkLost, Nack, StopPod,
             vars, world
    <3> QED
      BY <3>2, <3>3, <3>4, <3>5
  <2> QED
    BY <2>1, <2>2 DEF UnseenExact
<1>2. \/ UNCHANGED <<seen, said>>
      \/ seen' = flow
      \/ seen' = seen /\ seen.phase # "absent"
  BY DEF Next, Reader, Pop, Send, StopReader, PopFails, Handle, Refuse,
         Accept, DrainToken, Drained, SelectToken, TimeOut, GetFails,
         PollSSE, FinishToken, Finish, PollSync, End, Expire, SyncCache,
         Agent, PublishChunk, DoneChunk, DoneChunkLost, Nack, StopPod,
         StartFlow, FailFlow, ConsiderStep, CollectStep, vars, world,
         handler, client
<1> QED
  BY <1>1, <1>2 DEF UnseenExact

(***************************************************************************)
(* An error is written when a call fails or the flow is not in the cache,  *)
(* and a request that did not create one flow comes no further.            *)
(***************************************************************************)
LEMMA ErrorExactInit == Init => ErrorExact
BY DEF Init, ErrorExact

LEMMA ErrorExactStep ==
  TypeOK /\ EndExact /\ ErrorExact /\ [Next]_vars => ErrorExact'
<1> SUFFICES ASSUME TypeOK, EndExact, ErrorExact, [Next]_vars
             PROVE  ErrorExact'
  OBVIOUS
<1>1. mode' = mode /\ dispatched' = dispatched
  BY ParamsKept DEF params
<1>2. pc # "done" => answer = "none"
  BY DEF EndExact
<1>3. CASE UNCHANGED vars
  BY <1>3 DEF vars, params, world, handler, client, ErrorExact
<1>4. CASE GetFails
  <2>1. /\ answer' \in {"timeout", "error"}
        /\ answer' = "error" => (mode = "sync" => ~expired)
        /\ UNCHANGED <<seen, expired>> /\ pc = "select"
    BY <1>4 DEF GetFails, Failure, End, world
  <2>2. seen.phase = "absent" \/ disruptions' > 0
    BY <1>4 DEF GetFails, Disrupt, TypeOK
  <2> QED
    BY <1>1, <1>2, <2>1, <2>2 DEF ErrorExact
<1>5. CASE Refuse
  BY <1>1, <1>5 DEF Refuse, End, ErrorExact
<1>6. CASE Accept
  BY <1>1, <1>2, <1>6 DEF Accept, client, ErrorExact
<1>7. CASE TimeOut \/ Finish \/ PollSync \/ PollSSE
  <2>1. /\ pc \in {"select", "finish"}
        /\ answer' \in {"none", "timeout", "flow.completed", "flow.failed"}
    BY <1>7 DEF TimeOut, Finish, PollSync, PollSSE, End, Outcome
  <2> QED
    BY <1>1, <1>2, <2>1 DEF ErrorExact
<1>8. CASE pc # "done" /\ answer' = answer /\ (pc' # "begin" => pc # "begin")
  BY <1>1, <1>2, <1>8 DEF ErrorExact
<1>9. \/ UNCHANGED vars \/ GetFails \/ Refuse \/ Accept
      \/ TimeOut \/ Finish \/ PollSync \/ PollSSE
      \/ pc # "done" /\ answer' = answer /\ (pc' # "begin" => pc # "begin")
  BY DEF Next, Reader, Pop, Send, StopReader, PopFails, Handle, Expire,
         DrainToken, Drained, SelectToken, FinishToken, Agent, PublishChunk,
         DoneChunk, DoneChunkLost, Nack, StopPod, StartFlow, FailFlow,
         SyncCache, ConsiderStep, CollectStep, handler, client
<1> QED
  BY <1>3, <1>4, <1>5, <1>6, <1>7, <1>8, <1>9
-----------------------------------------------------------------------------
(***************************************************************************)
(* What is forwarded is a sequence of tokens.                              *)
(***************************************************************************)
LEMMA ForwardedTypes ==
  TypeOK => /\ Forwarded \in Seq(Token)
            /\ Len(Forwarded) = Len(sent) + Len(channel) + Len(held)
<1> SUFFICES ASSUME TypeOK
             PROVE  /\ Forwarded \in Seq(Token)
                    /\ Len(Forwarded) = Len(sent) + Len(channel) + Len(held)
  OBVIOUS
<1>1. sent \in Seq(Token) /\ channel \in Seq(Token) /\ held \in Seq(Token)
  BY DEF TypeOK
<1>2. /\ sent \o channel \in Seq(Token)
      /\ Len(sent \o channel) = Len(sent) + Len(channel)
  BY <1>1, ConcatProperties
<1>3. /\ (sent \o channel) \o held \in Seq(Token)
      /\ Len((sent \o channel) \o held) = Len(sent \o channel) + Len(held)
  BY <1>1, <1>2, ConcatProperties
<1> QED
  BY <1>2, <1>3 DEF Forwarded

\* The first element of a sequence goes to the end of another one.
LEMMA HandOver ==
  ASSUME NEW S, NEW s \in Seq(S), NEW c \in Seq(S), c # <<>>
  PROVE  Append(s, Head(c)) \o Tail(c) = s \o c
<1>1. Head(c) \in S /\ Tail(c) \in Seq(S) /\ <<Head(c)>> \in Seq(S)
  BY HeadTailProperties
<1>2. Append(s, Head(c)) = s \o <<Head(c)>>
  BY <1>1, AppendIsConcat
<1>3. (s \o <<Head(c)>>) \o Tail(c) = s \o (<<Head(c)>> \o Tail(c))
  BY <1>1, ConcatAssociative
<1>4. <<Head(c)>> \o Tail(c) = c
  BY <1>1
<1> QED
  BY <1>2, <1>3, <1>4

\* A token that is passed on stays among those forwarded.
LEMMA PassTokenKeeps ==
  ASSUME TypeOK, PassToken, held' = held
  PROVE  Forwarded' = Forwarded
<1>1. sent' \o channel' = sent \o channel
  BY HandOver DEF PassToken, TypeOK
<1> QED
  BY <1>1 DEF Forwarded

\* So does the token the goroutine puts into the channel.
LEMMA SendKeeps ==
  ASSUME TypeOK, Send
  PROVE  Forwarded' = Forwarded
<1>1. sent \in Seq(Token) /\ channel \in Seq(Token) /\ held \in Seq(Token)
  BY DEF TypeOK
<1>2. /\ sent' = sent /\ channel' = channel \o held /\ held' = <<>>
  BY DEF Send, Enqueue, handler, client
<1>3. sent \o (channel \o held) = (sent \o channel) \o held
  BY <1>1, ConcatAssociative
<1>4. (sent \o channel) \o held \in Seq(Token)
  BY <1>1, ConcatProperties
<1>5. ((sent \o channel) \o held) \o <<>> = (sent \o channel) \o held
  BY <1>4, ConcatEmptySeq
<1> QED
  BY <1>2, <1>3, <1>5 DEF Forwarded

\* What the goroutine drops when it ends leaves a prefix.
LEMMA DropKeepsPrefix ==
  ASSUME TypeOK, held' = <<>>, UNCHANGED <<sent, channel>>
  PROVE  /\ Forwarded' \in Seq(Token)
         /\ Len(Forwarded') <= Len(Forwarded)
         /\ \A k \in 1 .. Len(Forwarded') : Forwarded'[k] = Forwarded[k]
<1> DEFINE got == sent \o channel
<1>1. got \in Seq(Token) /\ held \in Seq(Token)
  BY ConcatProperties DEF TypeOK
<1>2. /\ Len(got \o held) = Len(got) + Len(held)
      /\ \A k \in 1 .. Len(got) : (got \o held)[k] = got[k]
  <2>1. \A k \in 1 .. Len(got) + Len(held) :
          (got \o held)[k] = IF k <= Len(got) THEN got[k]
                             ELSE held[k - Len(got)]
    BY <1>1, ConcatProperties
  <2>2. Len(got \o held) = Len(got) + Len(held)
    BY <1>1, ConcatProperties
  <2>3. Len(got) \in Nat /\ Len(held) \in Nat
    BY <1>1, LenProperties
  <2> QED
    BY <2>1, <2>2, <2>3
<1>3. Forwarded = got \o held
  BY DEF Forwarded
<1>4. Forwarded' = got
  <2>1. Forwarded' = got \o <<>>
    BY DEF Forwarded
  <2> QED
    BY <1>1, <2>1, ConcatEmptySeq
<1>5. Len(got) \in Nat /\ Len(held) \in Nat
  BY <1>1, LenProperties
<1> QED
  BY <1>1, <1>2, <1>3, <1>4, <1>5

(***************************************************************************)
(* What is forwarded is what the list begins with.                         *)
(***************************************************************************)
LEMMA PlacedInit == Init => Placed /\ ReaderExact /\ ChannelExact
<1> SUFFICES ASSUME Init PROVE Placed /\ ReaderExact /\ ChannelExact
  OBVIOUS
<1>1. /\ sent = <<>> /\ channel = <<>> /\ held = <<>> /\ popped = 0
      /\ list = <<>> /\ reader = "closed" /\ pc = "begin"
      /\ answer = "none" /\ (streaming => mode = "sse")
  BY DEF Init
<1>2. Forwarded \in Seq(Token) /\ Len(Forwarded) = 0
  BY <1>1, InitTypes, ForwardedTypes
<1>3. Placed
  BY <1>1, <1>2 DEF Placed
<1>4. ReaderExact
  BY <1>1, <1>2 DEF ReaderExact
<1>5. ChannelExact
  BY <1>1 DEF ChannelExact
<1> QED
  BY <1>3, <1>4, <1>5

\* The list only grows.
LEMMA ListGrows ==
  TypeOK /\ [Next]_vars =>
    /\ Len(list) <= Len(list')
    /\ \A k \in 1 .. Len(list) : list'[k] = list[k]
<1> SUFFICES ASSUME TypeOK, [Next]_vars
             PROVE  /\ Len(list) <= Len(list')
                    /\ \A k \in 1 .. Len(list) : list'[k] = list[k]
  OBVIOUS
<1>1. list' = list \/ \E item \in Token \union {Marker} :
                         list' = Append(list, item)
  <2>1. ASSUME NEW s \in Step, PublishChunk(s)
        PROVE  \E item \in Token \union {Marker} : list' = Append(list, item)
    <3>1. <<s, task'[s].chunks>> \in Token
      BY <2>1, WorldTypesStep DEF WorldTypes, TaskState, Token
    <3> QED
      BY <2>1, <3>1 DEF PublishChunk
  <2>2. ASSUME NEW s \in Step, DoneChunk(s)
        PROVE  list' = list \/ list' = Append(list, Marker)
    BY <2>2 DEF DoneChunk
  <2>3. UNCHANGED list \/ \E s \in Step : PublishChunk(s) \/ DoneChunk(s)
    BY DEF Next, Reader, Pop, Send, StopReader, PopFails, Handle, Refuse,
           Accept, DrainToken, Drained, SelectToken, TimeOut, GetFails,
           PollSSE, FinishToken, Finish, PollSync, End, Expire, Agent,
           DoneChunkLost, Nack, StopPod, StartFlow, FailFlow, SyncCache,
           ConsiderStep, CollectStep, vars
  <2> QED
    BY <2>1, <2>2, <2>3
<1>2. list \in Seq(Token \union {Marker})
  BY DEF TypeOK
<1> QED
  BY <1>1, <1>2, AppendProperties, LenProperties

\* How a step moves the tokens: the goroutine takes an item, ...
Taken ==
  /\ reader = "pop"
  /\ popped' = popped + 1
  /\ UNCHANGED <<list, streaming, pc, answer, expired, disruptions>>
  /\ \/ /\ list[popped'] = Marker
        /\ reader' = "closed"
        /\ Forwarded' = Forwarded
     \/ /\ list[popped'] \in Token
        /\ reader' = "send"
        /\ Forwarded' \in Seq(Token)
        /\ Len(Forwarded') = Len(Forwarded) + 1
        /\ Forwarded'[popped'] = list[popped']
        /\ \A k \in 1 .. Len(Forwarded) : Forwarded'[k] = Forwarded[k]

\* ... the goroutine gives up after a disruption, ...
GivenUp ==
  /\ reader # "closed"
  /\ reader' = "closed"
  /\ ~Undisturbed'
  /\ UNCHANGED <<list, streaming, pc, answer>>
  /\ Forwarded' \in Seq(Token)
  /\ Len(Forwarded') <= Len(Forwarded)
  /\ \A k \in 1 .. Len(Forwarded') : Forwarded'[k] = Forwarded[k]
  /\ popped <= popped'

\* ... the request is accepted, ...
Opened ==
  /\ pc = "begin"
  /\ reader' = IF streaming THEN "pop" ELSE "closed"
  /\ pc' # "begin"
  /\ UNCHANGED <<list, streaming, popped, Forwarded, answer>>

\* ... or the tokens stay the same, wherever they are.
Passed ==
  /\ UNCHANGED <<streaming, popped, Forwarded>>
  /\ reader # "closed" <=> reader' # "closed"
  /\ list' = list \/ streaming
  /\ pc' = "begin" => pc = "begin"
  /\ answer = "bad request" => answer' = "bad request"
  /\ (pc = "begin" /\ pc' # "begin") => answer' = "bad request"
  /\ Undisturbed' => Undisturbed

(***************************************************************************)
(* Every step is of one of these kinds.                                    *)
(***************************************************************************)
LEMMA PopTakes ==
  ASSUME TypeOK, Placed, ReaderExact, Pop PROVE Taken
<1>1. /\ popped < Len(list) /\ popped' = popped + 1 /\ reader = "pop"
      /\ UNCHANGED <<list, streaming, pc, answer, expired, disruptions>>
      /\ UNCHANGED <<sent, channel>>
  BY DEF Pop, params, handler, client
<1>2. held = <<>>
  <2>1. held \in Seq(Token) /\ Len(held) = 0
    BY <1>1 DEF TypeOK
  <2> QED
    BY <2>1, EmptySeq
<1>3. sent \o channel \in Seq(Token) /\ Forwarded = sent \o channel
  <2>1. sent \o channel \in Seq(Token)
    BY ConcatProperties DEF TypeOK
  <2>2. (sent \o channel) \o <<>> = sent \o channel
    BY <2>1, ConcatEmptySeq
  <2> QED
    BY <1>2, <2>1, <2>2 DEF Forwarded
<1>4. list[popped'] \in Token \union {Marker}
  <2>1. popped' \in 1 .. Len(list) /\ list \in Seq(Token \union {Marker})
    BY <1>1 DEF TypeOK
  <2> QED
    BY <2>1, ElementOfSeq
<1>5. CASE list[popped'] = Marker
  <2>1. reader' = "closed" /\ held' = <<>>
    BY <1>1, <1>5 DEF Pop, StreamDone
  <2>2. Forwarded' = Forwarded
    BY <1>1, <1>2, <2>1 DEF Forwarded
  <2> QED
    BY <1>1, <1>5, <2>1, <2>2 DEF Taken
<1>6. CASE list[popped'] # Marker
  <2>1. reader' = "send" /\ held' = <<list[popped']>>
    BY <1>1, <1>6 DEF Pop, StreamDone
  <2>2. list[popped'] \in Token
    BY <1>4, <1>6
  <2>3. Forwarded' = Append(Forwarded, list[popped'])
    <3>1. Append(sent \o channel, list[popped'])
            = (sent \o channel) \o <<list[popped']>>
      BY <1>3, <2>2, AppendIsConcat
    <3> QED
      BY <1>1, <1>3, <2>1, <3>1 DEF Forwarded
  <2>4. /\ Forwarded' \in Seq(Token)
        /\ Len(Forwarded') = Len(Forwarded) + 1
        /\ \A k \in 1 .. Len(Forwarded) : Forwarded'[k] = Forwarded[k]
        /\ Forwarded'[Len(Forwarded) + 1] = list[popped']
    <3>1. Forwarded \in Seq(Token)
      BY <1>3
    <3> QED
      BY <2>2, <2>3, <3>1, AppendProperties
  <2>5. popped' = Len(Forwarded) + 1
    BY <1>1 DEF ReaderExact
  <2> QED
    BY <1>1, <2>1, <2>2, <2>4, <2>5 DEF Taken
<1> QED
  BY <1>5, <1>6

LEMMA StoppingGivesUp ==
  ASSUME TypeOK, StopReader \/ PopFails PROVE GivenUp
<1>1. /\ reader # "closed" /\ reader' = "closed" /\ held' = <<>>
      /\ popped <= popped'
      /\ UNCHANGED <<list, streaming, pc, answer, sent, channel>>
  <2>1. CASE StopReader
    BY <2>1 DEF StopReader, params, handler, client, TypeOK
  <2>2. CASE PopFails
    <3>1. held = <<>>
      <4>1. held \in Seq(Token) /\ Len(held) = 0
        BY <2>2 DEF PopFails, TypeOK
      <4> QED
        BY <4>1, EmptySeq
    <3> QED
      BY <2>2, <3>1 DEF PopFails, params, handler, client, TypeOK
  <2> QED
    BY <2>1, <2>2
<1>2. ~Undisturbed'
  BY DEF StopReader, PopFails, Disrupt, Undisturbed, TypeOK
<1> QED
  BY <1>1, <1>2, DropKeepsPrefix DEF GivenUp

LEMMA StepMovesTokens ==
  TypeOK /\ Placed /\ ReaderExact /\ EndExact /\ [Next]_vars =>
    Taken \/ GivenUp \/ Opened \/ Passed
<1> SUFFICES ASSUME TypeOK, Placed, ReaderExact, EndExact, [Next]_vars
             PROVE  Taken \/ GivenUp \/ Opened \/ Passed
  OBVIOUS
<1>1. CASE Accept
  BY <1>1 DEF Accept, Opened, Forwarded, params, client
<1>2. CASE Send
  <2>1. /\ reader = "send" /\ reader' = "pop"
        /\ UNCHANGED <<streaming, popped, list, pc, answer, expired,
                       disruptions>>
    BY <1>2 DEF Send, params, handler, client
  <2> QED
    BY <1>2, <2>1, SendKeeps DEF Passed, Undisturbed
<1>3. CASE DrainToken \/ FinishToken \/ (SelectToken /\ PassToken)
  <2>1. /\ PassToken /\ pc # "begin" /\ pc' # "begin"
        /\ UNCHANGED <<streaming, popped, list, reader, held, answer, expired,
                       disruptions>>
    BY <1>3 DEF DrainToken, FinishToken, SelectToken, params
  <2> QED
    BY <2>1, PassTokenKeeps DEF Passed, Undisturbed
<1>4. CASE /\ UNCHANGED <<sent, channel, held, popped, reader, streaming>>
           /\ \/ UNCHANGED <<list, pc, answer>>
              \/ UNCHANGED <<pc, answer>> /\ streaming
              \/ UNCHANGED list /\ pc # "begin" /\ pc # "done"
                   /\ pc' # "begin"
              \/ UNCHANGED list /\ pc' # "begin" /\ answer' = "bad request"
           /\ Undisturbed' => Undisturbed
  BY <1>4 DEF Passed, Forwarded, EndExact
<1>5. CASE pc # "done" /\ Next
  <2>1. \/ Accept \/ Send \/ Pop \/ StopReader \/ PopFails
        \/ DrainToken \/ FinishToken \/ (SelectToken /\ PassToken)
        \/ /\ UNCHANGED <<sent, channel, held, popped, reader, streaming>>
           /\ \/ UNCHANGED <<list, pc, answer>>
              \/ UNCHANGED <<pc, answer>> /\ streaming
              \/ UNCHANGED list /\ pc # "begin" /\ pc # "done"
                   /\ pc' # "begin"
              \/ UNCHANGED list /\ pc' # "begin" /\ answer' = "bad request"
    BY <1>5, ZenonT(60)
       DEF Next, Reader, Handle, Refuse, Drained, SelectToken, TimeOut,
           GetFails, PollSSE, Finish, PollSync, End, Expire, Agent,
           PublishChunk, DoneChunk, DoneChunkLost, Nack, StopPod, StartFlow,
           FailFlow, SyncCache, ConsiderStep, CollectStep, params, stream,
           handler, client, AfterSuccess, AfterFailure
  <2>2. Undisturbed' => Undisturbed
    BY DisturbedForGood
  <2> QED
    BY <1>1, <1>2, <1>3, <1>4, <2>1, <2>2, PopTakes, StoppingGivesUp
<1>6. CASE UNCHANGED vars
  BY <1>6
     DEF vars, params, stream, handler, client, Passed, Forwarded, Undisturbed
<1> QED
  BY <1>5, <1>6 DEF Next

LEMMA PlacedStep ==
  TypeOK /\ TypeOK' /\ Placed /\ ReaderExact /\ EndExact /\ [Next]_vars =>
    Placed'
<1> SUFFICES ASSUME TypeOK, TypeOK', Placed, ReaderExact, EndExact,
                    [Next]_vars
             PROVE  Placed'
  OBVIOUS
<1>1. /\ Forwarded \in Seq(Token) /\ Len(Forwarded) \in Nat
      /\ Len(Forwarded) <= popped /\ popped \in Nat
      /\ popped <= Len(list) /\ Len(list) \in Nat
      /\ \A k \in 1 .. Len(Forwarded) : Forwarded[k] = list[k]
  BY LenProperties DEF Placed, TypeOK
<1>2. \A k \in 1 .. Len(list) : list'[k] = list[k]
  BY ListGrows
<1>3. CASE Taken
  <2>1. CASE Forwarded' = Forwarded
    BY <1>1, <1>3, <2>1 DEF Taken, Placed
  <2>2. CASE /\ Forwarded' \in Seq(Token)
             /\ Len(Forwarded') = Len(Forwarded) + 1
             /\ Forwarded'[popped'] = list[popped']
             /\ \A k \in 1 .. Len(Forwarded) : Forwarded'[k] = Forwarded[k]
    <3>1. popped = Len(Forwarded) /\ popped' = popped + 1 /\ list' = list
      BY <1>3 DEF Taken, ReaderExact
    <3>2. \A k \in 1 .. Len(Forwarded) + 1 : Forwarded'[k] = list[k]
      BY <1>1, <2>2, <3>1
    <3> QED
      BY <1>1, <2>2, <3>1, <3>2 DEF Placed
  <2> QED
    BY <1>3, <2>1, <2>2 DEF Taken
<1>4. CASE GivenUp
  <2>1. Len(Forwarded') \in Nat /\ popped' \in Nat
    BY <1>4, LenProperties DEF GivenUp, TypeOK
  <2> QED
    BY <1>1, <1>4, <2>1 DEF GivenUp, Placed
<1>5. CASE Opened \/ Passed
  <2>1. Forwarded' = Forwarded /\ popped' = popped
    BY <1>5 DEF Opened, Passed
  <2>2. \A k \in 1 .. Len(Forwarded) : Forwarded[k] = list'[k]
    BY <1>1, <1>2
  <2> QED
    BY <1>1, <2>1, <2>2 DEF Placed
<1> QED
  BY <1>3, <1>4, <1>5, StepMovesTokens

LEMMA ReaderExactStep ==
  TypeOK /\ TypeOK' /\ Placed /\ ReaderExact /\ EndExact /\ [Next]_vars =>
    ReaderExact'
<1> SUFFICES ASSUME TypeOK, TypeOK', Placed, ReaderExact, EndExact,
                    [Next]_vars
             PROVE  ReaderExact'
  OBVIOUS
<1>1. /\ Len(Forwarded) \in Nat /\ Len(Forwarded) <= popped
      /\ popped \in Nat /\ popped <= Len(list) /\ Len(list) \in Nat
  BY LenProperties DEF Placed, TypeOK
<1>2. \A k \in 1 .. Len(list) : list'[k] = list[k]
  BY ListGrows
<1>3. CASE Taken
  <2>1. popped = Len(Forwarded) /\ popped' = popped + 1 /\ streaming
    BY <1>3 DEF Taken, ReaderExact
  <2>2. pc' # "begin" /\ streaming'
    BY <1>3, <2>1 DEF Taken, ReaderExact
  <2>3. CASE reader' = "closed"
    <3>1. list'[popped'] = Marker /\ Forwarded' = Forwarded
      BY <1>3, <2>3 DEF Taken
    <3> QED
      BY <1>1, <2>1, <2>2, <2>3, <3>1 DEF ReaderExact, AtMarker
  <2>4. CASE reader' = "send"
    <3>1. Len(Forwarded') = popped'
      BY <1>1, <1>3, <2>1, <2>4 DEF Taken
    <3> QED
      BY <2>2, <2>4, <3>1 DEF ReaderExact
  <2> QED
    BY <1>3, <2>3, <2>4 DEF Taken
<1>4. CASE GivenUp
  BY <1>4 DEF GivenUp, ReaderExact
<1>5. CASE Opened
  <2>1. popped' = 0 /\ Forwarded' = Forwarded /\ Len(Forwarded) = 0
    BY <1>1, <1>5 DEF Opened, ReaderExact
  <2>2. /\ reader' = "closed" => ~streaming'
        /\ ~streaming' => list' = <<>> /\ reader' = "closed"
        /\ pc' # "begin"
    BY <1>5 DEF Opened, ReaderExact
  <2> QED
    BY <2>1, <2>2 DEF ReaderExact
<1>6. CASE Passed
  <2>1. AtMarker => AtMarker'
    <3>1. Forwarded' = Forwarded /\ popped' = popped
      BY <1>6 DEF Passed
    <3>2. popped = Len(Forwarded) + 1 => list'[popped] = list[popped]
      BY <1>1, <1>2
    <3> QED
      BY <3>1, <3>2 DEF AtMarker
  <2> QED
    BY <1>6, <2>1 DEF Passed, ReaderExact
<1> QED
  BY <1>3, <1>4, <1>5, <1>6, StepMovesTokens

(***************************************************************************)
(* The handler stops reading the channel only at its end.                  *)
(***************************************************************************)
LEMMA ChannelExactStep ==
  TypeOK /\ ReaderExact /\ ChannelExact /\ EndExact /\ [Next]_vars =>
    ChannelExact'
<1> SUFFICES ASSUME TypeOK, ReaderExact, ChannelExact, EndExact, [Next]_vars
             PROVE  ChannelExact'
  OBVIOUS
<1>1. UNCHANGED <<mode, streaming>>
  BY ParamsKept DEF params
<1>2. CASE UNCHANGED <<reader, channel, open, pc, answer>>
  BY <1>1, <1>2 DEF ChannelExact
<1>3. CASE pc # "done" /\ Reader
  <2>1. /\ answer = "none" /\ reader # "closed"
        /\ UNCHANGED <<open, pc, answer>>
    BY <1>3 DEF Reader, Pop, Send, StopReader, PopFails, EndExact, handler,
                client
  <2> QED
    BY <1>1, <2>1 DEF ChannelExact
<1>4. CASE Accept
  <2>1. mode = "sse" => open'
    BY <1>4 DEF Accept
  <2>2. answer' # "flow.completed"
    BY <1>4 DEF Accept, EndExact, client
  <2> QED
    BY <1>1, <2>1, <2>2 DEF ChannelExact
<1>5. CASE pc # "done" /\ (DrainToken \/ SelectToken \/ FinishToken)
  <2>1. /\ answer' # "flow.completed"
        /\ open' \/ pc' = "finish"
    BY <1>5 DEF DrainToken, SelectToken, FinishToken, EndExact
  <2> QED
    BY <1>1, <2>1 DEF ChannelExact
<1>6. CASE Drained
  <2>1. /\ answer' # "flow.completed" /\ UNCHANGED <<reader, channel>>
        /\ pc = "drain"
        /\ open => channel = <<>>
        /\ ~open' => ~open \/ reader = "closed"
    BY <1>6 DEF Drained, EndExact, client, stream
  <2> QED
    BY <1>1, <2>1 DEF ChannelExact
<1>7. ASSUME NEW word, End(word),
             (word = "flow.completed" /\ mode = "sse") =>
               reader = "closed" /\ channel = <<>>
      PROVE  ChannelExact'
  BY <1>1, <1>7 DEF End, ChannelExact, stream
<1>8. CASE Refuse \/ TimeOut \/ GetFails
  BY <1>7, <1>8 DEF Refuse, TimeOut, GetFails, Failure
<1>9. CASE Finish \/ PollSync
  BY <1>7, <1>9 DEF Finish, PollSync
<1>10. CASE PollSSE
  <2>1. /\ mode = "sse" /\ pc = "select"
        /\ UNCHANGED <<reader, channel, open>>
        /\ pc' \in {"drain", "finish", "done"}
        /\ answer' = "flow.completed" => ~open
    BY <1>10 DEF PollSSE, AfterSuccess, AfterFailure, Outcome, stream
  <2> QED
    BY <1>1, <2>1 DEF ChannelExact
<1>11. \/ UNCHANGED <<reader, channel, open, pc, answer>>
       \/ pc # "done" /\ Reader
       \/ pc # "done" /\ (DrainToken \/ SelectToken \/ FinishToken)
       \/ Accept \/ Drained \/ Refuse \/ TimeOut \/ GetFails \/ Finish
       \/ PollSync \/ PollSSE
  BY DEF Next, Handle, Expire, Agent, PublishChunk, DoneChunk,
         DoneChunkLost, Nack, StopPod, StartFlow, FailFlow, SyncCache,
         ConsiderStep, CollectStep, vars, stream, handler, client
<1> QED
  BY <1>2, <1>3, <1>4, <1>5, <1>6, <1>8, <1>9, <1>10, <1>11
-----------------------------------------------------------------------------
(***************************************************************************)
(* The invariant of a request, and what follows from it.                   *)
(***************************************************************************)
LEMMA StreamInvInit == Init => StreamInv
BY InitTypes, PlacedInit, FlowExactInit, ToldExactInit, EndExactInit,
   UnseenExactInit, ErrorExactInit DEF StreamInv

LEMMA StreamInvStep == StreamInv /\ [Next]_vars => StreamInv'
<1> SUFFICES ASSUME StreamInv, [Next]_vars PROVE StreamInv'
  OBVIOUS
<1>1. /\ TypeOK /\ Placed /\ ReaderExact /\ ChannelExact /\ FlowExact
      /\ ToldExact /\ EndExact /\ UnseenExact /\ ErrorExact
  BY DEF StreamInv
<1>2. TypeOK'
  BY <1>1, StreamTypesStep, HandlerTypesStep, WorldTypesStep, ParamTypesStep,
     TypesByPart, PTL
<1>3. Placed' /\ ReaderExact' /\ ChannelExact'
  BY <1>1, <1>2, PlacedStep, ReaderExactStep, ChannelExactStep
<1>4. FlowExact' /\ ToldExact' /\ EndExact'
  BY <1>1, FlowExactStep, ToldExactStep, EndExactStep
<1>5. UnseenExact' /\ ErrorExact'
  BY <1>1, UnseenExactStep, ErrorExactStep
<1> QED
  BY <1>2, <1>3, <1>4, <1>5 DEF StreamInv

LEMMA StreamInvAlways == Spec => []StreamInv
BY StreamInvInit, StreamInvStep, PTL DEF Spec

\* A sequence whose elements another one begins with is its prefix.
LEMMA PrefixByElements ==
  ASSUME NEW S, NEW s \in Seq(S), NEW t \in Seq(S), Len(s) <= Len(t),
         \A k \in 1 .. Len(s) : s[k] = t[k]
  PROVE  IsPrefix(s, t)
<1>1. Len(s) \in Nat /\ Len(t) \in Nat
  BY LenProperties
<1>2. \A k \in 1 .. Len(s) : t[k] \in S
  BY <1>1, ElementOfSeq
<1>3. /\ SubSeq(t, 1, Len(s)) \in Seq(S)
      /\ Len(SubSeq(t, 1, Len(s))) = Len(s)
      /\ \A k \in 1 .. Len(s) : SubSeq(t, 1, Len(s))[k] = t[k]
  BY <1>1, <1>2
<1>4. SubSeq(t, 1, Len(s)) = s
  BY <1>3, SeqEqual
<1>5. SubSeq(s, 1, Len(s)) = s
  BY SubSeqFull
<1> QED
  BY <1>4, <1>5 DEF IsPrefix

\* Tokens that items begin with, and that a marker follows unless they are
\* all of them, are the stream of the items.
LEMMA StreamByElements ==
  ASSUME NEW tokens \in Seq(Token), NEW items \in Seq(Token \union {Marker}),
         Len(tokens) <= Len(items),
         \A k \in 1 .. Len(tokens) : tokens[k] = items[k],
         \/ Len(tokens) = Len(items)
         \/ items[Len(tokens) + 1] = Marker
  PROVE  IsStream(tokens, items)
<1>1. tokens \in Seq(Token \union {Marker})
  BY SeqMonotonic
<1>2. IsPrefix(tokens, items)
  BY <1>1, PrefixByElements
<1>3. Len(tokens) = Len(items) => tokens = items
  BY <1>1, SeqEqual
<1> QED
  BY <1>2, <1>3 DEF IsStream

LEMMA ConservedByInv == StreamInv => StreamConserved
<1> SUFFICES ASSUME StreamInv PROVE StreamConserved
  OBVIOUS
<1>1. /\ Forwarded \in Seq(Token) /\ Len(Forwarded) \in Nat
      /\ list \in Seq(Token \union {Marker}) /\ Len(list) \in Nat
      /\ popped \in 0 .. Len(list) /\ Len(Forwarded) <= popped
      /\ \A k \in 1 .. Len(Forwarded) : Forwarded[k] = list[k]
  BY LenProperties DEF StreamInv, TypeOK, Placed
<1>2. Forwarded \in Seq(Token \union {Marker})
  BY <1>1, SeqMonotonic
<1>3. IsPrefix(Forwarded, list)
  BY <1>1, <1>2, PrefixByElements
<1>4. ASSUME Undisturbed PROVE IsStream(Forwarded, SubSeq(list, 1, popped))
  <2> DEFINE items == SubSeq(list, 1, popped)
  <2>1. /\ items \in Seq(Token \union {Marker})
        /\ Len(items) = popped
        /\ \A k \in 1 .. popped : items[k] = list[k]
    <3>1. \A k \in 1 .. popped : list[k] \in Token \union {Marker}
      BY <1>1, ElementOfSeq
    <3> QED
      BY <1>1, <3>1
  <2>2. Len(Forwarded) = popped \/ items[Len(Forwarded) + 1] = Marker
    <3>1. \/ popped = Len(Forwarded)
          \/ popped = Len(Forwarded) + 1 /\ list[popped] = Marker
      BY <1>4 DEF StreamInv, ReaderExact, AtMarker
    <3> HIDE DEF items
    <3> QED
      BY <1>1, <2>1, <3>1
  <2>3. \A k \in 1 .. Len(Forwarded) : Forwarded[k] = items[k]
    BY <1>1, <2>1
  <2> HIDE DEF items
  <2> QED
    BY <1>1, <2>1, <2>2, <2>3, StreamByElements DEF items
<1> QED
  BY <1>1, <1>3, <1>4 DEF StreamConserved

LEMMA CompleteByInv == StreamInv => CompletionIsComplete
<1> SUFFICES ASSUME StreamInv, answer = "flow.completed", mode = "sse"
             PROVE  /\ \A s \in Step :
                         said[s]["Succeeded"] =
                           (IF flow.steps[s] = "Succeeded" THEN 1 ELSE 0)
                    /\ streaming /\ Undisturbed => IsStream(sent, list)
  BY DEF CompletionIsComplete
<1>1. told = flow.steps
  BY DEF StreamInv, EndExact, FlowExact
<1>2. reader = "closed" /\ channel = <<>> /\ pc # "begin"
  BY DEF StreamInv, ChannelExact, EndExact
<1>3. ASSUME streaming, Undisturbed PROVE IsStream(sent, list)
  <2>1. sent \in Seq(Token) /\ held = <<>>
    <3>1. held \in Seq(Token) /\ Len(held) = 0 /\ sent \in Seq(Token)
      BY <1>2 DEF StreamInv, TypeOK
    <3> QED
      BY <3>1, EmptySeq
  <2>2. Forwarded = sent
    BY <1>2, <2>1, ConcatEmptySeq DEF Forwarded
  <2>3. AtMarker
    BY <1>2, <1>3 DEF StreamInv, ReaderExact
  <2>4. /\ list \in Seq(Token \union {Marker})
        /\ Len(sent) <= Len(list)
        /\ \A k \in 1 .. Len(sent) : sent[k] = list[k]
        /\ list[Len(sent) + 1] = Marker
    <3>1. Len(sent) \in Nat /\ popped \in Nat /\ Len(list) \in Nat
      BY <2>1, LenProperties DEF StreamInv, TypeOK
    <3> QED
      BY <2>2, <2>3, <3>1 DEF StreamInv, TypeOK, Placed, AtMarker
  <2> QED
    BY <2>1, <2>4, StreamByElements
<1>4. \A s \in Step :
        said[s]["Succeeded"] = (IF flow.steps[s] = "Succeeded" THEN 1 ELSE 0)
  BY <1>1 DEF StreamInv, ToldExact
<1> QED
  BY <1>3, <1>4

(***************************************************************************)
(* Every reachable state of a request is well typed, and its token channel *)
(* is never longer than its capacity (startTokenStream).                   *)
(***************************************************************************)
THEOREM RequestTypes == Spec => []TypeOK
<1>1. StreamInv => TypeOK
  BY DEF StreamInv
<1> QED
  BY <1>1, StreamInvAlways, PTL

(***************************************************************************)
(* The client gets the tokens of the list in their order, none twice and   *)
(* none left out, up to the first marker, whoever reads the channel and    *)
(* wherever the goroutine stands (startTokenStream, drainTokens, handleSSE *)
(* and emitFlowTerminal).                                                  *)
(***************************************************************************)
THEOREM TokensAreConserved == Spec => []StreamConserved
BY StreamInvAlways, ConservedByInv, PTL

(***************************************************************************)
(* A client told in time that the flow has completed has got the whole     *)
(* stream and one completion of every step that succeeded                  *)
(* (emitFlowTerminal, emitStepEvents).                                     *)
(***************************************************************************)
THEOREM CompletedIsComplete == Spec => []CompletionIsComplete
BY StreamInvAlways, CompleteByInv, PTL

(***************************************************************************)
(* The last event is true of the flow and of the request's time; an error  *)
(* comes from a call that failed, or before anything was said of the flow  *)
(* (emitFlowTerminal, waitForFlow, handleSync, handleSSE).                 *)
(***************************************************************************)
THEOREM LastWordHolds == Spec => []LastWordIsTrue
<1>1. StreamInv => LastWordIsTrue
  BY DEF StreamInv, EndExact, FlowExact, UnseenExact, ErrorExact,
         LastWordIsTrue
<1> QED
  BY <1>1, StreamInvAlways, PTL
=============================================================================
