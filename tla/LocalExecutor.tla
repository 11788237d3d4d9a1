---------------------------- MODULE LocalExecutor ----------------------------
(***************************************************************************)
(* "ark run": a flow executed in one process, without a cluster or Redis   *)
(* (internal/ark/local/executor.go).  Run goes in passes: it evaluates the *)
(* loops, collects the ready steps, runs each in a goroutine of its own,   *)
(* and takes all of their results from a channel before the next pass.     *)
(*                                                                         *)
(* The flow is chosen from small sets in the initial state, and the logic  *)
(* of flows is the operator's (FlowLogic), instantiated with it.  Nothing  *)
(* validates the flow first: "ark run" does so only with --dry-run.  So    *)
(* dependencies may have cycles, and may name a step that does not exist.  *)
(***************************************************************************)
EXTENDS Integers, Sequences, SequencesExt, FiniteSets

CONSTANTS
  NSteps,          \* len(spec.steps)
  Output,          \* what an agent can answer
  Empty,           \* the empty text
  JSONOutput,      \* the answers that contain parseable JSON
  HasSchema,       \* the steps with an outputSchema
  Graphs,          \* the dependencies a flow may have: a sequence
  Conditions,      \* its "if" conditions: a sequence of IfHolds
  Loops,           \* its loops: a sequence of [holds, max]
  Limits,          \* its limits: a sequence of [tokens, timeout]
  MaxUsage,        \* bound: the tokens of one answer
  MaxTime          \* bound: the clock

VARIABLES
  chosen,    \* which of these the flow has
  st,        \* f.Status
  data,      \* templateData
  pc,        \* where Run is
  waiting,   \* the steps of the layer whose result has not been taken
  running,   \* the steps whose goroutine has not sent a result
  channel,   \* the results sent and not taken
  used,      \* Step -> the template data of its latest prompt
  clock

flowVars == <<st, data>>
layer == <<waiting, running, channel>>
vars == <<chosen, flowVars, pc, layer, used, clock>>

\* A name in dependsOn that no step has.
UnknownName == 0

\* The flow's spec.
DependsOn == Graphs[chosen.graph]

IfHolds == Conditions[chosen.condition]

LoopHolds == Loops[chosen.loop].holds

MaxIterations == Loops[chosen.loop].max

MaxTokens == Limits[chosen.limit].tokens

TimeoutSeconds == Limits[chosen.limit].timeout

\* Run ignores that the inputs of a step do not resolve.
InputFails == [s \in 1 .. NSteps |-> {}]

INSTANCE FlowLogic

ASSUME ExecutorAssumption ==
  /\ NSteps \in Nat \ {0}
  /\ JSONOutput \subseteq Output
  /\ Empty \notin JSONOutput
  /\ Graphs \in Seq([1 .. NSteps -> SUBSET (1 .. NSteps \union {UnknownName})])
  /\ \A k \in DOMAIN Loops : Loops[k].max \in [1 .. NSteps -> Nat]
  /\ \A k \in DOMAIN Limits :
       Limits[k].tokens \in Nat /\ Limits[k].timeout \in Nat
  /\ 1 \in DOMAIN Graphs /\ 1 \in DOMAIN Conditions
  /\ 1 \in DOMAIN Loops /\ 1 \in DOMAIN Limits
  /\ MaxUsage \in Nat
  /\ MaxTime \in Nat

Flow == [graph : DOMAIN Graphs, condition : DOMAIN Conditions,
         loop : DOMAIN Loops, limit : DOMAIN Limits]

RunInit ==
  /\ st = InitialStatus
  /\ data = NoData
  /\ pc = "init"
  /\ waiting = {}
  /\ running = {}
  /\ channel = <<>>
  /\ used = [s \in Step |-> NoData]
  /\ clock = 0

Init == chosen \in Flow /\ RunInit

Start ==
  /\ pc = "init"
  /\ st' = InitializeSteps(st, clock)
  /\ pc' = "pass"
  /\ UNCHANGED <<chosen, data, layer, used, clock>>

(***************************************************************************)
(* A pass, up to its goroutines.                                           *)
(***************************************************************************)
\* collectReadySteps looks at step s after those before it in the spec: a
\* step skipped a moment ago satisfies the ones behind it.
Consider(found, s, now) ==
  IF ~(found.steps[s].phase = "Pending" /\ DepsSucceeded(s, found.steps))
  THEN found
  ELSE IF now \notin IfHolds[s]
       THEN [found EXCEPT !.steps[s].phase = "Skipped"]
       ELSE [found EXCEPT !.ready = @ \union {s}]

CollectReadySteps(steps, now) ==
  FoldLeft(LAMBDA found, s : Consider(found, s, now),
           [steps |-> steps, ready |-> {}], [s \in Step |-> s])

\* Slip: the loops are evaluated after the ready steps are collected.
ReadyThenLoops(steps, now) ==
  LET found == CollectReadySteps(steps, now)
  IN [found EXCEPT !.steps = EvaluateLoops(@, now)]

LoopsThenReady(steps, now) ==
  CollectReadySteps(EvaluateLoops(steps, now), now)

Return ==
  /\ pc = "pass"
  /\ IsTerminalPhase(st.phase)
  /\ pc' = "done"
  /\ UNCHANGED <<chosen, flowVars, layer, used, clock>>

\* No step is ready: Run ends, in whatever phase the flow is now.
Stop ==
  /\ pc = "pass"
  /\ ~IsTerminalPhase(st.phase)
  /\ data' = BuildTemplateData(st.steps)
  /\ LET found == LoopsThenReady(st.steps, data')
     IN /\ found.ready = {}
        /\ st' = UpdateFlowPhase([st EXCEPT !.steps = found.steps],
                                 data', clock)
  /\ pc' = "done"
  /\ UNCHANGED <<chosen, layer, used, clock>>

\* Every ready step gets a goroutine.  A prompt that does
\* not resolve does not fail the step here.
Launch ==
  /\ pc = "pass"
  /\ ~IsTerminalPhase(st.phase)
  /\ data' = BuildTemplateData(st.steps)
  /\ LET found == LoopsThenReady(st.steps, data')
     IN /\ found.ready # {}
        /\ st' = [st EXCEPT !.steps = [s \in Step |->
                    IF s \in found.ready
                    THEN [found.steps[s] EXCEPT !.phase = "Running"]
                    ELSE found.steps[s]]]
        /\ waiting' = found.ready
        /\ running' = found.ready
        /\ used' = [s \in Step |-> IF s \in found.ready THEN data'
                                   ELSE used[s]]
  /\ pc' = "layer"
  /\ UNCHANGED <<chosen, channel, clock>>

(***************************************************************************)
(* The goroutines, and the results.                                        *)
(***************************************************************************)
Result == [ok : BOOLEAN, output : Output \union {Empty}, tokens : 0 .. MaxUsage]

Failure == [ok |-> FALSE, output |-> Empty, tokens |-> 0]

\* Slip: a step that failed sends no result.
SendIfOK(s, result) ==
  IF result.ok THEN Append(channel, <<s, result>>) ELSE channel

SendResult(s, result) == Append(channel, <<s, result>>)

\* runStep returns: the agent or its provider is missing, the model fails or
\* takes too long, or it answers.
RunStep(s) ==
  /\ s \in running
  /\ running' = running \ {s}
  /\ \/ channel' = SendResult(s, Failure)
     \/ \E output \in Output, tokens \in 0 .. MaxUsage :
          channel' = SendResult(s, [ok |-> TRUE, output |-> output,
                                    tokens |-> tokens])
  /\ UNCHANGED <<chosen, flowVars, pc, waiting, used, clock>>

Settle(step, result) ==
  IF result.ok
  THEN [step EXCEPT !.phase = "Succeeded", !.output = result.output,
                    !.tokens = result.tokens]
  ELSE [step EXCEPT !.phase = "Failed"]

\* The first result in the channel; the last one of a layer ends the pass.
TakeResult ==
  /\ pc = "layer"
  /\ channel # <<>>
  /\ LET s == Head(channel)[1]
         result == Head(channel)[2]
         steps == [st.steps EXCEPT ![s] = Settle(@, result)]
         parsed == ParseOutputJSON(steps)
     IN /\ waiting' = waiting \ {s}
        /\ \/ /\ waiting' # {}
              /\ st' = [st EXCEPT !.steps = steps]
              /\ UNCHANGED <<data, pc>>
           \/ /\ waiting' = {}
              /\ data' = BuildTemplateData(parsed)
              /\ st' = UpdateFlowPhase([st EXCEPT !.steps = parsed],
                                       data', clock)
              /\ pc' = "pass"
  /\ channel' = Tail(channel)
  /\ UNCHANGED <<chosen, running, used, clock>>

\* Time passes while the steps run.
Tick ==
  /\ running # {}
  /\ clock < MaxTime
  /\ clock' = clock + 1
  /\ UNCHANGED <<chosen, flowVars, pc, layer, used>>

Main == Start \/ Return \/ Stop \/ Launch \/ TakeResult

Next == Main \/ Tick \/ \E s \in Step : RunStep(s)

\* Run goes on, and every goroutine ends: its context has a deadline.
Fairness == WF_vars(Main) /\ \A s \in 1 .. NSteps : WF_vars(RunStep(s))

Spec == Init /\ [][Next]_vars /\ Fairness
-----------------------------------------------------------------------------
(***************************************************************************)
(* Properties.                                                             *)
(***************************************************************************)
\* The types; a layer's goroutines never have to wait for room in the
\* channel (its capacity is the number of ready steps).
TypeOK ==
  /\ st \in FlowStatus
  /\ data \in TemplateData
  /\ pc \in {"init", "pass", "layer", "done"}
  /\ waiting \subseteq Step
  /\ running \subseteq waiting
  /\ channel \in Seq(Step \X Result)
  /\ {channel[k][1] : k \in DOMAIN channel} = waiting \ running
  /\ Len(channel) = Cardinality(waiting \ running)
  /\ used \in [Step -> TemplateData]
  /\ clock \in 0 .. MaxTime

\* No loop condition reads another step than its own.
LoopsReadOnlyThemselves ==
  {k \in DOMAIN Loops :
     \A s \in 1 .. NSteps, d, e \in TemplateData :
       d[s] = e[s] => (d \in Loops[k].holds[s]) = (e \in Loops[k].holds[s])}

\* A step that runs or has run did so on the final answers of what it
\* depends on: every dependency is a step, no loop has repeated one of them
\* since, and their parsed output was there.  (Run evaluates loops before it
\* collects; a condition that reads other steps can repeat a step whose
\* dependents have run.)  The exception is a step whose loop went on and
\* whose "if" skipped it in the same pass: its answer is gone, but was in
\* the template data.
FreshInputs ==
  chosen.loop \in LoopsReadOnlyThemselves =>
    \A s \in Step :
      st.steps[s].phase \in {"Running", "Succeeded"} =>
        \A d \in DependsOn[s] :
          /\ d \in Step
          /\ StepDone(st.steps[d])
          /\ \/ used[s][d] = BuildTemplateData(st.steps)[d]
             \/ /\ st.steps[d].phase = "Skipped"
                /\ st.steps[d].iterations > 0

\* Run returns a flow that has ended, with nothing of it running, except
\* when every step that is left waits for one that does not exist, for
\* another that is left, or for one that was skipped behind its back:
\* collectReadySteps had passed it over before it skipped a later step of
\* the spec, and found no other step ready.  (The CLI reports such a flow as
\* Running, and exits with 0.)
StopsForAReason ==
  pc = "done" =>
    LET left == {s \in Step : st.steps[s].phase = "Pending"}
    IN /\ \A s \in Step : st.steps[s].phase # "Running"
       /\ st.phase = "Succeeded" => left = {}
       /\ \/ IsTerminalPhase(st.phase)
          \/ /\ left # {}
             /\ \A s \in left : \E d \in DependsOn[s] :
                  \/ d = UnknownName
                  \/ d \in left
                  \/ d > s /\ st.steps[d].phase = "Skipped"
=============================================================================
