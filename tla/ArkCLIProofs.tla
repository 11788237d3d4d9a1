---------------------------- MODULE ArkCLIProofs -----------------------------
(***************************************************************************)
(* Theorems about the ark command, for every flow: the verdict of a        *)
(* validation, what an exit code says, and of a run its types, the         *)
(* inputs of its steps and why it ends.                                    *)
(***************************************************************************)
EXTENDS ArkCLI, FlowValidationProofs, FiniteSetTheorems,
        WellFoundedInduction

(***************************************************************************)
(* The search of the command is that of ValidateDAG; a run leaves it as    *)
(* it was, with no steps.                                                  *)
(***************************************************************************)
LEMMA CLISearchInit == CLIInit => SearchInv
<1> SUFFICES ASSUME CLIInit PROVE SearchInv
  OBVIOUS
<1>1. CASE command = "run"
  <2>1. name = <<>> /\ dependsOn = <<>> /\ SearchInit
    BY <1>1 DEF CLIInit
  <2>2. name \in [1 .. 0 -> Name] /\ DOMAIN name = 1 .. 0
    BY <2>1
  <2>3. dependsOn \in [DOMAIN name -> SUBSET Name]
    BY <2>1, <2>2
  <2>4. 0 \in 0 .. MaxSteps
    BY ValidationAssumption
  <2> QED
    BY <2>1, <2>2, <2>3, <2>4, SearchInvInit DEF ValidationInit
<1>2. CASE command = "validate"
  BY <1>2, SearchInvInit DEF CLIInit
<1> QED
  BY <1>1, <1>2 DEF CLIInit

LEMMA CLISearchStep ==
  SearchInv /\ [CLINext]_cliVars => SearchInv'
<1> SUFFICES ASSUME SearchInv, [CLINext]_cliVars PROVE SearchInv'
  OBVIOUS
<1>1. [ValidationNext]_validationVars
  BY DEF CLINext, Execute, Validate, PrintResult, PrintVerdict, cliVars
<1> QED
  BY <1>1, SearchInvStep

(***************************************************************************)
(* The colours and the verdict are right, in the command as in the search  *)
(* alone.  (ValidateDAG, dryRun.)                                          *)
(***************************************************************************)
THEOREM CLISearches == CLISpec => [](ColorsTellPath /\ VerdictIsRight)
<1>1. SearchInv => ColorsTellPath /\ VerdictIsRight
  BY DEF SearchInv
<1> QED
  BY <1>1, CLISearchInit, CLISearchStep, PTL DEF CLISpec

(***************************************************************************)
(* The status is a record, whatever its steps are: the steps go through a  *)
(* fold over the spec (collectReadySteps), of which nothing is needed here.*)
(***************************************************************************)
IsStatus(x) ==
  x \in [phase : FlowPhase, start : {x.start}, reason : {x.reason},
         steps : {x.steps}, output : {x.output}]

Ended == {"Succeeded", "Failed"}

(***************************************************************************)
(* What UpdateFlowPhase makes of a running flow.                           *)
(***************************************************************************)
LEMMA PhaseOfRunning ==
  ASSUME NEW x, IsStatus(x), x.phase = "Running", NEW d, NEW now
  PROVE  LET y == UpdateFlowPhase(x, d, now)
         IN /\ IsStatus(y)
            /\ y.phase \in Ended \union {"Running"}
            /\ y.phase = "Succeeded" =>
                 AllDone(y.steps) /\ ~SomeFailed(y.steps)
            /\ y.phase = "Running" => ~SomeFailed(y.steps)
<1> DEFINE y == UpdateFlowPhase(x, d, now)
<1>1. y.steps = x.steps
  BY DEF UpdateFlowPhase, EndAs, IsStatus
<1>2. \/ y = EndAs(x, "Failed", "TimedOut")
      \/ y = EndAs(x, "Failed", "BudgetExceeded")
      \/ y = EndAs(x, "Failed", "StepFailed")
      \/ /\ y = [EndAs(x, "Succeeded", "Succeeded") EXCEPT !.output = d]
         /\ ~SomeFailed(x.steps)
         /\ AllDone(x.steps)
      \/ /\ y = x
         /\ ~SomeFailed(x.steps)
  BY DEF UpdateFlowPhase
<1>3. CASE \E r \in {"TimedOut", "BudgetExceeded", "StepFailed"} :
             y = EndAs(x, "Failed", r)
  <2>1. y.phase = "Failed" /\ IsStatus(y)
    BY <1>3 DEF EndAs, IsStatus, FlowPhase
  <2> QED
    BY <2>1 DEF Ended
<1>4. CASE /\ y = [EndAs(x, "Succeeded", "Succeeded") EXCEPT !.output = d]
           /\ ~SomeFailed(x.steps)
           /\ AllDone(x.steps)
  <2>1. y.phase = "Succeeded" /\ IsStatus(y)
    BY <1>4 DEF EndAs, IsStatus, FlowPhase
  <2> QED
    BY <1>1, <1>4, <2>1 DEF Ended
<1>5. CASE y = x /\ ~SomeFailed(x.steps)
  BY <1>5 DEF Ended
<1> QED
  BY <1>2, <1>3, <1>4, <1>5

(***************************************************************************)
(* The inductive invariant of a run: a flow that has succeeded is done     *)
(* and has no failed step, a layer is run by a flow that has not ended,    *)
(* and Run leaves no running flow with a failed step behind.               *)
(***************************************************************************)
RunInv ==
  /\ IsStatus(st)
  /\ pc \in {"init", "pass", "layer", "done"}
  /\ pc = "init" => st = InitialStatus
  /\ pc # "init" => st.phase \in Ended \union {"Running"}
  /\ pc = "layer" => st.phase = "Running"
  /\ st.phase = "Succeeded" => AllDone(st.steps) /\ ~SomeFailed(st.steps)
  /\ (pc = "done" /\ st.phase = "Running") => ~SomeFailed(st.steps)

LEMMA RunInvInit == RunInit => RunInv
<1> SUFFICES ASSUME RunInit PROVE RunInv
  OBVIOUS
<1>1. st = InitialStatus /\ pc = "init"
  BY DEF RunInit
<1>2. IsStatus(st) /\ st.phase # "Succeeded"
  BY <1>1 DEF IsStatus, InitialStatus, FlowPhase
<1> QED
  BY <1>1, <1>2 DEF RunInv

LEMMA RunInvStep == RunInv /\ [Next]_vars => RunInv'
<1> SUFFICES ASSUME RunInv, [Next]_vars PROVE RunInv'
  OBVIOUS
<1>1. CASE UNCHANGED <<st, pc>>
  BY <1>1 DEF RunInv, IsStatus, AllDone, SomeFailed, StepDone
<1>2. CASE Start
  <2>1. /\ st = InitialStatus
        /\ st' = InitializeSteps(st, clock)
        /\ pc' = "pass"
    BY <1>2 DEF Start, RunInv
  <2>2. st'.phase = "Running" /\ IsStatus(st')
    BY <2>1 DEF InitializeSteps, InitialStatus, IsStatus, FlowPhase
  <2> QED
    BY <2>1, <2>2 DEF RunInv, Ended
<1>3. CASE Return
  <2>1. /\ pc = "pass"
        /\ st.phase \in Ended
        /\ st' = st
        /\ pc' = "done"
    BY <1>3 DEF Return, IsTerminalPhase, Ended, flowVars
  <2> QED
    BY <2>1 DEF RunInv, Ended, IsStatus, AllDone, SomeFailed, StepDone
<1>4. CASE Stop
  <2> DEFINE found == LoopsThenReady(st.steps, data')
             looked == [st EXCEPT !.steps = found.steps]
  <2>1. /\ pc = "pass"
        /\ ~IsTerminalPhase(st.phase)
        /\ st' = UpdateFlowPhase(looked, data', clock)
        /\ pc' = "done"
    BY <1>4 DEF Stop
  <2>2. st.phase = "Running" /\ IsStatus(st)
    BY <2>1 DEF RunInv, IsTerminalPhase, Ended
  <2>3. looked.phase = "Running" /\ IsStatus(looked)
    BY <2>2 DEF IsStatus
  <2> HIDE DEF looked
  <2>4. /\ IsStatus(st')
        /\ st'.phase \in Ended \union {"Running"}
        /\ st'.phase = "Succeeded" =>
             AllDone(st'.steps) /\ ~SomeFailed(st'.steps)
        /\ st'.phase = "Running" => ~SomeFailed(st'.steps)
    BY <2>1, <2>3, PhaseOfRunning
  <2> QED
    BY <2>1, <2>4 DEF RunInv
<1>5. CASE Launch
  <2>1. /\ pc = "pass"
        /\ ~IsTerminalPhase(st.phase)
        /\ \E steps : st' = [st EXCEPT !.steps = steps]
        /\ pc' = "layer"
    BY <1>5 DEF Launch
  <2>2. st.phase = "Running" /\ IsStatus(st)
    BY <2>1 DEF RunInv, IsTerminalPhase, Ended
  <2>3. st'.phase = "Running" /\ IsStatus(st')
    BY <2>1, <2>2 DEF IsStatus
  <2> QED
    BY <2>1, <2>3 DEF RunInv, Ended
<1>6. CASE TakeResult
  <2>1. pc = "layer" /\ st.phase = "Running" /\ IsStatus(st)
    BY <1>6 DEF TakeResult, RunInv
  <2>2. PICK steps, parsed :
          \/ /\ st' = [st EXCEPT !.steps = steps]
             /\ pc' = pc
          \/ /\ st' = UpdateFlowPhase([st EXCEPT !.steps = parsed],
                                      data', clock)
             /\ pc' = "pass"
    BY <1>6 DEF TakeResult
  <2>3. CASE st' = [st EXCEPT !.steps = steps] /\ pc' = pc
    <3>1. st'.phase = "Running" /\ IsStatus(st')
      BY <2>1, <2>3 DEF IsStatus
    <3> QED
      BY <2>1, <2>3, <3>1 DEF RunInv, Ended
  <2>4. CASE /\ st' = UpdateFlowPhase([st EXCEPT !.steps = parsed],
                                      data', clock)
             /\ pc' = "pass"
    <3> DEFINE all == [st EXCEPT !.steps = parsed]
    <3>1. all.phase = "Running" /\ IsStatus(all)
      BY <2>1 DEF IsStatus
    <3>2. st' = UpdateFlowPhase(all, data', clock)
      BY <2>4
    <3> HIDE DEF all
    <3>3. /\ IsStatus(st')
          /\ st'.phase \in Ended \union {"Running"}
          /\ st'.phase = "Succeeded" =>
               AllDone(st'.steps) /\ ~SomeFailed(st'.steps)
      BY <3>1, <3>2, PhaseOfRunning
    <3> QED
      BY <2>4, <3>3 DEF RunInv
  <2> QED
    BY <2>2, <2>3, <2>4
<1>7. CASE Tick
  BY <1>1, <1>7 DEF Tick, flowVars
<1>8. CASE \E s \in Step : RunStep(s)
  BY <1>1, <1>8 DEF RunStep, flowVars
<1>9. CASE UNCHANGED vars
  BY <1>1, <1>9 DEF vars, flowVars
<1> QED
  BY <1>2, <1>3, <1>4, <1>5, <1>6, <1>7, <1>8, <1>9 DEF Next, Main

(***************************************************************************)
(* An exit code comes after a verdict, and is 0 if it is valid and all     *)
(* agents are there, or after a run has returned, and is 0 if the flow has *)
(* not failed.  Neither changes again.                                     *)
(***************************************************************************)
ExitInv ==
  /\ command \in {"run", "validate"}
  /\ exit # Running =>
       IF command = "validate"
       THEN verdict # "none" /\ (exit = 0 <=> Valid)
       ELSE pc = "done" /\ (exit = 0 <=> st.phase # "Failed")

CLIInv == SearchInv /\ RunInv /\ ExitInv

LEMMA CLIInvInit == CLIInit => CLIInv
<1> SUFFICES ASSUME CLIInit PROVE CLIInv
  OBVIOUS
<1>1. RunInit /\ exit = Running /\ command \in {"run", "validate"}
  BY DEF CLIInit
<1>2. ExitInv
  BY <1>1 DEF ExitInv
<1> QED
  BY <1>1, <1>2, CLISearchInit, RunInvInit DEF CLIInv

LEMMA CLIInvStep == CLIInv /\ [CLINext]_cliVars => CLIInv'
<1> SUFFICES ASSUME CLIInv, [CLINext]_cliVars PROVE CLIInv'
  OBVIOUS
<1>1. SearchInv'
  BY CLISearchStep DEF CLIInv
<1>2. RunInv'
  <2>1. [Next]_vars
    BY DEF CLINext, Execute, Validate, PrintResult, PrintVerdict, cliVars
  <2> QED
    BY <2>1, RunInvStep DEF CLIInv
<1>3. ExitInv'
  <2>1. CASE Execute(Next)
    <3>1. UNCHANGED <<command, missing, exit, verdict>> /\ Next
          /\ command = "run"
      BY <2>1 DEF Execute, shell, validationVars
    <3>2. pc = "done" => UNCHANGED <<pc, st>>
      BY <3>1 DEF Next, Main, Start, Return, Stop, Launch, TakeResult, Tick,
                  RunStep, flowVars
    <3>3. Valid' = Valid
      BY <3>1 DEF Valid
    <3> QED
      BY <3>1, <3>2, <3>3 DEF CLIInv, ExitInv, Running
  <2>2. CASE Validate
    <3>1. UNCHANGED <<command, missing, exit, pc, st>> /\ ValidationNext
      BY <2>2 DEF Validate, shell, vars, flowVars
    <3>2. verdict = "none"
      BY <3>1 DEF ValidationNext, RejectUnknown, Blacken, Accept, VisitRoot,
                  FindCycle, VisitNext, PassOver, LooksAt
    <3> QED
      BY <2>2, <3>1, <3>2 DEF CLIInv, ExitInv, Validate, Running
  <2>3. CASE PrintResult
    <3>1. /\ UNCHANGED <<command, missing, verdict, pc, st>>
          /\ command = "run"
          /\ pc = "done"
          /\ exit' = 0 <=> st.phase # "Failed"
      BY <2>3 DEF PrintResult, vars, flowVars, validationVars
    <3> QED
      BY <3>1 DEF ExitInv
  <2>4. CASE PrintVerdict
    <3>1. /\ UNCHANGED <<command, missing, verdict, pc, st>>
          /\ command = "validate"
          /\ verdict # "none"
          /\ exit' = 0 <=> Valid
      BY <2>4 DEF PrintVerdict, vars, flowVars, validationVars
    <3>2. Valid' = Valid
      BY <3>1 DEF Valid
    <3> QED
      BY <3>1, <3>2 DEF ExitInv
  <2>5. CASE UNCHANGED cliVars
    <3>1. UNCHANGED <<command, missing, exit, verdict, pc, st>>
      BY <2>5 DEF cliVars, shell, vars, flowVars, validationVars
    <3>2. Valid' = Valid
      BY <3>1 DEF Valid
    <3> QED
      BY <3>1, <3>2 DEF CLIInv, ExitInv, Running
  <2> QED
    BY <2>1, <2>2, <2>3, <2>4, <2>5 DEF CLINext
<1> QED
  BY <1>1, <1>2, <1>3 DEF CLIInv

LEMMA CLIInvAlways == CLISpec => []CLIInv
BY CLIInvInit, CLIInvStep, PTL DEF CLISpec

-----------------------------------------------------------------------------
(***************************************************************************)
(* What a pass makes of the steps.                                         *)
(***************************************************************************)
\* Induction over the natural numbers, for a set of them.
LEMMA NatIsInduced ==
  ASSUME NEW P, 0 \in P, \A n \in Nat : n \in P => n + 1 \in P
  PROVE  Nat \subseteq P
<1> SUFFICES ASSUME Nat \ P # {} PROVE FALSE
  OBVIOUS
<1> DEFINE R == OpToRel(<, Nat)
<1>1. IsWellFoundedOn(R, Nat)
  BY NatLessThanWellFounded
<1>2. \A x, y \in Nat : <<y, x>> \in R <=> y < x
  BY DEF OpToRel
<1> HIDE DEF R
<1>3. PICK n \in Nat \ P : \A m \in Nat \ P : ~ (<<m, n>> \in R)
  BY <1>1, WFMin
<1>4. n # 0 /\ n - 1 \in Nat /\ n - 1 < n
  BY <1>3
<1>5. n - 1 \in P
  BY <1>2, <1>3, <1>4
<1>6. (n - 1) + 1 \in P
  BY <1>4, <1>5
<1> QED
  BY <1>3, <1>6

\* collectReadySteps before it looks at the first step.
Unlooked(steps) == [steps |-> steps, ready |-> {}]

\* The order of the spec.
InOrder == [s \in Step |-> s]

\* The recursion of FoldLeft, over the steps of the spec in T.
Turn(h, T, steps, now) ==
  IF T = {} THEN Unlooked(steps)
  ELSE Consider(h[T \ {Max(T)}], InOrder[Max(T)], now)

Turns(h, n, steps, now) ==
  h = [T \in SUBSET (1 .. n) |-> Turn(h, T, steps, now)]

\* The greatest of a set of numbers.
LEMMA MaxIsLast ==
  ASSUME NEW n \in Nat, NEW T \in SUBSET (1 .. n), n \in T
  PROVE  Max(T) = n
<1>1. n \in T /\ \A y \in T : n >= y
  OBVIOUS
<1>2. \A x \in T : (\A y \in T : x >= y) => x = n
  OBVIOUS
<1> QED
  BY <1>1, <1>2 DEF Max

(***************************************************************************)
(* The recursion of FoldLeft defines a function.                           *)
(***************************************************************************)
LEMMA TurnsExist ==
  ASSUME NEW steps, NEW now
  PROVE  \A n \in Nat : \E h : Turns(h, n, steps, now)
<1> DEFINE P == {n \in Nat : \E h : Turns(h, n, steps, now)}
<1>1. 0 \in P
  <2> DEFINE h == [T \in SUBSET (1 .. 0) |-> Unlooked(steps)]
  <2>1. \A T \in SUBSET (1 .. 0) : T = {}
    OBVIOUS
  <2>2. \A T \in SUBSET (1 .. 0) : h[T] = Turn(h, T, steps, now)
    BY <2>1 DEF Turn
  <2>3. Turns(h, 0, steps, now)
    BY <2>2 DEF Turns
  <2> HIDE DEF h
  <2> QED
    BY <2>3
<1>2. ASSUME NEW n \in Nat, n \in P PROVE n + 1 \in P
  <2>1. PICK g : Turns(g, n, steps, now)
    BY <1>2
  <2> DEFINE h == [T \in SUBSET (1 .. (n + 1)) |->
                     IF n + 1 \in T
                     THEN Consider(g[T \ {n + 1}], InOrder[n + 1], now)
                     ELSE g[T]]
  <2>2. \A T \in SUBSET (1 .. n) : h[T] = g[T]
    <3>1. \A T \in SUBSET (1 .. n) :
            T \in SUBSET (1 .. (n + 1)) /\ n + 1 \notin T
      OBVIOUS
    <3> QED
      BY <3>1
  <2>3. ASSUME NEW T \in SUBSET (1 .. (n + 1))
        PROVE  h[T] = Turn(h, T, steps, now)
    <3>1. CASE n + 1 \in T
      <4>1. Max(T) = n + 1
        BY <3>1, MaxIsLast
      <4>2. T \ {n + 1} \in SUBSET (1 .. n)
        OBVIOUS
      <4>3. h[T \ {n + 1}] = g[T \ {n + 1}]
        BY <2>2, <4>2
      <4>4. h[T] = Consider(g[T \ {n + 1}], InOrder[n + 1], now)
        BY <3>1
      <4> HIDE DEF h
      <4> QED
        BY <3>1, <4>1, <4>3, <4>4 DEF Turn
    <3>2. CASE n + 1 \notin T
      <4>1. \A i \in 1 .. (n + 1) : i # n + 1 => i \in 1 .. n
        OBVIOUS
      <4>2. T \in SUBSET (1 .. n)
        BY <3>2, <4>1
      <4>3. T \ {Max(T)} \in SUBSET (1 .. n)
        BY <4>2
      <4>4. h[T] = g[T] /\ h[T \ {Max(T)}] = g[T \ {Max(T)}]
        BY <2>2, <4>2, <4>3
      <4>5. g[T] = Turn(g, T, steps, now)
        BY <2>1, <4>2 DEF Turns
      <4> HIDE DEF h
      <4> QED
        BY <4>4, <4>5 DEF Turn
    <3> QED
      BY <3>1, <3>2
  <2>4. Turns(h, n + 1, steps, now)
    BY <2>3 DEF Turns
  <2> HIDE DEF h
  <2> QED
    BY <2>4
<1> HIDE DEF P
<1>3. Nat \subseteq P
  BY <1>1, <1>2, NatIsInduced
<1> QED
  BY <1>3 DEF P

(***************************************************************************)
(* collectReadySteps looks at one step after the other.                    *)
(***************************************************************************)
LEMMA LooksInOrder ==
  ASSUME NEW steps, NEW now
  PROVE  \E g : /\ g[0] = Unlooked(steps)
                /\ \A k \in Step : g[k] = Consider(g[k - 1], k, now)
                /\ CollectReadySteps(steps, now) = g[NSteps]
<1>1. NSteps \in Nat \ {0}
  BY ExecutorAssumption
<1> DEFINE F(h) == [T \in SUBSET DOMAIN InOrder |->
                      IF T = {} THEN Unlooked(steps)
                      ELSE Consider(h[T \ {Max(T)}], InOrder[Max(T)], now)]
<1>2. CollectReadySteps(steps, now) = (CHOOSE h : h = F(h))[DOMAIN InOrder]
  BY DEF CollectReadySteps, FoldLeft, MapThenFoldSet, Unlooked, InOrder
<1>3. DOMAIN InOrder = 1 .. NSteps
  BY DEF InOrder, Step
<1>4. \E h : h = F(h)
  <2>1. PICK h : Turns(h, NSteps, steps, now)
    BY <1>1, TurnsExist
  <2>2. h = F(h)
    BY <1>3, <2>1 DEF Turns, Turn
  <2> QED
    BY <2>2
<1>5. PICK h : h = (CHOOSE f : f = F(f)) /\ h = F(h)
  BY <1>4
<1>6. Turns(h, NSteps, steps, now)
  BY <1>3, <1>5 DEF Turns, Turn
<1> HIDE DEF F
<1> DEFINE g == [k \in 0 .. NSteps |-> h[1 .. k]]
<1>7. g[0] = Unlooked(steps)
  <2>1. 1 .. 0 = {} /\ {} \in SUBSET (1 .. NSteps) /\ 0 \in 0 .. NSteps
    BY <1>1
  <2>2. h[{}] = Turn(h, {}, steps, now)
    BY <1>6, <2>1 DEF Turns
  <2> QED
    BY <2>1, <2>2 DEF Turn
<1>8. ASSUME NEW k \in Step PROVE g[k] = Consider(g[k - 1], k, now)
  <2>1. /\ k \in 1 .. NSteps /\ k \in 0 .. NSteps /\ k - 1 \in 0 .. NSteps
        /\ 1 .. k \in SUBSET (1 .. NSteps) /\ k \in 1 .. k /\ k \in Nat
    BY <1>1 DEF Step
  <2>2. (1 .. k) \ {k} = 1 .. (k - 1)
    BY <2>1
  <2>3. Max(1 .. k) = k
    BY <2>1, MaxIsLast
  <2>4. InOrder[k] = k
    BY DEF InOrder
  <2>5. h[1 .. k] = Turn(h, 1 .. k, steps, now)
    BY <1>6, <2>1 DEF Turns
  <2>6. Turn(h, 1 .. k, steps, now) = Consider(h[1 .. (k - 1)], k, now)
    BY <2>1, <2>2, <2>3, <2>4 DEF Turn
  <2>7. g[k] = h[1 .. k] /\ g[k - 1] = h[1 .. (k - 1)]
    BY <2>1
  <2> QED
    BY <2>5, <2>6, <2>7
<1>9. CollectReadySteps(steps, now) = g[NSteps]
  <2>1. g[NSteps] = h[1 .. NSteps]
    BY <1>1
  <2> QED
    BY <1>2, <1>3, <1>5, <2>1
<1> HIDE DEF g
<1> QED
  BY <1>7, <1>8, <1>9


(***************************************************************************)
(* What collectReadySteps has done when it has looked at the first k       *)
(* steps: it has skipped some that were pending, found some ready whose    *)
(* dependencies are done, and passed over those that waited for another,   *)
(* which it may have skipped since.                                        *)
(***************************************************************************)
FoundReady(found, k, steps) ==
  \A s \in found.ready :
    /\ s <= k
    /\ steps[s].phase = "Pending"
    /\ found.steps[s] = steps[s]
    /\ DepsSucceeded(s, found.steps)

FoundSkipped(found, k, steps) ==
  \A s \in Step :
    \/ found.steps[s] = steps[s]
    \/ /\ s <= k
       /\ steps[s].phase = "Pending"
       /\ found.steps[s] = [steps[s] EXCEPT !.phase = "Skipped"]

PassedOver(found, k) ==
  \A s \in Step \ found.ready :
    s <= k /\ found.steps[s].phase = "Pending" =>
      \E d \in DependsOn[s] :
        \/ d \notin Step
        \/ ~StepDone(found.steps[d])
        \/ d > s /\ found.steps[d].phase = "Skipped"

Considered(found, k, steps) ==
  /\ found = [steps |-> found.steps, ready |-> found.ready]
  /\ found.steps \in [Step -> StepStatus]
  /\ found.ready \subseteq Step
  /\ FoundReady(found, k, steps)
  /\ FoundSkipped(found, k, steps)
  /\ PassedOver(found, k)

\* The flow that was chosen is one of those that the constants describe.
LEMMA ChosenTypes ==
  ASSUME chosen \in Flow
  PROVE  /\ DependsOn \in [Step -> SUBSET (Step \union {UnknownName})]
         /\ MaxIterations \in [Step -> Nat]
         /\ MaxTokens \in Nat /\ TimeoutSeconds \in Nat
         /\ NSteps \in Nat /\ Step = 1 .. NSteps
<1>1. /\ chosen.graph \in DOMAIN Graphs
      /\ chosen.loop \in DOMAIN Loops
      /\ chosen.limit \in DOMAIN Limits
  BY DEF Flow
<1>2. /\ Graphs[chosen.graph]
              \in [1 .. NSteps -> SUBSET (1 .. NSteps \union {UnknownName})]
      /\ NSteps \in Nat
  <2> DEFINE G == [1 .. NSteps -> SUBSET (1 .. NSteps \union {UnknownName})]
  <2>1. Graphs \in Seq(G) /\ NSteps \in Nat
    BY ExecutorAssumption
  <2> HIDE DEF G
  <2>2. Graphs[chosen.graph] \in G
    BY <1>1, <2>1
  <2> QED
    BY <2>1, <2>2 DEF G
<1>3. /\ Loops[chosen.loop].max \in [1 .. NSteps -> Nat]
      /\ Limits[chosen.limit].tokens \in Nat
      /\ Limits[chosen.limit].timeout \in Nat
  BY <1>1, ExecutorAssumption
<1> QED
  BY <1>2, <1>3
     DEF DependsOn, MaxIterations, MaxTokens, TimeoutSeconds, Step

\* A step that is skipped has the type of a step.
LEMMA SkippedStep ==
  ASSUME NEW x \in StepStatus
  PROVE  LET y == [x EXCEPT !.phase = "Skipped"]
         IN /\ y \in StepStatus
            /\ y.phase = "Skipped"
            /\ y.output = x.output /\ y.json = x.json
            /\ y.iterations = x.iterations
BY DEF StepStatus, StepPhase

\* One more step is looked at.
LEMMA ConsiderKeeps ==
  ASSUME chosen \in Flow, NEW steps \in [Step -> StepStatus], NEW now,
         NEW k \in Step, NEW found, Considered(found, k - 1, steps)
  PROVE  Considered(Consider(found, k, now), k, steps)
<1> DEFINE new == Consider(found, k, now)
<1>1. /\ DependsOn \in [Step -> SUBSET (Step \union {UnknownName})]
      /\ \A s \in Step : s \in Int /\ (s <= k - 1 => s <= k)
      /\ \A s \in Step : s <= k => s <= k - 1 \/ s = k
      /\ \A s \in Step : s <= k - 1 => k > s
      /\ ~(k <= k - 1) /\ k <= k
  BY ChosenTypes
<1>2. /\ found = [steps |-> found.steps, ready |-> found.ready]
      /\ found.steps \in [Step -> StepStatus]
      /\ found.ready \subseteq Step
      /\ FoundReady(found, k - 1, steps)
      /\ FoundSkipped(found, k - 1, steps)
      /\ PassedOver(found, k - 1)
  BY DEF Considered
<1>3. found.steps[k] = steps[k] /\ k \notin found.ready
  BY <1>1, <1>2 DEF FoundReady, FoundSkipped
<1>4. CASE ~(found.steps[k].phase = "Pending"
             /\ DepsSucceeded(k, found.steps))
  <2>1. new = found
    BY <1>4 DEF Consider
  <2>2. found.steps[k].phase = "Pending" =>
          \E d \in DependsOn[k] : d \notin Step \/ ~StepDone(found.steps[d])
    BY <1>4 DEF DepsSucceeded
  <2>3. PassedOver(found, k)
    BY <1>1, <1>2, <2>2 DEF PassedOver
  <2>4. FoundReady(found, k, steps) /\ FoundSkipped(found, k, steps)
    BY <1>1, <1>2 DEF FoundReady, FoundSkipped
  <2> QED
    BY <1>2, <2>1, <2>3, <2>4 DEF Considered
<1>5. CASE /\ found.steps[k].phase = "Pending"
           /\ DepsSucceeded(k, found.steps)
           /\ now \in IfHolds[k]
  <2>1. new = [found EXCEPT !.ready = @ \union {k}]
    BY <1>5 DEF Consider
  <2>2. /\ new.steps = found.steps
        /\ new.ready = found.ready \union {k}
        /\ new = [steps |-> new.steps, ready |-> new.ready]
    BY <1>2, <2>1
  <2> HIDE DEF new
  <2>3. FoundReady(new, k, steps)
    BY <1>1, <1>2, <1>3, <1>5, <2>2 DEF FoundReady
  <2>4. FoundSkipped(new, k, steps)
    BY <1>1, <1>2, <2>2 DEF FoundSkipped
  <2>5. PassedOver(new, k)
    BY <1>1, <1>2, <2>2 DEF PassedOver
  <2>6. Considered(new, k, steps)
    BY <1>2, <2>2, <2>3, <2>4, <2>5 DEF Considered
  <2> QED
    BY <2>6 DEF new
<1>6. CASE /\ found.steps[k].phase = "Pending"
           /\ DepsSucceeded(k, found.steps)
           /\ now \notin IfHolds[k]
  <2> DEFINE x == [steps[k] EXCEPT !.phase = "Skipped"]
  <2>1. new = [found EXCEPT !.steps[k].phase = "Skipped"]
    BY <1>6 DEF Consider
  <2>2. /\ new = [steps |-> new.steps, ready |-> new.ready]
        /\ new.ready = found.ready
        /\ new.steps = [found.steps EXCEPT ![k] = x]
    BY <1>2, <1>3, <2>1
  <2>3. x \in StepStatus /\ x.phase = "Skipped" /\ StepDone(x)
    BY SkippedStep DEF StepDone
  <2>4. new.steps \in [Step -> StepStatus]
    BY <1>2, <2>2, <2>3
  <2>5. /\ new.steps[k] = x
        /\ \A s \in Step : s # k => new.steps[s] = found.steps[s]
    BY <1>2, <2>2
  <2> HIDE DEF new
  <2>6. \A s \in Step : StepDone(found.steps[s]) => StepDone(new.steps[s])
    BY <2>3, <2>5
  <2>7. FoundReady(new, k, steps)
    <3> SUFFICES ASSUME NEW s \in new.ready
                 PROVE  /\ s <= k
                        /\ steps[s].phase = "Pending"
                        /\ new.steps[s] = steps[s]
                        /\ DepsSucceeded(s, new.steps)
      BY DEF FoundReady
    <3>1. s \in found.ready /\ s # k /\ s \in Step
      BY <1>2, <1>3, <2>2
    <3> QED
      BY <1>1, <1>2, <2>5, <2>6, <3>1 DEF FoundReady, DepsSucceeded
  <2>8. FoundSkipped(new, k, steps)
    BY <1>1, <1>2, <1>3, <1>6, <2>5 DEF FoundSkipped
  <2> HIDE DEF x
  <2>9. PassedOver(new, k)
    <3> SUFFICES ASSUME NEW s \in Step \ new.ready, s <= k,
                        new.steps[s].phase = "Pending"
                 PROVE  \E d \in DependsOn[s] :
                          \/ d \notin Step
                          \/ ~StepDone(new.steps[d])
                          \/ d > s /\ new.steps[d].phase = "Skipped"
      BY DEF PassedOver
    <3>1. s # k /\ s <= k - 1 /\ found.steps[s].phase = "Pending"
      BY <1>1, <2>3, <2>5
    <3>2. PICK d \in DependsOn[s] :
            \/ d \notin Step
            \/ ~StepDone(found.steps[d])
            \/ d > s /\ found.steps[d].phase = "Skipped"
      BY <1>2, <2>2, <3>1 DEF PassedOver
    <3>3. k > s
      BY <1>1, <3>1
    <3> QED
      BY <2>3, <2>5, <3>2, <3>3
  <2>10. Considered(new, k, steps)
    BY <1>2, <2>2, <2>4, <2>7, <2>8, <2>9 DEF Considered
  <2> QED
    BY <2>10 DEF new
<1> QED
  BY <1>4, <1>5, <1>6

(***************************************************************************)
(* What collectReadySteps has done when it returns.                        *)
(***************************************************************************)
LEMMA CollectConsiders ==
  ASSUME chosen \in Flow, NEW steps \in [Step -> StepStatus], NEW now
  PROVE  Considered(CollectReadySteps(steps, now), NSteps, steps)
<1>1. PICK g : /\ g[0] = Unlooked(steps)
               /\ \A k \in Step : g[k] = Consider(g[k - 1], k, now)
               /\ CollectReadySteps(steps, now) = g[NSteps]
  BY LooksInOrder
<1>2. NSteps \in Nat /\ Step = 1 .. NSteps
  BY ChosenTypes
<1> DEFINE P == {n \in Nat : n <= NSteps => Considered(g[n], n, steps)}
<1>3. 0 \in P
  <2>1. \A s \in Step : ~(s <= 0)
    BY <1>2
  <2> QED
    BY <1>1, <2>1 DEF Unlooked, Considered, FoundReady, FoundSkipped,
                      PassedOver
<1>4. ASSUME NEW n \in Nat, n \in P PROVE n + 1 \in P
  <2> SUFFICES ASSUME n + 1 <= NSteps
               PROVE  Considered(g[n + 1], n + 1, steps)
    OBVIOUS
  <2>1. n + 1 \in Step /\ (n + 1) - 1 = n /\ n <= NSteps
    BY <1>2
  <2>2. g[n + 1] = Consider(g[n], n + 1, now)
    BY <1>1, <2>1
  <2>3. Considered(g[n], (n + 1) - 1, steps)
    BY <1>4, <2>1
  <2>4. PICK k \in Step : k = n + 1
    BY <2>1
  <2> QED
    BY <2>2, <2>3, <2>4, ConsiderKeeps
<1> HIDE DEF P
<1>5. Nat \subseteq P
  BY <1>3, <1>4, NatIsInduced
<1>6. Considered(g[NSteps], NSteps, steps)
  BY <1>2, <1>5 DEF P
<1> QED
  BY <1>1, <1>6

-----------------------------------------------------------------------------
(***************************************************************************)
(* Types, and what the changes of one step keep.                           *)
(***************************************************************************)
\* A step that has not begun.
LEMMA FreshStepType ==
  FreshStep \in StepStatus /\ FreshStep.phase = "Pending"
BY DEF FreshStep, StepStatus, StepPhase, NoTask

\* EvaluateLoops counts the iteration of a step that it resets.
LEMMA ResetStep ==
  ASSUME NEW x \in StepStatus
  PROVE  /\ Reset(x) \in StepStatus
         /\ Reset(x).phase = "Pending"
         /\ Reset(x).iterations > 0
<1> DEFINE a == [x EXCEPT !.phase = "Pending", !.task = NoTask]
           b == [a EXCEPT !.output = Empty, !.json = Empty]
           c == [b EXCEPT !.iterations = x.iterations + 1]
<1>1. a \in StepStatus /\ a.phase = "Pending"
  BY DEF StepStatus, StepPhase, NoTask
<1>2. ASSUME NEW z \in StepStatus
      PROVE  LET w == [z EXCEPT !.output = Empty, !.json = Empty]
             IN w \in StepStatus /\ w.phase = z.phase
  BY DEF StepStatus
<1>3. ASSUME NEW z \in StepStatus
      PROVE  LET w == [z EXCEPT !.iterations = x.iterations + 1]
             IN /\ w \in StepStatus /\ w.phase = z.phase
                /\ w.iterations > 0
  BY DEF StepStatus
<1>4. c \in StepStatus /\ c.phase = "Pending" /\ c.iterations > 0
  BY <1>1, <1>2, <1>3
<1> QED
  BY <1>4 DEF Reset

\* Parsing the output of a step keeps its phase, and is done once.
LEMMA ParsedStep ==
  ASSUME NEW s, NEW x \in StepStatus
  PROVE  /\ ParseOutput(s, x) \in StepStatus
         /\ ParseOutput(s, x).phase = x.phase
         /\ ParseOutput(s, ParseOutput(s, x)) = ParseOutput(s, x)
         /\ x.phase # "Succeeded" => ParseOutput(s, x) = x
<1>1. CASE /\ s \in HasSchema
           /\ x.phase = "Succeeded"
           /\ x.json = Empty
           /\ x.output \in JSONOutput
  <2> DEFINE y == [x EXCEPT !.json = x.output]
  <2>1. ParseOutput(s, x) = y
    BY <1>1 DEF ParseOutput
  <2>2. y \in StepStatus /\ y.phase = x.phase /\ y.json = x.output
    BY <1>1 DEF StepStatus
  <2>3. y.json # Empty
    BY <1>1, <2>2, ExecutorAssumption
  <2> HIDE DEF y
  <2>4. ParseOutput(s, y) = y
    BY <2>3 DEF ParseOutput
  <2> QED
    BY <1>1, <2>1, <2>2, <2>4
<1>2. CASE ~(/\ s \in HasSchema
             /\ x.phase = "Succeeded"
             /\ x.json = Empty
             /\ x.output \in JSONOutput)
  <2>1. ParseOutput(s, x) = x
    BY <1>2 DEF ParseOutput
  <2> QED
    BY <2>1
<1> QED
  BY <1>1, <1>2

\* A result ends its step.
LEMMA SettledStep ==
  ASSUME NEW x \in StepStatus, NEW r \in Result
  PROVE  /\ Settle(x, r) \in StepStatus
         /\ Settle(x, r).phase \in {"Succeeded", "Failed"}
<1>1. r.output \in Output \union {Empty} /\ r.tokens \in Nat
  BY ExecutorAssumption DEF Result
<1>2. CASE r.ok
  <2>1. Settle(x, r) = [phase |-> "Succeeded", task |-> x.task,
                        output |-> r.output, json |-> x.json,
                        iterations |-> x.iterations, tokens |-> r.tokens]
    BY <1>2 DEF Settle, StepStatus
  <2> QED
    BY <1>1, <2>1 DEF StepStatus, StepPhase
<1>3. CASE ~r.ok
  <2>1. Settle(x, r) = [x EXCEPT !.phase = "Failed"]
    BY <1>3 DEF Settle
  <2> QED
    BY <2>1 DEF StepStatus, StepPhase
<1> QED
  BY <1>2, <1>3

\* What a step contributes to the template data.
Entry(x) == [output |-> x.output, data |-> x.json]

\* What updateTemplateData adds are strings that an agent may answer.
LEMMA DataTypes ==
  ASSUME NEW steps \in [Step -> StepStatus]
  PROVE  /\ BuildTemplateData(steps) \in TemplateData
         /\ \A s \in Step : BuildTemplateData(steps)[s] = Entry(steps[s])
BY DEF BuildTemplateData, TemplateData, StepData, StepStatus, Entry

\* UpdateFlowPhase leaves the steps alone, and a flow running only when it
\* has something left to do.
LEMMA UpdateKeeps ==
  ASSUME NEW x \in FlowStatus, NEW d \in TemplateData, NEW now
  PROVE  LET y == UpdateFlowPhase(x, d, now)
         IN /\ y \in FlowStatus
            /\ y.steps = x.steps
            /\ x.phase = "Running" /\ y.phase = "Running" =>
                 ~AllDone(x.steps)
<1> DEFINE y == UpdateFlowPhase(x, d, now)
<1>1. \/ \E r \in {"TimedOut", "BudgetExceeded", "StepFailed"} :
           y = EndAs(x, "Failed", r)
      \/ y = [EndAs(x, "Succeeded", "Succeeded") EXCEPT !.output = d]
      \/ y = x /\ ~AllDone(x.steps)
  BY DEF UpdateFlowPhase
<1> SUFFICES /\ y \in FlowStatus
             /\ y.steps = x.steps
             /\ x.phase = "Running" /\ y.phase = "Running" =>
                  ~AllDone(x.steps)
  OBVIOUS
<1> HIDE DEF y
<1>2. ASSUME NEW p \in FlowPhase, NEW r \in Reason
      PROVE  /\ EndAs(x, p, r) \in FlowStatus
             /\ EndAs(x, p, r).phase = p /\ EndAs(x, p, r).steps = x.steps
  BY DEF EndAs, FlowStatus
<1>3. /\ {"Failed", "Succeeded"} \subseteq FlowPhase
      /\ {"TimedOut", "BudgetExceeded", "StepFailed", "Succeeded"}
           \subseteq Reason
  BY DEF FlowPhase, Reason
<1>4. ASSUME NEW z \in FlowStatus
      PROVE  LET w == [z EXCEPT !.output = d]
             IN w \in FlowStatus /\ w.phase = z.phase /\ w.steps = z.steps
  BY DEF FlowStatus
<1>5. CASE \E r \in {"TimedOut", "BudgetExceeded", "StepFailed"} :
             y = EndAs(x, "Failed", r)
  BY <1>2, <1>3, <1>5
<1>6. CASE y = [EndAs(x, "Succeeded", "Succeeded") EXCEPT !.output = d]
  <2>1. PICK z : z = EndAs(x, "Succeeded", "Succeeded")
    OBVIOUS
  <2>2. z \in FlowStatus /\ z.phase = "Succeeded" /\ z.steps = x.steps
    BY <1>2, <1>3, <2>1
  <2> QED
    BY <1>4, <1>6, <2>1, <2>2
<1> QED
  BY <1>1, <1>5, <1>6

(***************************************************************************)
(* What a pass makes of one step, from the data now: nothing, and its loop *)
(* does not go on; it skips it; or its loop goes on, and then it may be    *)
(* skipped as well.                                                        *)
(***************************************************************************)
Passed(s, old, new, now) ==
  \/ new = old /\ ~LoopsAgain(s, old, now)
  \/ /\ old.phase = "Pending"
     /\ new.phase = "Skipped"
     /\ Entry(new) = Entry(old)
  \/ /\ LoopsAgain(s, old, now)
     /\ \/ new.phase = "Pending"
        \/ new.phase = "Skipped" /\ new.iterations > 0

\* The four parts of a pass, together, for one step.
LEMMA PassMoves ==
  ASSUME chosen \in Flow, NEW steps \in [Step -> StepStatus], NEW now,
         NEW found, found = LoopsThenReady(steps, now)
  PROVE  /\ found.steps \in [Step -> StepStatus]
         /\ found.ready \subseteq Step
         /\ \A s \in found.ready : /\ found.steps[s].phase = "Pending"
                                   /\ DepsSucceeded(s, found.steps)
         /\ \A s \in Step : Passed(s, steps[s], found.steps[s], now)
         /\ \A s \in Step \ found.ready :
              found.steps[s].phase = "Pending" =>
                \E d \in DependsOn[s] :
                  \/ d \notin Step
                  \/ ~StepDone(found.steps[d])
                  \/ d > s /\ found.steps[d].phase = "Skipped"
<1> DEFINE mid == EvaluateLoops(steps, now)
<1>1. \A s \in Step : mid[s] = IF LoopsAgain(s, steps[s], now)
                               THEN Reset(steps[s]) ELSE steps[s]
  BY DEF EvaluateLoops
<1>2. mid \in [Step -> StepStatus]
  BY ResetStep DEF EvaluateLoops
<1>3. found = CollectReadySteps(mid, now)
  BY DEF LoopsThenReady
<1> HIDE DEF mid
<1>4. Considered(found, NSteps, mid)
  BY <1>2, <1>3, CollectConsiders
<1>5. \A s \in Step : s <= NSteps
  BY ChosenTypes
<1>6. ASSUME NEW s \in Step
      PROVE  Passed(s, steps[s], found.steps[s], now)
  <2>1. \/ found.steps[s] = mid[s]
        \/ /\ mid[s].phase = "Pending"
           /\ found.steps[s] = [mid[s] EXCEPT !.phase = "Skipped"]
    BY <1>4 DEF Considered, FoundSkipped
  <2>2. mid[s] \in StepStatus /\ steps[s] \in StepStatus
    BY <1>2
  <2>3. CASE LoopsAgain(s, steps[s], now)
    <3>1. /\ mid[s].phase = "Pending"
          /\ mid[s].iterations > 0
      BY <1>1, <2>2, <2>3, ResetStep
    <3>2. \/ found.steps[s] = mid[s]
          \/ /\ found.steps[s].phase = "Skipped"
             /\ found.steps[s].iterations = mid[s].iterations
      BY <2>1, <2>2, SkippedStep
    <3> QED
      BY <2>3, <3>1, <3>2 DEF Passed
  <2>4. CASE ~LoopsAgain(s, steps[s], now)
    <3>1. mid[s] = steps[s]
      BY <1>1, <2>4
    <3>2. \/ found.steps[s] = steps[s]
          \/ /\ steps[s].phase = "Pending"
             /\ found.steps[s].phase = "Skipped"
             /\ Entry(found.steps[s]) = Entry(steps[s])
      BY <2>1, <2>2, <3>1, SkippedStep DEF Entry
    <3> QED
      BY <2>4, <3>2 DEF Passed
  <2> QED
    BY <2>3, <2>4
<1>7. \A s \in found.ready : /\ found.steps[s].phase = "Pending"
                             /\ DepsSucceeded(s, found.steps)
  BY <1>4 DEF Considered, FoundReady
<1>8. \A s \in Step \ found.ready :
        found.steps[s].phase = "Pending" =>
          \E d \in DependsOn[s] :
            \/ d \notin Step
            \/ ~StepDone(found.steps[d])
            \/ d > s /\ found.steps[d].phase = "Skipped"
  BY <1>4, <1>5 DEF Considered, PassedOver
<1>9. found.steps \in [Step -> StepStatus] /\ found.ready \subseteq Step
  BY <1>4 DEF Considered
<1> QED
  BY <1>6, <1>7, <1>8, <1>9

-----------------------------------------------------------------------------
(***************************************************************************)
(* The results of a layer.                                                 *)
(***************************************************************************)
\* The steps whose results are in the channel.
Senders(ch) == {ch[k][1] : k \in DOMAIN ch}

\* The results in the channel are of the steps in S, one of each.
OneEach(ch, S) ==
  /\ ch \in Seq(Step \X Result)
  /\ Senders(ch) = S
  /\ \A j, k \in DOMAIN ch : ch[j][1] = ch[k][1] => j = k
  /\ Len(ch) = Cardinality(S)

\* The steps of a layer are finitely many.
LEMMA FewSteps ==
  ASSUME NEW S \in SUBSET Step
  PROVE  IsFiniteSet(S) /\ Cardinality(S) \in Nat
<1>1. IsFiniteSet(Step)
  <2>1. NSteps \in Int /\ Step = 1 .. NSteps
    BY ExecutorAssumption DEF ExecutorAssumption, Step
  <2> QED
    BY <2>1, FS_Interval
<1> QED
  BY <1>1, FS_Subset, FS_CardinalityType

\* A result is sent behind the others.
LEMMA OneMoreSent ==
  ASSUME NEW S \in SUBSET Step, NEW ch, OneEach(ch, S),
         NEW s \in Step, s \notin S, NEW r \in Result
  PROVE  OneEach(Append(ch, <<s, r>>), S \union {s})
<1> DEFINE new == Append(ch, <<s, r>>)
<1>1. /\ ch \in Seq(Step \X Result)
      /\ Senders(ch) = S
      /\ \A j, k \in DOMAIN ch : ch[j][1] = ch[k][1] => j = k
      /\ Len(ch) = Cardinality(S)
  BY DEF OneEach
<1>2. Len(ch) \in Nat /\ DOMAIN ch = 1 .. Len(ch)
  BY <1>1
<1>3. <<s, r>> \in Step \X Result
  OBVIOUS
<1>4. /\ new \in Seq(Step \X Result)
      /\ DOMAIN new = 1 .. (Len(ch) + 1)
      /\ Len(new) = Len(ch) + 1
      /\ \A k \in 1 .. Len(ch) : new[k] = ch[k]
      /\ new[Len(ch) + 1] = <<s, r>>
  BY <1>1, <1>2, <1>3
<1>5. Cardinality(S \union {s}) = Cardinality(S) + 1
  BY FewSteps, FS_AddElement
<1>6. \A k \in DOMAIN new : k \in 1 .. Len(ch) \/ k = Len(ch) + 1
  BY <1>2, <1>4
<1>7. \A k \in 1 .. Len(ch) : k \in DOMAIN new /\ k # Len(ch) + 1
  BY <1>2, <1>4
<1>8. Len(ch) + 1 \in DOMAIN new
  BY <1>2, <1>4
<1> HIDE DEF new
<1>9. \A k \in 1 .. Len(ch) : ch[k][1] \in S
  BY <1>1, <1>2 DEF Senders
<1>10. Senders(new) = S \union {s}
  <2>1. \A k \in DOMAIN new : new[k][1] \in S \union {s}
    BY <1>4, <1>6, <1>9
  <2>2. \A x \in S : \E k \in DOMAIN new : new[k][1] = x
    BY <1>1, <1>2, <1>4, <1>7 DEF Senders
  <2>3. new[Len(ch) + 1][1] = s
    BY <1>4
  <2> QED
    BY <1>8, <2>1, <2>2, <2>3 DEF Senders
<1>11. \A j, k \in DOMAIN new : new[j][1] = new[k][1] => j = k
  <2>1. new[Len(ch) + 1][1] = s
    BY <1>4
  <2>2. \A k \in 1 .. Len(ch) : new[k][1] = ch[k][1] /\ new[k][1] # s
    BY <1>4, <1>9
  <2> QED
    BY <1>1, <1>2, <1>6, <2>1, <2>2
<1>12. OneEach(new, S \union {s})
  BY <1>1, <1>4, <1>5, <1>10, <1>11 DEF OneEach
<1> QED
  BY <1>12 DEF new

\* The first result is taken.
LEMMA FirstTaken ==
  ASSUME NEW S \in SUBSET Step, NEW ch, OneEach(ch, S), ch # <<>>
  PROVE  /\ Head(ch)[1] \in S
         /\ Head(ch)[2] \in Result
         /\ OneEach(Tail(ch), S \ {Head(ch)[1]})
<1> DEFINE new == Tail(ch)
           s == Head(ch)[1]
<1>1. /\ ch \in Seq(Step \X Result)
      /\ Senders(ch) = S
      /\ \A j, k \in DOMAIN ch : ch[j][1] = ch[k][1] => j = k
      /\ Len(ch) = Cardinality(S)
  BY DEF OneEach
<1>2. Len(ch) \in Nat \ {0} /\ DOMAIN ch = 1 .. Len(ch)
  BY <1>1
<1>3. /\ new \in Seq(Step \X Result)
      /\ DOMAIN new = 1 .. (Len(ch) - 1)
      /\ Len(new) = Len(ch) - 1
      /\ \A k \in 1 .. (Len(ch) - 1) : new[k] = ch[k + 1]
      /\ Head(ch) = ch[1]
  BY <1>1, <1>2
<1>4. 1 \in DOMAIN ch /\ ch[1] \in Step \X Result
  BY <1>1, <1>2
<1>5. s \in S /\ Head(ch)[2] \in Result /\ s = ch[1][1]
  BY <1>1, <1>3, <1>4 DEF Senders
<1>6. Cardinality(S \ {s}) = Cardinality(S) - 1
  BY <1>5, FewSteps, FS_RemoveElement
<1>7. \A k \in DOMAIN new :
        k + 1 \in DOMAIN ch /\ k + 1 # 1 /\ new[k] = ch[k + 1]
  BY <1>2, <1>3
<1>8. \A j \in DOMAIN ch : j # 1 => j - 1 \in DOMAIN new /\ (j - 1) + 1 = j
  BY <1>2, <1>3
<1>9. \A j, k \in DOMAIN new : j + 1 = k + 1 => j = k
  BY <1>2, <1>3
<1> HIDE DEF new, s
<1>10. Senders(new) = S \ {s}
  <2>1. \A k \in DOMAIN new : new[k][1] \in S /\ new[k][1] # s
    BY <1>1, <1>4, <1>5, <1>7 DEF Senders
  <2>2. ASSUME NEW x \in S \ {s} PROVE \E k \in DOMAIN new : new[k][1] = x
    <3>1. PICK j \in DOMAIN ch : ch[j][1] = x
      BY <1>1 DEF Senders
    <3>2. j # 1
      BY <1>5, <3>1
    <3>3. j - 1 \in DOMAIN new /\ new[j - 1] = ch[j]
      BY <1>7, <1>8, <3>2
    <3> QED
      BY <3>1, <3>3
  <2> QED
    BY <2>1, <2>2 DEF Senders
<1>11. \A j, k \in DOMAIN new : new[j][1] = new[k][1] => j = k
  BY <1>1, <1>7, <1>9
<1>12. OneEach(new, S \ {s})
  BY <1>1, <1>3, <1>6, <1>10, <1>11 DEF OneEach
<1> QED
  BY <1>5, <1>12 DEF new, s

-----------------------------------------------------------------------------
(***************************************************************************)
(* The invariant of a run.                                                 *)
(***************************************************************************)
RunTypes ==
  /\ chosen \in Flow
  /\ st \in FlowStatus
  /\ data \in TemplateData
  /\ used \in [Step -> TemplateData]
  /\ clock \in 0 .. MaxTime

\* The running steps are those of the layer whose results are to come.
LayerExact ==
  /\ waiting \subseteq Step
  /\ running \subseteq waiting
  /\ OneEach(channel, waiting \ running)
  /\ pc # "layer" => waiting = {}
  /\ \A s \in Step : (st.steps[s].phase = "Running") <=> (s \in waiting)

\* The loop of step s, in state x, goes on from some data with its output.
GoesOn(s, x) ==
  /\ x.phase = "Succeeded"
  /\ x.iterations < MaxIterations[s]
  /\ \E t \in TemplateData : t[s] = Entry(x) /\ t \in LoopHolds[s]

\* Step d, in state x, is done with the template data v and stays so.
Final(d, v, x) ==
  /\ d \in Step
  /\ StepDone(x)
  /\ \/ x.phase = "Skipped" /\ x.iterations > 0
     \/ /\ v = Entry(x)
        /\ ~GoesOn(d, x)
        /\ ParseOutput(d, x) = x

\* FreshInputs, with what it takes to keep it.
InputsFinal ==
  /\ pc = "pass" => \A s \in Step : ParseOutput(s, st.steps[s]) = st.steps[s]
  /\ chosen.loop \in LoopsReadOnlyThemselves =>
       \A s \in Step :
         st.steps[s].phase \in {"Running", "Succeeded"} =>
           \A d \in DependsOn[s] : Final(d, used[s][d], st.steps[d])

ExecInv ==
  RunInv /\ RunTypes /\ LayerExact /\ InputsFinal /\ StopsForAReason

\* What a step has run on stays as it is in a pass.
LEMMA FinalStays ==
  ASSUME NEW steps \in [Step -> StepStatus], NEW d \in Step, NEW v, NEW new,
         Final(d, v, steps[d]),
         Passed(d, steps[d], new, BuildTemplateData(steps))
  PROVE  new = steps[d]
<1>1. /\ BuildTemplateData(steps) \in TemplateData
      /\ BuildTemplateData(steps)[d] = Entry(steps[d])
  BY DataTypes
<1>2. CASE steps[d].phase = "Skipped"
  BY <1>2 DEF Passed, LoopsAgain
<1>3. CASE steps[d].phase = "Succeeded"
  <2>1. ~GoesOn(d, steps[d])
    BY <1>3 DEF Final
  <2>2. ~LoopsAgain(d, steps[d], BuildTemplateData(steps))
    BY <1>1, <2>1 DEF GoesOn, LoopsAgain
  <2> QED
    BY <1>3, <2>2 DEF Passed
<1> QED
  BY <1>2, <1>3 DEF Final, StepDone

\* What a step is started on is final.
LEMMA FinalWhenLaunched ==
  ASSUME chosen \in Flow, chosen.loop \in LoopsReadOnlyThemselves,
         NEW steps \in [Step -> StepStatus], NEW d \in Step, NEW new,
         ParseOutput(d, steps[d]) = steps[d],
         Passed(d, steps[d], new, BuildTemplateData(steps)), StepDone(new)
  PROVE  Final(d, BuildTemplateData(steps)[d], new)
<1> DEFINE now == BuildTemplateData(steps)
<1>1. now \in TemplateData /\ now[d] = Entry(steps[d])
  BY DataTypes
<1>2. Passed(d, steps[d], new, now)
  OBVIOUS
<1> HIDE DEF now
<1>3. CASE new = steps[d] /\ ~LoopsAgain(d, steps[d], now)
  <2> SUFFICES ~GoesOn(d, new)
    BY <1>1, <1>3 DEF Final, now
  <2> SUFFICES ASSUME new.phase = "Succeeded",
                      new.iterations < MaxIterations[d],
                      NEW t \in TemplateData, t[d] = Entry(new)
               PROVE  t \notin LoopHolds[d]
    BY DEF GoesOn
  <2>1. now \notin LoopHolds[d]
    BY <1>3 DEF LoopsAgain
  <2>2. (now \in Loops[chosen.loop].holds[d])
          = (t \in Loops[chosen.loop].holds[d])
    BY <1>1, <1>3 DEF LoopsReadOnlyThemselves, Step
  <2> QED
    BY <2>1, <2>2 DEF LoopHolds
<1>4. CASE new.phase = "Skipped" /\ Entry(new) = Entry(steps[d])
  BY <1>1, <1>4 DEF Final, GoesOn, ParseOutput, StepDone, now
<1>5. CASE new.phase = "Skipped" /\ new.iterations > 0
  BY <1>5 DEF Final, StepDone
<1> QED
  BY <1>2, <1>3, <1>4, <1>5 DEF Passed, StepDone

\* Running steps do not appear in a pass.
LEMMA PassRunsNothing ==
  ASSUME NEW s, NEW old, NEW new, NEW now, Passed(s, old, new, now),
         old.phase # "Running"
  PROVE  new.phase # "Running"
BY DEF Passed

\* A run begins with every step pending and nothing in the layer.
LEMMA ExecInvInit == RunInit /\ chosen \in Flow => ExecInv
<1> SUFFICES ASSUME RunInit, chosen \in Flow PROVE ExecInv
  OBVIOUS
<1>1. /\ st = InitialStatus /\ data = NoData /\ pc = "init"
      /\ waiting = {} /\ running = {} /\ channel = <<>>
      /\ used = [s \in Step |-> NoData] /\ clock = 0
  BY DEF RunInit
<1>2. NoData \in TemplateData
  BY DEF NoData, TemplateData, StepData
<1>3. \A s \in Step : st.steps[s] = FreshStep
  BY <1>1 DEF InitialStatus
<1>4. st \in FlowStatus
  BY <1>1, <1>2, FreshStepType
     DEF InitialStatus, FlowStatus, FlowPhase, Reason, NoTime
<1>5. RunTypes
  BY <1>1, <1>2, <1>4, ExecutorAssumption DEF RunTypes
<1>6. LayerExact
  <2>1. Cardinality({}) = 0
    BY FS_EmptySet
  <2>2. OneEach(<<>>, {})
    BY <2>1 DEF OneEach, Senders
  <2>3. \A s \in Step : st.steps[s].phase # "Running"
    BY <1>3, FreshStepType
  <2> QED
    BY <1>1, <2>2, <2>3 DEF LayerExact
<1>7. InputsFinal
  <2>1. \A s \in Step : st.steps[s].phase \notin {"Running", "Succeeded"}
    BY <1>3, FreshStepType
  <2> QED
    BY <1>1, <2>1 DEF InputsFinal
<1>8. StopsForAReason
  BY <1>1 DEF StopsForAReason
<1> QED
  BY <1>5, <1>6, <1>7, <1>8, RunInvInit DEF ExecInv

(***************************************************************************)
(* Start gives every step a fresh status.                                  *)
(***************************************************************************)
LEMMA StartKeeps ==
  ExecInv /\ Start => RunTypes' /\ LayerExact' /\ InputsFinal'
                        /\ StopsForAReason'
<1> SUFFICES ASSUME ExecInv, Start
             PROVE  RunTypes' /\ LayerExact' /\ InputsFinal'
                      /\ StopsForAReason'
  OBVIOUS
<1>1. /\ pc = "init" /\ pc' = "pass" /\ st = InitialStatus
      /\ st' = InitializeSteps(st, clock)
      /\ UNCHANGED <<chosen, data, waiting, running, channel, used, clock>>
  BY DEF Start, layer, ExecInv, RunInv
<1>2. \A s \in Step : st'.steps[s] = FreshStep
  BY <1>1 DEF InitializeSteps, InitialStatus
<1>3. st' \in FlowStatus
  <2>1. st \in FlowStatus /\ st.phase = "new" /\ clock \in Nat
    BY <1>1, ExecutorAssumption
       DEF ExecInv, RunTypes, InitialStatus
  <2>2. [s \in Step |-> FreshStep] \in [Step -> StepStatus]
    BY FreshStepType
  <2> QED
    BY <1>1, <2>1, <2>2
       DEF InitializeSteps, FlowStatus, FlowPhase, Reason
<1>4. RunTypes'
  BY <1>1, <1>3 DEF ExecInv, RunTypes
<1>5. LayerExact'
  <2>1. \A s \in Step : st'.steps[s].phase # "Running"
    BY <1>2, FreshStepType
  <2> QED
    BY <1>1, <2>1 DEF ExecInv, LayerExact, OneEach, Senders
<1>6. InputsFinal'
  <2>1. \A s \in Step :
          /\ st'.steps[s].phase \notin {"Running", "Succeeded"}
          /\ ParseOutput(s, st'.steps[s]) = st'.steps[s]
    BY <1>2, FreshStepType, ParsedStep
  <2> QED
    BY <2>1 DEF InputsFinal
<1>7. StopsForAReason'
  BY <1>1 DEF StopsForAReason
<1> QED
  BY <1>4, <1>5, <1>6, <1>7


(***************************************************************************)
(* Stop looks once more and finds nothing ready.                           *)
(***************************************************************************)
LEMMA StopKeeps ==
  ExecInv /\ Stop => RunTypes' /\ LayerExact' /\ InputsFinal'
                       /\ StopsForAReason'
<1> SUFFICES ASSUME ExecInv, Stop
             PROVE  RunTypes' /\ LayerExact' /\ InputsFinal'
                      /\ StopsForAReason'
  OBVIOUS
<1>1. PICK found :
        /\ found = LoopsThenReady(st.steps, BuildTemplateData(st.steps))
        /\ found.ready = {}
        /\ st' = UpdateFlowPhase([st EXCEPT !.steps = found.steps],
                                 data', clock)
  BY DEF Stop
<1>2. /\ pc = "pass" /\ pc' = "done"
      /\ ~IsTerminalPhase(st.phase)
      /\ data' = BuildTemplateData(st.steps)
      /\ UNCHANGED <<chosen, waiting, running, channel, used, clock>>
  BY DEF Stop, layer
<1>3. /\ chosen \in Flow /\ st \in FlowStatus
      /\ st.steps \in [Step -> StepStatus]
      /\ st.phase = "Running"
      /\ \A s \in Step : st.steps[s].phase # "Running"
  BY <1>2 DEF ExecInv, RunTypes, RunInv, LayerExact, FlowStatus,
              IsTerminalPhase, Ended
<1>4. data' \in TemplateData
  BY <1>2, <1>3, DataTypes
<1>5. /\ found.steps \in [Step -> StepStatus]
      /\ \A s \in Step : Passed(s, st.steps[s], found.steps[s],
                                BuildTemplateData(st.steps))
      /\ \A s \in Step :
           found.steps[s].phase = "Pending" =>
             \E d \in DependsOn[s] :
               \/ d \notin Step
               \/ ~StepDone(found.steps[d])
               \/ d > s /\ found.steps[d].phase = "Skipped"
  BY <1>1, <1>3, PassMoves
<1> DEFINE x == [st EXCEPT !.steps = found.steps]
<1>6. /\ x \in FlowStatus /\ x.phase = "Running"
      /\ x.steps = found.steps /\ IsStatus(x)
  BY <1>3, <1>5 DEF FlowStatus, IsStatus
<1>7. st' = UpdateFlowPhase(x, data', clock)
  BY <1>1
<1> HIDE DEF x
<1>8. /\ st' \in FlowStatus
      /\ st'.steps = found.steps
      /\ st'.phase = "Running" => ~AllDone(found.steps)
  BY <1>4, <1>6, <1>7, UpdateKeeps
<1>9. /\ st'.phase \in Ended \union {"Running"}
      /\ st'.phase = "Succeeded" => AllDone(st'.steps)
      /\ st'.phase = "Running" => ~SomeFailed(st'.steps)
  BY <1>6, <1>7, PhaseOfRunning
<1>10. \A s \in Step : found.steps[s].phase # "Running"
  BY <1>3, <1>5, PassRunsNothing
<1>11. RunTypes'
  BY <1>2, <1>4, <1>8 DEF ExecInv, RunTypes
<1>12. LayerExact'
  BY <1>2, <1>8, <1>10 DEF ExecInv, LayerExact, OneEach, Senders
<1>13. InputsFinal'
  <2> SUFFICES ASSUME chosen.loop \in LoopsReadOnlyThemselves,
                      NEW s \in Step, NEW d \in DependsOn[s],
                      st'.steps[s].phase \in {"Running", "Succeeded"}
               PROVE  Final(d, used[s][d], st'.steps[d])
    BY <1>2 DEF InputsFinal, DependsOn, Final, GoesOn, MaxIterations,
                LoopHolds
  <2>2. st.steps[s] = found.steps[s]
    BY <1>5, <1>8 DEF Passed
  <2>3. Final(d, used[s][d], st.steps[d])
    BY <1>8, <2>2 DEF ExecInv, InputsFinal
  <2>1. d \in Step
    BY <2>3 DEF Final
  <2>4. found.steps[d] = st.steps[d]
    BY <1>3, <1>5, <2>1, <2>3, FinalStays
  <2> QED
    BY <1>8, <2>3, <2>4
<1>14. StopsForAReason'
  <2> DEFINE left == {s \in Step : st'.steps[s].phase = "Pending"}
  <2>1. \A s \in Step : st'.steps[s].phase # "Running"
    BY <1>8, <1>10
  <2>2. st'.phase = "Succeeded" => left = {}
    BY <1>9 DEF AllDone, StepDone
  <2>3. ASSUME st'.phase = "Running"
        PROVE  /\ left # {}
               /\ \A s \in left : \E d \in DependsOn[s] :
                    \/ d = UnknownName
                    \/ d \in left
                    \/ d > s /\ st'.steps[d].phase = "Skipped"
    <3>1. \A s \in Step : st'.steps[s].phase # "Failed"
      BY <1>9, <2>3 DEF SomeFailed
    <3>2. \A s \in Step : st'.steps[s] \in StepStatus
      BY <1>5, <1>8
    <3>3. \A s \in Step : ~StepDone(st'.steps[s]) => s \in left
      BY <2>1, <3>1, <3>2 DEF StepStatus, StepPhase, StepDone
    <3>4. left # {}
      BY <1>8, <2>3, <3>3 DEF AllDone
    <3>5. ASSUME NEW s \in left
          PROVE  \E d \in DependsOn[s] :
                   \/ d = UnknownName
                   \/ d \in left
                   \/ d > s /\ st'.steps[d].phase = "Skipped"
      <4>1. PICK d \in DependsOn[s] :
              \/ d \notin Step
              \/ ~StepDone(found.steps[d])
              \/ d > s /\ found.steps[d].phase = "Skipped"
        BY <1>5, <1>8
      <4>2. d \in Step \/ d = UnknownName
        BY <1>3, ChosenTypes
      <4> QED
        BY <1>8, <3>3, <4>1, <4>2
    <3> QED
      BY <3>4, <3>5
  <2>4. DependsOn' = DependsOn
    BY <1>2 DEF DependsOn
  <2>5. IsTerminalPhase(st'.phase) \/ st'.phase = "Running"
    BY <1>9 DEF IsTerminalPhase, Ended
  <2> QED
    BY <2>1, <2>2, <2>3, <2>4, <2>5 DEF StopsForAReason
<1> QED
  BY <1>11, <1>12, <1>13, <1>14

(***************************************************************************)
(* Launch runs what is ready, on data that is final.                       *)
(***************************************************************************)
LEMMA LaunchKeeps ==
  ExecInv /\ Launch => RunTypes' /\ LayerExact' /\ InputsFinal'
                         /\ StopsForAReason'
<1> SUFFICES ASSUME ExecInv, Launch
             PROVE  RunTypes' /\ LayerExact' /\ InputsFinal'
                      /\ StopsForAReason'
  OBVIOUS
<1>1. PICK found :
        /\ found = LoopsThenReady(st.steps, BuildTemplateData(st.steps))
        /\ st' = [st EXCEPT !.steps = [s \in Step |->
                    IF s \in found.ready
                    THEN [found.steps[s] EXCEPT !.phase = "Running"]
                    ELSE found.steps[s]]]
        /\ waiting' = found.ready
        /\ running' = found.ready
        /\ used' = [s \in Step |-> IF s \in found.ready THEN data'
                                   ELSE used[s]]
  BY DEF Launch
<1>2. /\ pc = "pass" /\ pc' = "layer"
      /\ data' = BuildTemplateData(st.steps)
      /\ UNCHANGED <<chosen, channel, clock>>
  BY DEF Launch
<1>3. /\ chosen \in Flow /\ st \in FlowStatus
      /\ st.steps \in [Step -> StepStatus]
      /\ used \in [Step -> TemplateData]
      /\ waiting = {} /\ running = {}
      /\ \A s \in Step : st.steps[s].phase # "Running"
  BY <1>2 DEF ExecInv, RunTypes, LayerExact, FlowStatus
<1>4. data' \in TemplateData
  BY <1>2, <1>3, DataTypes
<1>5. /\ found.steps \in [Step -> StepStatus]
      /\ found.ready \subseteq Step
      /\ \A s \in found.ready : /\ found.steps[s].phase = "Pending"
                                /\ DepsSucceeded(s, found.steps)
      /\ \A s \in Step : Passed(s, st.steps[s], found.steps[s],
                                BuildTemplateData(st.steps))
  BY <1>1, <1>3, PassMoves
<1>6. ASSUME NEW x \in StepStatus
      PROVE  LET y == [x EXCEPT !.phase = "Running"]
             IN y \in StepStatus /\ y.phase = "Running"
  BY DEF StepStatus, StepPhase
<1>7. /\ st'.steps \in [Step -> StepStatus]
      /\ \A s \in found.ready : st'.steps[s].phase = "Running"
      /\ \A s \in Step \ found.ready : st'.steps[s] = found.steps[s]
  <2>1. st'.steps = [s \in Step |->
                    IF s \in found.ready
                    THEN [found.steps[s] EXCEPT !.phase = "Running"]
                    ELSE found.steps[s]]
    BY <1>1, <1>3 DEF FlowStatus
  <2> QED
    BY <1>5, <1>6, <2>1
<1>8. st' \in FlowStatus
  <2>1. \E steps : st' = [st EXCEPT !.steps = steps]
    BY <1>1
  <2> QED
    BY <1>3, <1>7, <2>1 DEF FlowStatus
<1>9. used' \in [Step -> TemplateData]
  BY <1>1, <1>3, <1>4
<1>10. \A s \in Step : found.steps[s].phase # "Running"
  BY <1>3, <1>5, PassRunsNothing
<1>11. RunTypes'
  BY <1>2, <1>4, <1>8, <1>9 DEF ExecInv, RunTypes
<1>12. LayerExact'
  <2>1. waiting \ running = {} /\ waiting' \ running' = {}
    BY <1>1, <1>3
  <2>2. OneEach(channel', waiting' \ running')
    BY <1>2, <2>1 DEF ExecInv, LayerExact
  <2>3. \A s \in Step :
          (st'.steps[s].phase = "Running") <=> (s \in found.ready)
    BY <1>7, <1>10
  <2>4. /\ waiting' \subseteq Step
        /\ running' \subseteq waiting'
        /\ pc' = "layer"
        /\ \A s \in Step :
             (st'.steps[s].phase = "Running") <=> (s \in waiting')
    BY <1>1, <1>2, <1>5, <2>3
  <2> QED
    BY <2>2, <2>4 DEF LayerExact, OneEach, Senders
<1>13. InputsFinal'
  <2> SUFFICES ASSUME chosen.loop \in LoopsReadOnlyThemselves,
                      NEW s \in Step, NEW d \in DependsOn[s],
                      st'.steps[s].phase \in {"Running", "Succeeded"}
               PROVE  Final(d, used'[s][d], st'.steps[d])
    BY <1>2 DEF InputsFinal, DependsOn, Final, GoesOn, MaxIterations,
                LoopHolds
  <2>1. CASE d \notin Step
    <3>1. s \notin found.ready
      BY <1>5, <2>1 DEF DepsSucceeded
    <3>2. st.steps[s] = found.steps[s]
      BY <1>1, <1>5, <1>7, <3>1 DEF Passed
    <3> QED
      BY <1>7, <2>1, <3>1, <3>2 DEF ExecInv, InputsFinal, Final
  <2>2. ASSUME d \in Step, StepDone(found.steps[d])
        PROVE  st'.steps[d] = found.steps[d]
    BY <1>5, <1>7, <2>2 DEF StepDone
  <2>3. CASE d \in Step /\ s \in found.ready
    <3>1. StepDone(found.steps[d])
      BY <1>5, <2>3 DEF DepsSucceeded
    <3>2. used'[s] = BuildTemplateData(st.steps)
      BY <1>1, <1>2, <2>3
    <3>3. ParseOutput(d, st.steps[d]) = st.steps[d]
      BY <1>2, <2>3 DEF ExecInv, InputsFinal
    <3>4. Final(d, BuildTemplateData(st.steps)[d], found.steps[d])
      BY <1>3, <1>5, <2>3, <3>1, <3>3, FinalWhenLaunched
    <3> QED
      BY <2>2, <2>3, <3>1, <3>2, <3>4
  <2>4. CASE d \in Step /\ s \notin found.ready
    <3>1. st.steps[s] = found.steps[s] /\ used'[s] = used[s]
      BY <1>1, <1>5, <1>7, <2>4 DEF Passed
    <3>2. Final(d, used[s][d], st.steps[d])
      BY <1>7, <2>4, <3>1 DEF ExecInv, InputsFinal
    <3>3. found.steps[d] = st.steps[d]
      BY <1>3, <1>5, <2>4, <3>2, FinalStays
    <3> QED
      BY <2>2, <2>4, <3>1, <3>2, <3>3 DEF Final
  <2> QED
    BY <2>1, <2>3, <2>4
<1>14. StopsForAReason'
  BY <1>2 DEF StopsForAReason
<1> QED
  BY <1>11, <1>12, <1>13, <1>14


(***************************************************************************)
(* TakeResult settles one step of the layer; the last parses the outputs.  *)
(***************************************************************************)
LEMMA TakeKeeps ==
  ExecInv /\ TakeResult => RunTypes' /\ LayerExact' /\ InputsFinal'
                             /\ StopsForAReason'
<1> SUFFICES ASSUME ExecInv, TakeResult
             PROVE  RunTypes' /\ LayerExact' /\ InputsFinal'
                      /\ StopsForAReason'
  OBVIOUS
<1>1. PICK s0, r, steps, parsed :
        /\ s0 = Head(channel)[1]
        /\ r = Head(channel)[2]
        /\ steps = [st.steps EXCEPT ![s0] = Settle(@, r)]
        /\ parsed = ParseOutputJSON(steps)
        /\ waiting' = waiting \ {s0}
        /\ \/ /\ st' = [st EXCEPT !.steps = steps]
              /\ UNCHANGED <<data, pc>>
           \/ /\ waiting' = {}
              /\ data' = BuildTemplateData(parsed)
              /\ st' = UpdateFlowPhase([st EXCEPT !.steps = parsed],
                                       data', clock)
              /\ pc' = "pass"
  BY DEF TakeResult
<1>2. /\ pc = "layer" /\ channel # <<>> /\ channel' = Tail(channel)
      /\ UNCHANGED <<chosen, running, used, clock>>
  BY DEF TakeResult
<1>3. /\ chosen \in Flow /\ st \in FlowStatus
      /\ st.steps \in [Step -> StepStatus]
      /\ data \in TemplateData
      /\ waiting \in SUBSET Step /\ running \subseteq waiting
      /\ OneEach(channel, waiting \ running)
      /\ \A s \in Step : (st.steps[s].phase = "Running") <=> (s \in waiting)
  BY DEF ExecInv, RunTypes, LayerExact, FlowStatus
<1>4. /\ s0 \in waiting \ running
      /\ r \in Result
      /\ OneEach(channel', (waiting \ running) \ {s0})
  <2>1. waiting \ running \in SUBSET Step
    BY <1>3
  <2> QED
    BY <1>1, <1>2, <1>3, <2>1, FirstTaken
<1>5. s0 \in Step /\ st.steps[s0].phase = "Running"
  BY <1>3, <1>4
<1>6. /\ steps \in [Step -> StepStatus]
      /\ steps[s0].phase \in {"Succeeded", "Failed"}
      /\ \A s \in Step : s # s0 => steps[s] = st.steps[s]
  BY <1>1, <1>3, <1>4, <1>5, SettledStep
<1>7. /\ parsed \in [Step -> StepStatus]
      /\ \A s \in Step : parsed[s] = ParseOutput(s, steps[s])
  BY <1>1, <1>6, ParsedStep DEF ParseOutputJSON
<1>8. /\ st' \in FlowStatus /\ data' \in TemplateData
      /\ \/ st'.steps = steps /\ pc' = "layer"
         \/ st'.steps = parsed /\ pc' = "pass" /\ waiting' = {}
  <2>1. CASE /\ st' = [st EXCEPT !.steps = steps]
             /\ UNCHANGED <<data, pc>>
    BY <1>2, <1>3, <1>6, <2>1 DEF FlowStatus
  <2>2. CASE /\ waiting' = {}
             /\ data' = BuildTemplateData(parsed)
             /\ st' = UpdateFlowPhase([st EXCEPT !.steps = parsed],
                                      data', clock)
             /\ pc' = "pass"
    <3> DEFINE x == [st EXCEPT !.steps = parsed]
    <3>1. x \in FlowStatus /\ x.steps = parsed
      BY <1>3, <1>7 DEF FlowStatus
    <3>2. data' \in TemplateData
      BY <1>7, <2>2, DataTypes
    <3>3. st' = UpdateFlowPhase(x, data', clock)
      BY <2>2
    <3> HIDE DEF x
    <3>4. st' \in FlowStatus /\ st'.steps = parsed
      BY <3>1, <3>2, <3>3, UpdateKeeps
    <3> QED
      BY <2>2, <3>2, <3>4
  <2> QED
    BY <1>1, <2>1, <2>2
<1>9. \A s \in Step : st'.steps[s].phase = steps[s].phase
  BY <1>6, <1>7, <1>8, ParsedStep
<1>10. RunTypes'
  BY <1>2, <1>8 DEF ExecInv, RunTypes
<1>11. LayerExact'
  <2>1. waiting' \ running' = (waiting \ running) \ {s0}
    BY <1>1, <1>2
  <2>2. OneEach(channel', waiting' \ running')
    BY <1>4, <2>1
  <2>3. waiting' \subseteq Step /\ running' \subseteq waiting'
    BY <1>1, <1>2, <1>3, <1>4
  <2>4. pc' # "layer" => waiting' = {}
    BY <1>8
  <2>5. \A s \in Step :
          (st'.steps[s].phase = "Running") <=> (s \in waiting')
    BY <1>1, <1>3, <1>6, <1>9
  <2> QED
    BY <2>2, <2>3, <2>4, <2>5 DEF LayerExact, OneEach, Senders
<1>12. InputsFinal'
  <2>1. pc' = "pass" =>
          \A s \in Step : ParseOutput(s, st'.steps[s]) = st'.steps[s]
    BY <1>6, <1>7, <1>8, ParsedStep
  <2>2. ASSUME chosen.loop \in LoopsReadOnlyThemselves,
               NEW s \in Step, NEW d \in DependsOn[s],
               st'.steps[s].phase \in {"Running", "Succeeded"}
        PROVE  Final(d, used[s][d], st'.steps[d])
    <3>2. st.steps[s].phase \in {"Running", "Succeeded"}
      BY <1>5, <1>6, <1>9, <2>2
    <3>3. Final(d, used[s][d], st.steps[d])
      BY <2>2, <3>2 DEF ExecInv, InputsFinal
    <3>1. d \in Step
      BY <3>3 DEF Final
    <3>4. d # s0
      BY <1>5, <3>3 DEF Final, StepDone
    <3>5. steps[d] = st.steps[d] /\ st.steps[d] \in StepStatus
      BY <1>3, <1>6, <3>1, <3>4
    <3>6. ParseOutput(d, st.steps[d]) = st.steps[d]
      BY <3>3, <3>5, ParsedStep DEF Final
    <3>7. st'.steps[d] = st.steps[d]
      BY <1>7, <1>8, <3>1, <3>5, <3>6
    <3> QED
      BY <3>3, <3>7
  <2> QED
    BY <1>2, <2>1, <2>2
       DEF InputsFinal, DependsOn, Final, GoesOn, MaxIterations, LoopHolds
<1>13. StopsForAReason'
  BY <1>8 DEF StopsForAReason
<1> QED
  BY <1>10, <1>11, <1>12, <1>13

(***************************************************************************)
(* RunStep sends one result of the layer.                                  *)
(***************************************************************************)
LEMMA RunStepKeeps ==
  ASSUME ExecInv, NEW s \in Step, RunStep(s)
  PROVE  RunTypes' /\ LayerExact' /\ InputsFinal' /\ StopsForAReason'
<1>1. /\ s \in running /\ running' = running \ {s}
      /\ UNCHANGED <<chosen, st, data, pc, waiting, used, clock>>
  BY DEF RunStep, flowVars
<1>2. PICK r \in Result : channel' = Append(channel, <<s, r>>)
  <2>1. Failure \in Result
    BY ExecutorAssumption DEF Failure, Result
  <2>2. \A output \in Output, tokens \in 0 .. MaxUsage :
          [ok |-> TRUE, output |-> output, tokens |-> tokens] \in Result
    BY DEF Result
  <2> QED
    BY <2>1, <2>2 DEF RunStep, SendResult
<1>3. /\ waiting \in SUBSET Step /\ running \subseteq waiting
      /\ OneEach(channel, waiting \ running)
  BY DEF ExecInv, LayerExact
<1>4. OneEach(channel', waiting' \ running')
  <2>1. waiting' \ running' = (waiting \ running) \union {s}
    BY <1>1, <1>3
  <2>2. waiting \ running \in SUBSET Step /\ s \notin waiting \ running
    BY <1>1, <1>3
  <2>3. ASSUME NEW S \in SUBSET Step, OneEach(channel, S), s \notin S
        PROVE  OneEach(Append(channel, <<s, r>>), S \union {s})
    BY <2>3, OneMoreSent
  <2>4. OneEach(Append(channel, <<s, r>>), (waiting \ running) \union {s})
    BY <1>3, <2>2, <2>3
  <2> QED
    BY <1>2, <2>1, <2>4
<1>5. RunTypes'
  BY <1>1 DEF ExecInv, RunTypes
<1>6. LayerExact'
  <2>1. /\ waiting' \subseteq Step /\ running' \subseteq waiting'
        /\ pc' # "layer" => waiting' = {}
        /\ \A q \in Step :
             (st'.steps[q].phase = "Running") <=> (q \in waiting')
    BY <1>1, <1>3 DEF ExecInv, LayerExact
  <2> QED
    BY <1>4, <2>1 DEF LayerExact, OneEach, Senders
<1>7. InputsFinal' /\ StopsForAReason'
  BY <1>1 DEF ExecInv, InputsFinal, StopsForAReason, DependsOn, Final, GoesOn,
              MaxIterations, LoopHolds
<1> QED
  BY <1>5, <1>6, <1>7

(***************************************************************************)
(* Return leaves a flow that has ended.                                    *)
(***************************************************************************)
LEMMA ReturnKeeps ==
  ASSUME ExecInv, Return
  PROVE  RunTypes' /\ LayerExact' /\ InputsFinal' /\ StopsForAReason'
<1>1. /\ pc = "pass" /\ pc' = "done" /\ IsTerminalPhase(st.phase)
      /\ UNCHANGED <<chosen, st, data, waiting, running, channel, used, clock>>
  BY DEF Return, flowVars, layer
<1>2. RunTypes'
  BY <1>1 DEF ExecInv, RunTypes
<1>3. LayerExact'
  BY <1>1 DEF ExecInv, LayerExact, OneEach, Senders
<1>4. InputsFinal'
  BY <1>1 DEF ExecInv, InputsFinal, DependsOn, Final, GoesOn, MaxIterations,
              LoopHolds
<1>5. StopsForAReason'
  <2>1. \A s \in Step : st.steps[s].phase # "Running"
    BY <1>1 DEF ExecInv, LayerExact
  <2>2. st.phase = "Succeeded" =>
          {s \in Step : st.steps[s].phase = "Pending"} = {}
    BY DEF ExecInv, RunInv, AllDone, StepDone
  <2> QED
    BY <1>1, <2>1, <2>2 DEF StopsForAReason
<1> QED
  BY <1>2, <1>3, <1>4, <1>5

\* Every step of Run keeps the invariant.
LEMMA ExecInvStep == ExecInv /\ [Next]_vars => ExecInv'
<1> SUFFICES ASSUME ExecInv, [Next]_vars
             PROVE  RunTypes' /\ LayerExact' /\ InputsFinal'
                      /\ StopsForAReason'
  BY RunInvStep DEF ExecInv
<1>1. CASE Tick
  <2>1. /\ clock' = clock + 1 /\ clock < MaxTime
        /\ UNCHANGED <<chosen, st, data, pc, waiting, running, channel, used>>
    BY <1>1 DEF Tick, flowVars, layer
  <2>2. RunTypes'
    BY <2>1, ExecutorAssumption DEF ExecInv, RunTypes
  <2>3. LayerExact'
    BY <2>1 DEF ExecInv, LayerExact, OneEach, Senders
  <2>4. InputsFinal' /\ StopsForAReason'
    BY <2>1 DEF ExecInv, InputsFinal, StopsForAReason, DependsOn, Final,
                GoesOn, MaxIterations, LoopHolds
  <2> QED
    BY <2>2, <2>3, <2>4
<1>2. CASE UNCHANGED vars
  <2>1. UNCHANGED <<chosen, st, data, pc, waiting, running, channel, used,
                    clock>>
    BY <1>2 DEF vars, flowVars, layer
  <2>2. RunTypes'
    BY <2>1 DEF ExecInv, RunTypes
  <2>3. LayerExact'
    BY <2>1 DEF ExecInv, LayerExact, OneEach, Senders
  <2>4. InputsFinal' /\ StopsForAReason'
    BY <2>1 DEF ExecInv, InputsFinal, StopsForAReason, DependsOn, Final,
                GoesOn, MaxIterations, LoopHolds
  <2> QED
    BY <2>2, <2>3, <2>4
<1> QED
  BY <1>1, <1>2, StartKeeps, ReturnKeeps, StopKeeps, LaunchKeeps, TakeKeeps,
     RunStepKeeps DEF Next, Main

(***************************************************************************)
(* The command runs the executor, or leaves it alone.                      *)
(***************************************************************************)
LEMMA ExecAlways == CLISpec => []ExecInv
<1>1. CLIInit => ExecInv
  <2> SUFFICES ASSUME CLIInit PROVE ExecInv
    OBVIOUS
  <2>1. [graph |-> 1, condition |-> 1, loop |-> 1, limit |-> 1] \in Flow
    BY ExecutorAssumption DEF Flow
  <2>2. RunInit /\ chosen \in Flow
    BY <2>1 DEF CLIInit
  <2> QED
    BY <2>2, ExecInvInit
<1>2. ExecInv /\ [CLINext]_cliVars => ExecInv'
  <2>1. [CLINext]_cliVars => [Next]_vars
    BY DEF CLINext, Execute, Validate, PrintResult, PrintVerdict, cliVars
  <2> QED
    BY <2>1, ExecInvStep
<1> QED
  BY <1>1, <1>2, PTL DEF CLISpec

(***************************************************************************)
(* The types of a run, for every flow: in particular the channel has room  *)
(* for every goroutine of the layer, and holds at most one result of each. *)
(* (The channel made with len(ready) in Run.)                              *)
(***************************************************************************)
THEOREM ExecutorTypes == CLISpec => []TypeOK
<1>1. ExecInv => TypeOK
  <2> SUFFICES ASSUME ExecInv PROVE TypeOK
    OBVIOUS
  <2>1. RunTypes /\ LayerExact /\ pc \in {"init", "pass", "layer", "done"}
    BY DEF ExecInv, RunInv
  <2> QED
    BY <2>1 DEF RunTypes, LayerExact, OneEach, Senders, TypeOK
<1> QED
  BY <1>1, ExecAlways, PTL

(***************************************************************************)
(* Whatever the order of the goroutines: a step runs on the final answers  *)
(* of the steps it depends on, if loops read only their own step.  (Run,   *)
(* which evaluates loops before it collects what is ready.)                *)
(***************************************************************************)
THEOREM RunsOnFreshInputs == CLISpec => []FreshInputs
<1>1. ExecInv => FreshInputs
  <2> SUFFICES ASSUME ExecInv, chosen.loop \in LoopsReadOnlyThemselves,
                      NEW s \in Step, NEW d \in DependsOn[s],
                      st.steps[s].phase \in {"Running", "Succeeded"}
               PROVE  /\ d \in Step
                      /\ StepDone(st.steps[d])
                      /\ \/ used[s][d] = BuildTemplateData(st.steps)[d]
                         \/ /\ st.steps[d].phase = "Skipped"
                            /\ st.steps[d].iterations > 0
    BY DEF FreshInputs
  <2>1. Final(d, used[s][d], st.steps[d])
    BY DEF ExecInv, InputsFinal
  <2>2. d \in Step /\ st.steps \in [Step -> StepStatus]
    BY <2>1 DEF ExecInv, RunTypes, FlowStatus, Final
  <2>3. BuildTemplateData(st.steps)[d] = Entry(st.steps[d])
    BY <2>2, DataTypes
  <2> QED
    BY <2>1, <2>3 DEF Final
<1> QED
  BY <1>1, ExecAlways, PTL

(***************************************************************************)
(* A run that returns has a reason, for every graph, also with a cycle or  *)
(* an unknown dependency: the flow has ended, or every step left waits for *)
(* one that does not exist, is left, or was skipped behind its back.  (The *)
(* break in Run, and collectReadySteps.)                                   *)
(***************************************************************************)
THEOREM RunStopsForAReason == CLISpec => []StopsForAReason
<1>1. ExecInv => StopsForAReason
  BY DEF ExecInv
<1> QED
  BY <1>1, ExecAlways, PTL

(***************************************************************************)
(* What the exit code says, for every flow: of a validation, 0 exactly if  *)
(* what ValidateDAG looks at is known and acyclic and no agent is missing; *)
(* of a run, 0 exactly if the flow has not failed, and then all its steps  *)
(* are done, or its dependencies are not valid, or the order of the spec   *)
(* has left a step behind.  (printResult, dryRun.)                         *)
(***************************************************************************)
THEOREM ExitAlwaysTellsTruth == CLISpec => []ExitTellsTruth
<1>1. CLIInv /\ ExecInv => ExitTellsTruth
  <2> SUFFICES ASSUME CLIInv, ExecInv, exit # Running PROVE ExitTellsTruth
    BY DEF ExitTellsTruth
  <2>1. CASE command = "validate"
    <3>1. verdict # "none" /\ (exit = 0 <=> verdict = "valid" /\ ~missing)
      BY <2>1 DEF CLIInv, ExitInv, Valid
    <3>2. verdict \in {"none", "unknown step", "cycle", "valid"}
      BY DEF CLIInv, SearchInv, Types
    <3>3. verdict = "valid" <=> ~UnknownStep /\ Acyclic(Known)
      BY <3>1, <3>2 DEF CLIInv, SearchInv, VerdictIsRight
    <3>4. verdict = "valid" /\ DistinctNames => NoStepWaitsForItself
      BY DEF CLIInv, SearchInv, VerdictIsRight
    <3> QED
      BY <2>1, <3>1, <3>3, <3>4 DEF ExitTellsTruth
  <2>2. CASE command = "run"
    <3>1. pc = "done" /\ (exit = 0 <=> st.phase # "Failed")
      BY <2>2 DEF CLIInv, ExitInv
    <3>2. st.phase \in {"Succeeded", "Failed", "Running"}
      BY <3>1 DEF CLIInv, RunInv, Ended
    <3>3. exit = 0 => ~SomeFailed(st.steps)
      BY <3>1, <3>2 DEF CLIInv, RunInv
    <3>4. st.phase = "Succeeded" => AllDone(st.steps)
      BY DEF CLIInv, RunInv
    <3>5. st.phase = "Running" => Invalid \/ LeftBehind
      <4> DEFINE left == {s \in Step : st.steps[s].phase = "Pending"}
      <4> SUFFICES ASSUME st.phase = "Running", ~LeftBehind,
                          \A s \in Step : DependsOn[s] \subseteq Step
                   PROVE  ~ValidDAG
        BY DEF Invalid
      <4>1. /\ left # {}
            /\ \A s \in left : \E d \in DependsOn[s] :
                 \/ d = UnknownName
                 \/ d \in left
                 \/ d > s /\ st.steps[d].phase = "Skipped"
        BY <3>1 DEF ExecInv, StopsForAReason, IsTerminalPhase
      <4>2. UnknownName \notin Step
        BY DEF UnknownName, Step
      <4>3. \A s \in left : DependsOn[s] \intersect left # {}
        BY <4>1, <4>2 DEF LeftBehind
      <4> QED
        BY <4>1, <4>3 DEF ValidDAG
    <3> QED
      BY <2>2, <3>1, <3>2, <3>3, <3>4, <3>5 DEF ExitTellsTruth, SomeFailed
  <2> QED
    BY <2>1, <2>2 DEF CLIInv, ExitInv
<1> QED
  BY <1>1, CLIInvAlways, ExecAlways, PTL
=============================================================================
