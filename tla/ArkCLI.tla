-------------------------------- MODULE ArkCLI --------------------------------
(***************************************************************************)
(* The ark command (cmd/ark/main.go): "ark run" executes a flow            *)
(* (LocalExecutor) without validating it, "ark validate" and "ark run      *)
(* --dry-run" validate it (FlowValidation) without executing it.           *)
(***************************************************************************)
EXTENDS LocalExecutor, FlowValidation

VARIABLES
  command,   \* "run", or "validate" (which is also run's --dry-run)
  missing,   \* whether a step names an agent that the file does not have
  exit       \* the exit code, Running before

shell == <<command, missing, exit>>
cliVars == <<vars, validationVars, shell>>

Running == -1

\* LoadFile and selectFlow have found a flow.
CLIInit ==
  /\ exit = Running
  /\ missing \in BOOLEAN
  /\ RunInit
  /\ \/ /\ command = "run"
        /\ chosen \in Flow
        /\ name = <<>>
        /\ dependsOn = <<>>
        /\ SearchInit
     \/ /\ command = "validate"
        /\ chosen = [graph |-> 1, condition |-> 1, loop |-> 1, limit |-> 1]
        /\ ValidationInit

\* runFlow.
Execute(A) ==
  /\ command = "run"
  /\ A
  /\ UNCHANGED <<validationVars, shell>>

\* printResult: only a flow that failed is an error.
PrintResult ==
  /\ command = "run"
  /\ pc = "done"
  /\ exit = Running
  /\ exit' = IF st.phase = "Failed" THEN 1 ELSE 0
  /\ UNCHANGED <<vars, validationVars, command, missing>>

\* dryRun, up to the verdict.
Validate ==
  /\ command = "validate"
  /\ ValidationNext
  /\ UNCHANGED <<vars, shell>>

\* Slip: missing agents are reported, but not as an error.
AnyAgents == verdict = "valid"

Valid == verdict = "valid" /\ ~missing

PrintVerdict ==
  /\ command = "validate"
  /\ verdict # "none"
  /\ exit = Running
  /\ exit' = IF Valid THEN 0 ELSE 1
  /\ UNCHANGED <<vars, validationVars, command, missing>>

CLINext ==
  \/ Execute(Next) \/ Validate
  \/ PrintResult \/ PrintVerdict

CLIFairness ==
  /\ WF_cliVars(Execute(Main))
  /\ \A s \in 1 .. NSteps : WF_cliVars(Execute(RunStep(s)))
  /\ WF_cliVars(Validate)
  /\ WF_cliVars(PrintResult \/ PrintVerdict)

CLISpec == CLIInit /\ [][CLINext]_cliVars /\ CLIFairness
-----------------------------------------------------------------------------
\* The flow that ran would have been rejected by ValidateDAG, which it never
\* met: a dependency is unknown or circular.
Invalid == ~ValidDAG \/ \E s \in Step : ~(DependsOn[s] \subseteq Step)

\* A step is left although what it depends on was skipped, later in its pass.
LeftBehind ==
  \E s \in Step : \E d \in DependsOn[s] :
    /\ st.steps[s].phase = "Pending"
    /\ d > s /\ st.steps[d].phase = "Skipped"

\* What an exit code says.  Of a validation: 0 exactly if every dependency is
\* known, those of the last step of every name are not circular, and no agent
\* is missing; if no name is repeated, then no step would wait for itself.
\* (If one is, a cycle through its earlier steps goes unnoticed.)  Of a run:
\* 0 exactly if the flow has not failed, which includes a run that stopped
\* with steps left over.  But then no step has failed, and if every
\* dependency is known and none is circular, all are done, unless one was
\* left behind by the order of the spec.
ExitTellsTruth ==
  exit # Running =>
    IF command = "validate"
    THEN /\ exit = 0 <=> ~UnknownStep /\ Acyclic(Known) /\ ~missing
         /\ exit = 0 /\ DistinctNames => NoStepWaitsForItself
    ELSE /\ exit = 0 => \A s \in Step : st.steps[s].phase # "Failed"
         /\ exit = 0 => AllDone(st.steps) \/ Invalid \/ LeftBehind
         /\ exit = 0 <=> st.phase # "Failed"

\* The command returns: neither the search nor a run goes on for ever.
CommandReturns == <>(exit # Running)
=============================================================================
