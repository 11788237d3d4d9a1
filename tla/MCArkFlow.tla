----------------------------- MODULE MCArkFlow ------------------------------
(***************************************************************************)
(* Small flows for TLC.  A flow is a definition per constant; a .cfg       *)
(* chooses among them.                                                     *)
(***************************************************************************)
EXTENDS FlowClaims

\* The texts: "yes" is truthy and parses as JSON, "no" is neither.
Yes == "yes"
No == "no"

MCPrompt == Step \union {Subtask}

NoSubtasks == [p \in Prompt |-> 0]

OneSubtask == [p \in Prompt |-> IF p = Subtask THEN 1 ELSE 0]

Always(S) == [s \in Step |-> S]

AllData == Always(TemplateData)

NoneOfData == Always({})

\* Data in which the output of step s is the text t.
Where(s, t) == {d \in TemplateData : d[s].output = t}

\* The steps in a row.
Chain == [s \in Step |-> IF s = 1 THEN {} ELSE {s - 1}]

\* The last step depends on all the others, which are free.
Join == [s \in Step |-> IF s = NSteps THEN 1 .. (s - 1) ELSE {}]

\* Step 1 is free, the others depend on each other in a circle.
CycleBehind ==
  [s \in Step |-> CASE s = 1 -> {} [] s = 2 -> {NSteps} [] OTHER -> {s - 1}]

NoLoops == [s \in Step |-> 0]

\* Step 1 repeats once, at most.
LoopOnce == [s \in Step |-> IF s = 1 THEN 1 ELSE 0]

\* Step 1 repeats twice, at most.
LoopTwice == [s \in Step |-> IF s = 1 THEN 2 ELSE 0]

\* A loop whose condition is the output of its own step.
LoopOnSelf == [s \in Step |-> Where(s, Yes)]

\* The last step runs only if step 1 answered No.
IfFirstSaidNo ==
  [s \in Step |-> IF s = NSteps THEN Where(1, No) ELSE TemplateData]

\* Step 1 goes on only while step 2 has not answered Yes, and the last step
\* runs only if step 1 answered No.
IfOthersDisagree ==
  [s \in Step |-> IF s = 1 THEN TemplateData \ Where(2, Yes)
                  ELSE IF s = NSteps THEN Where(1, No) ELSE TemplateData]

\* The inputs of step 3 use what step 2 says only when it runs and agrees.
FailOnNo == [s \in Step |-> IF s = 3 THEN Where(2, No) ELSE {}]

\* A loop whose condition is what step 2 answered to the last iteration.
LoopOnSecond == [s \in Step |-> Where(2, Yes)]
=============================================================================
