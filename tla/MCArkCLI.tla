------------------------------ MODULE MCArkCLI ------------------------------
(***************************************************************************)
(* Small flows for TLC: every combination of a graph, conditions, loops    *)
(* and limits.                                                             *)
(***************************************************************************)
EXTENDS ArkCLI

Steps == 1 .. NSteps

Data == [Steps -> [output : Output \union {Empty},
                   data : JSONOutput \union {Empty}]]

Said(s, text) == {d \in Data : d[s].output = text}

AnyData == [s \in Steps |-> Data]

NoLoop == [holds |-> [s \in Steps |-> {}], max |-> [s \in Steps |-> 0]]

\* Two steps in front of a third; a chain; a chain written backwards; two
\* steps in a circle beside a free one; a step with an unknown dependency
\* between two others.
MCGraphs ==
  << [s \in Steps |-> IF s = 3 THEN {1, 2} ELSE {}],
     [s \in Steps |-> IF s = 1 THEN {} ELSE {s - 1}],
     [s \in Steps |-> IF s = NSteps THEN {} ELSE {s + 1}],
     [s \in Steps |-> CASE s = 1 -> {} [] s = 2 -> {3} [] s = 3 -> {2}],
     [s \in Steps |-> CASE s = 1 -> {}
                      [] s = 2 -> {1, UnknownName}
                      [] s = 3 -> {1}] >>

\* No conditions; step 1 only as long as it has not answered, which its loop
\* does not ask, and step 2 only if step 1 said yes; step 3 never.
MCConditions ==
  << AnyData,
     [AnyData EXCEPT ![1] = Said(1, Empty), ![2] = Said(1, "yes")],
     [AnyData EXCEPT ![3] = {}] >>

\* No loops; step 1 while it says no; step 1 while step 2 says no, as a
\* writer with a critic.
MCLoops ==
  << NoLoop,
     [holds |-> [NoLoop.holds EXCEPT ![1] = Said(1, "no")],
      max |-> [NoLoop.max EXCEPT ![1] = 1]],
     [holds |-> [NoLoop.holds EXCEPT ![1] = Said(2, "no")],
      max |-> [NoLoop.max EXCEPT ![1] = 1]] >>

\* No limits, or a budget and a timeout.
MCLimits ==
  << [tokens |-> 0, timeout |-> 0], [tokens |-> 1, timeout |-> 1] >>
=============================================================================
