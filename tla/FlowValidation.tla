--------------------------- MODULE FlowValidation ----------------------------
(***************************************************************************)
(* ValidateDAG (internal/flow/dag.go): the check for unknown and circular  *)
(* dependencies that the operator makes on every reconciliation of a flow, *)
(* and the command line on "ark validate" and "ark run --dry-run".  It is  *)
(* a depth-first search that colours step names, here one action per       *)
(* visit, with the call stack of the recursive dfs made explicit.          *)
(*                                                                         *)
(* Names are not assumed to be distinct: nothing but a comment of the API  *)
(* type asks for it.  FlowLogic has the verdict for distinct names.        *)
(***************************************************************************)
EXTENDS Integers, Sequences, FiniteSets

CONSTANTS
  Name,          \* names of steps
  MaxSteps       \* bound: len(spec.steps)

ASSUME ValidationAssumption == MaxSteps \in Nat /\ IsFiniteSet(Name)

VARIABLES
  name,          \* the names of the steps, in the order of the spec
  dependsOn,     \* index of a step -> the names it depends on
  color,         \* Name -> white, gray or black
  stack,         \* the names whose dfs has not returned, outermost first
  rest,          \* Name -> the dependencies its dfs has still to look at
  verdict        \* what ValidateDAG returns, "none" before

spec == <<name, dependsOn>>
search == <<color, stack, rest>>
validationVars == <<spec, search, verdict>>

Index == DOMAIN name

\* stepNames.
Known == {name[i] : i \in Index}

\* The entry of adj, which is written once per step: the last step of a name
\* replaces those before it.
LastOfName(n) ==
  {i \in Index : name[i] = n /\ \A j \in Index : name[j] = n => j <= i}

Adj(n) == UNION {dependsOn[i] : i \in LastOfName(n)}

SearchInit ==
  /\ color = [n \in Name |-> "white"]
  /\ stack = <<>>
  /\ rest = [n \in Name |-> {}]
  /\ verdict = "none"

ValidationInit ==
  /\ name \in UNION {[1 .. n -> Name] : n \in 0 .. MaxSteps}
  /\ dependsOn \in [DOMAIN name -> SUBSET Name]
  /\ SearchInit

\* The two loops over the steps before the search.
UnknownStep == \E i \in Index : ~(dependsOn[i] \subseteq Known)

RejectUnknown ==
  /\ verdict = "none"
  /\ UnknownStep
  /\ verdict' = "unknown step"
  /\ UNCHANGED <<spec, search>>

\* dfs(n) begins.
Visit(n) ==
  /\ color' = [color EXCEPT ![n] = "gray"]
  /\ stack' = Append(stack, n)
  /\ rest' = [rest EXCEPT ![n] = Adj(n)]

\* The loop over the steps calls dfs for the next name that is still white.
VisitRoot(i) ==
  /\ verdict = "none"
  /\ ~UnknownStep
  /\ stack = <<>>
  /\ color[name[i]] = "white"
  /\ \A j \in 1 .. i - 1 : color[name[j]] # "white"
  /\ Visit(name[i])
  /\ UNCHANGED <<spec, verdict>>

Top == stack[Len(stack)]

LooksAt(d) ==
  /\ verdict = "none"
  /\ stack # <<>>
  /\ d \in rest[Top]

\* Slip: a step that depends on itself is let through.
OtherGray(d) == color[d] = "gray" /\ d # Top

ClosesCycle(d) == color[d] = "gray"

FindCycle(d) ==
  /\ LooksAt(d)
  /\ ClosesCycle(d)
  /\ verdict' = "cycle"
  /\ UNCHANGED <<spec, search>>

Unseen(d) == color[d] = "white"

VisitNext(d) ==
  /\ LooksAt(d)
  /\ Unseen(d)
  /\ color' = [color EXCEPT ![d] = "gray"]
  /\ stack' = Append(stack, d)
  /\ rest' = [rest EXCEPT ![Top] = @ \ {d}, ![d] = Adj(d)]
  /\ UNCHANGED <<spec, verdict>>

PassOver(d) ==
  /\ LooksAt(d)
  /\ ~ClosesCycle(d)
  /\ ~Unseen(d)
  /\ rest' = [rest EXCEPT ![Top] = @ \ {d}]
  /\ UNCHANGED <<spec, color, stack, verdict>>

\* Slip: a name is black as soon as it has been seen.
BlackenEarly == stack # <<>>

AllLookedAt == stack # <<>> /\ rest[Top] = {}

\* dfs returns.
Blacken ==
  /\ verdict = "none"
  /\ AllLookedAt
  /\ color' = [color EXCEPT ![Top] = "black"]
  /\ stack' = SubSeq(stack, 1, Len(stack) - 1)
  /\ UNCHANGED <<spec, rest, verdict>>

Accept ==
  /\ verdict = "none"
  /\ ~UnknownStep
  /\ stack = <<>>
  /\ \A i \in Index : color[name[i]] # "white"
  /\ verdict' = "valid"
  /\ UNCHANGED <<spec, search>>

ValidationNext ==
  \/ RejectUnknown \/ Blacken \/ Accept
  \/ \E i \in Index : VisitRoot(i)
  \/ \E d \in Name : FindCycle(d) \/ VisitNext(d) \/ PassOver(d)

ValidationSpec ==
  ValidationInit /\ [][ValidationNext]_validationVars
                 /\ WF_validationVars(ValidationNext)
-----------------------------------------------------------------------------
(***************************************************************************)
(* Properties.                                                             *)
(***************************************************************************)
Color == {"white", "gray", "black"}

\* The types of the search; the recursion is no deeper than there are names.
SearchTypeOK ==
  /\ name \in Seq(Name)
  /\ dependsOn \in [Index -> SUBSET Name]
  /\ color \in [Name -> Color]
  /\ stack \in Seq(Name) /\ Len(stack) <= Cardinality(Name)
  /\ rest \in [Name -> SUBSET Name]
  /\ verdict \in {"none", "unknown step", "cycle", "valid"}

\* Every nonempty set of the names in S has one that depends on none of it.
Acyclic(S) ==
  \A T \in SUBSET S : T # {} => \E n \in T : Adj(n) \intersect T = {}

Black == {n \in Name : color[n] = "black"}

\* The gray names are those on the stack, each once and a dependency of the
\* one below it; black names depend on black names only, and on themselves
\* by no path.  (The case distinction on color[dep] rests on this.)
ColorsTellPath ==
  /\ \A n \in Name : color[n] = "gray" <=> \E k \in DOMAIN stack : stack[k] = n
  /\ \A j, k \in DOMAIN stack : stack[j] = stack[k] => j = k
  /\ \A k \in 1 .. Len(stack) - 1 : stack[k + 1] \in Adj(stack[k])
  /\ \A n \in Black : Adj(n) \subseteq Black
  /\ Acyclic(Black)

\* Every nonempty set of steps has one that depends on none of it: no step
\* waits for itself, whatever order the others run in.
NoStepWaitsForItself ==
  \A T \in SUBSET Index :
    T # {} => \E i \in T : \A j \in T : name[j] \notin dependsOn[i]

DistinctNames == \A i, j \in Index : name[i] = name[j] => i = j

\* The verdict is right about the dependencies that ValidateDAG looks at:
\* those of the last step of every name.  A flow is accepted exactly if they
\* are known and without a cycle.  When names are distinct these are all of
\* the dependencies; when not, a cycle through an earlier step of a name
\* goes unnoticed.
VerdictIsRight ==
  /\ verdict = "valid" /\ DistinctNames => NoStepWaitsForItself
  /\ verdict = "valid" => ~UnknownStep /\ Acyclic(Known)
  /\ verdict = "cycle" => ~UnknownStep /\ ~Acyclic(Known)
  /\ verdict = "unknown step" => UnknownStep
=============================================================================
