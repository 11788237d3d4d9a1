------------------------ MODULE FlowValidationProofs -------------------------
(***************************************************************************)
(* Theorems about ValidateDAG, for flows of any size with any names and    *)
(* dependencies: what it accepts has no circular dependency, and what it   *)
(* rejects has one.                                                        *)
(***************************************************************************)
EXTENDS FlowValidation, TLAPS, FiniteSetTheorems

(***************************************************************************)
(* The inductive invariant.  ColorsTellPath says what the colours mean.    *)
(* Beyond it: only known names of a flow without unknown dependencies are  *)
(* coloured, and what the dfs of a name has passed over is black, or is    *)
(* being visited by the next dfs on the stack.                             *)
(***************************************************************************)
Types ==
  /\ name \in Seq(Name)
  /\ dependsOn \in [Index -> SUBSET Name]
  /\ color \in [Name -> Color]
  /\ stack \in Seq(Name)
  /\ rest \in [Name -> SUBSET Name]
  /\ verdict \in {"none", "unknown step", "cycle", "valid"}

OnlyKnownColored ==
  \A n \in Name : color[n] # "white" => n \in Known /\ ~UnknownStep

RestIsLeft ==
  \A k \in DOMAIN stack :
    /\ rest[stack[k]] \subseteq Adj(stack[k])
    /\ \A d \in Adj(stack[k]) \ rest[stack[k]] :
         color[d] = "black" \/ (k < Len(stack) /\ d = stack[k + 1])

SearchInv ==
  Types /\ ColorsTellPath /\ OnlyKnownColored /\ RestIsLeft /\ VerdictIsRight

(***************************************************************************)
(* Dependencies are names.                                                 *)
(***************************************************************************)
LEMMA AdjType ==
  ASSUME Types, NEW n
  PROVE  Adj(n) \subseteq Name
<1>1. \A i \in LastOfName(n) : dependsOn[i] \in SUBSET Name
  BY DEF Types, LastOfName
<1> QED
  BY <1>1 DEF Adj

(***************************************************************************)
(* The operators on the spec do not change while it does not.              *)
(***************************************************************************)
LEMMA SameSpec ==
  ASSUME UNCHANGED spec
  PROVE  /\ Index' = Index
         /\ Known' = Known
         /\ UnknownStep' <=> UnknownStep
         /\ \A n : Adj(n)' = Adj(n)
         /\ NoStepWaitsForItself' = NoStepWaitsForItself
<1>1. name' = name /\ dependsOn' = dependsOn
  BY DEF spec
<1>2. Index' = Index
  BY <1>1 DEF Index
<1>3. Known' = Known
  BY <1>1, <1>2 DEF Known
<1>4. UnknownStep' <=> UnknownStep
  BY <1>1, <1>2, <1>3 DEF UnknownStep
<1>5. \A n : LastOfName(n)' = LastOfName(n)
  BY <1>1, <1>2 DEF LastOfName
<1>6. \A n : Adj(n)' = Adj(n)
  BY <1>1, <1>5 DEF Adj
<1>7. NoStepWaitsForItself' = NoStepWaitsForItself
  BY <1>1, <1>2 DEF NoStepWaitsForItself
<1> QED
  BY <1>2, <1>3, <1>4, <1>6, <1>7

(***************************************************************************)
(* A set that gets one more name, all of whose dependencies were in it     *)
(* before and that depends on itself least of all, is still without a      *)
(* cycle: no name in it depends on the new one.                            *)
(***************************************************************************)
LEMMA OneMore ==
  ASSUME NEW S, Acyclic(S), \A m \in S : Adj(m) \subseteq S,
         NEW n, n \notin S, Adj(n) \subseteq S
  PROVE  Acyclic(S \union {n})
<1> SUFFICES ASSUME NEW T \in SUBSET (S \union {n}), T # {}
             PROVE  \E m \in T : Adj(m) \intersect T = {}
  BY DEF Acyclic
<1>1. CASE T \ {n} = {}
  <2>1. T = {n}
    BY <1>1
  <2> QED
    BY <2>1
<1>2. CASE T \ {n} # {}
  <2>1. T \ {n} \in SUBSET S
    BY <1>2
  <2>2. PICK m \in T \ {n} : Adj(m) \intersect (T \ {n}) = {}
    BY <1>2, <2>1 DEF Acyclic
  <2>3. n \notin Adj(m)
    BY <2>1, <2>2
  <2> QED
    BY <2>2, <2>3
<1> QED
  BY <1>1, <1>2

(***************************************************************************)
(* With distinct names, a flow without a cycle of names has no step that   *)
(* waits for itself.                                                       *)
(***************************************************************************)
LEMMA NamesAndSteps ==
  ASSUME Types, Acyclic(Known), DistinctNames
  PROVE  NoStepWaitsForItself
<1> SUFFICES ASSUME NEW T \in SUBSET Index, T # {}
             PROVE  \E i \in T : \A j \in T : name[j] \notin dependsOn[i]
  BY DEF NoStepWaitsForItself
<1> DEFINE N == {name[i] : i \in T}
<1>1. N \in SUBSET Known /\ N # {}
  BY DEF Known
<1>2. PICK n \in N : Adj(n) \intersect N = {}
  BY <1>1 DEF Acyclic
<1>3. PICK i \in T : name[i] = n
  BY <1>2
<1>4. Index \subseteq Nat
  <2>1. name \in Seq(Name)
    BY DEF Types
  <2> QED
    BY <2>1 DEF Index
<1>5. i \in LastOfName(n)
  BY <1>3, <1>4 DEF LastOfName, DistinctNames
<1>6. dependsOn[i] \subseteq Adj(n)
  BY <1>5 DEF Adj
<1> QED
  BY <1>2, <1>6

(***************************************************************************)
(* The search begins with the invariant.                                   *)
(***************************************************************************)
LEMMA SearchInvInit == ValidationInit => SearchInv
<1> SUFFICES ASSUME ValidationInit PROVE SearchInv
  OBVIOUS
<1>1. /\ color = [n \in Name |-> "white"]
      /\ stack = <<>>
      /\ rest = [n \in Name |-> {}]
      /\ verdict = "none"
  BY DEF ValidationInit, SearchInit
<1>2. PICK n \in 0 .. MaxSteps : name \in [1 .. n -> Name]
  BY DEF ValidationInit
<1>3. name \in Seq(Name)
  BY <1>2, ValidationAssumption
<1>4. Types
  BY <1>1, <1>3 DEF Types, ValidationInit, Index, Color
<1>5. Black = {}
  BY <1>1 DEF Black
<1>6. ColorsTellPath
  BY <1>1, <1>5 DEF ColorsTellPath, Acyclic
<1>7. OnlyKnownColored /\ RestIsLeft /\ VerdictIsRight
  BY <1>1 DEF OnlyKnownColored, RestIsLeft, VerdictIsRight
<1> QED
  BY <1>4, <1>6, <1>7 DEF SearchInv

(***************************************************************************)
(* A dfs begins, of a white name that the one below it depends on.         *)
(***************************************************************************)
LEMMA DescendKeepsInv ==
  ASSUME SearchInv, UNCHANGED spec, verdict = "none", verdict' = "none",
         NEW d \in Known, ~UnknownStep, color[d] = "white",
         color' = [color EXCEPT ![d] = "gray"],
         stack' = Append(stack, d),
         stack # <<>> => d \in Adj(Top),
         rest' \in [Name -> SUBSET Name],
         rest'[d] = Adj(d),
         \A k \in DOMAIN stack :
           rest'[stack[k]] = IF k = Len(stack) THEN rest[stack[k]] \ {d}
                             ELSE rest[stack[k]]
  PROVE  SearchInv'
<1>1. /\ name \in Seq(Name)
      /\ dependsOn \in [Index -> SUBSET Name]
      /\ color \in [Name -> Color]
      /\ stack \in Seq(Name)
  BY DEF SearchInv, Types
<1>2. d \in Name
  <2>1. \A i \in Index : name[i] \in Name
    BY <1>1 DEF Index
  <2> QED
    BY <2>1 DEF Known
<1>3. /\ DOMAIN stack = 1 .. Len(stack)
      /\ DOMAIN stack' = 1 .. Len(stack) + 1
      /\ Len(stack') = Len(stack) + 1
      /\ \A k \in DOMAIN stack : stack'[k] = stack[k]
      /\ stack'[Len(stack) + 1] = d
      /\ Len(stack) \in Nat
      /\ stack' \in Seq(Name)
  BY <1>1, <1>2
<1>4. \A n \in Name :
        color'[n] = IF n = d THEN "gray" ELSE color[n]
  BY <1>1
<1>5. Types'
  <2>1. name' = name /\ dependsOn' = dependsOn
    BY DEF spec
  <2>2. color' \in [Name -> Color]
    BY <1>1 DEF Color
  <2>3. name' \in Seq(Name) /\ dependsOn' \in [Index' -> SUBSET Name]
    BY <1>1, <2>1 DEF Index
  <2> QED
    BY <1>3, <2>2, <2>3 DEF Types
<1>6. \A k \in DOMAIN stack : stack[k] # d
  BY <1>2 DEF SearchInv, ColorsTellPath
<1>7. Black' = Black
  BY <1>4 DEF Black
<1>8. ColorsTellPath'
  <2>1. \A n \in Name :
          color'[n] = "gray" <=> \E k \in DOMAIN stack' : stack'[k] = n
    BY <1>3, <1>4 DEF SearchInv, ColorsTellPath
  <2>2. \A j, k \in DOMAIN stack' : stack'[j] = stack'[k] => j = k
    BY <1>3, <1>6 DEF SearchInv, ColorsTellPath
  <2>3. \A k \in 1 .. Len(stack') - 1 : stack'[k + 1] \in Adj(stack'[k])
    <3> SUFFICES ASSUME NEW k \in 1 .. Len(stack') - 1
                 PROVE  stack'[k + 1] \in Adj(stack'[k])
      OBVIOUS
    <3>1. CASE k < Len(stack)
      <4>1. k \in 1 .. Len(stack) - 1 /\ k \in DOMAIN stack
        BY <1>3, <3>1
      <4>2. k + 1 \in DOMAIN stack
        BY <1>3, <4>1
      <4>3. stack[k + 1] \in Adj(stack[k])
        BY <4>1 DEF SearchInv, ColorsTellPath
      <4> QED
        BY <1>3, <4>1, <4>2, <4>3
    <3>2. CASE k = Len(stack)
      BY <1>3, <3>2 DEF Top
    <3>3. k < Len(stack) \/ k = Len(stack)
      <4>1. Len(stack) \in Nat /\ Len(stack') - 1 = Len(stack)
        BY <1>3
      <4>2. k \in 1 .. Len(stack)
        BY <4>1
      <4> QED
        BY <4>1, <4>2
    <3> QED
      BY <3>1, <3>2, <3>3
  <2>4. \A n \in Black : Adj(n) \subseteq Black
    BY DEF SearchInv, ColorsTellPath
  <2>5. Acyclic(Black)
    BY DEF SearchInv, ColorsTellPath
  <2>6. Acyclic(Black)'
    BY <1>7, <2>5, SameSpec DEF Acyclic
  <2> QED
    BY <1>7, <2>1, <2>2, <2>3, <2>4, <2>6, SameSpec DEF ColorsTellPath
<1>9. OnlyKnownColored'
  <2>1. Known' = Known /\ (UnknownStep' <=> UnknownStep)
    BY SameSpec
  <2>2. OnlyKnownColored
    BY DEF SearchInv
  <2> QED
    BY <1>4, <2>1, <2>2 DEF OnlyKnownColored
<1>10. RestIsLeft'
  <2> SUFFICES ASSUME NEW k \in DOMAIN stack'
               PROVE  /\ rest'[stack'[k]] \subseteq Adj(stack'[k])
                      /\ \A e \in Adj(stack'[k]) \ rest'[stack'[k]] :
                           \/ color'[e] = "black"
                           \/ k < Len(stack') /\ e = stack'[k + 1]
    <3>1. \A n : Adj(n)' = Adj(n)
      BY SameSpec
    <3> QED
      BY <3>1 DEF RestIsLeft
  <2>1. CASE k = Len(stack) + 1
    BY <1>3, <2>1
  <2>2. CASE k \in DOMAIN stack
    <3>1. stack'[k] = stack[k]
      BY <1>3, <2>2
    <3>2. /\ rest[stack[k]] \subseteq Adj(stack[k])
          /\ \A e \in Adj(stack[k]) \ rest[stack[k]] :
               color[e] = "black" \/ (k < Len(stack) /\ e = stack[k + 1])
      BY <2>2 DEF SearchInv, RestIsLeft
    <3>3. rest'[stack[k]] \subseteq rest[stack[k]]
      BY <2>2
    <3>4. ASSUME NEW e \in Adj(stack[k]) \ rest'[stack[k]]
          PROVE  \/ color'[e] = "black"
                 \/ k < Len(stack') /\ e = stack'[k + 1]
      <4>1. e \in Name
        BY <3>4, AdjType DEF SearchInv
      <4>4. k \in Nat /\ k <= Len(stack) /\ k < Len(stack')
        BY <1>3, <2>2
      <4>2. CASE e \notin rest[stack[k]]
        <5>1. CASE color[e] = "black"
          BY <1>4, <4>1, <5>1
        <5>2. CASE k < Len(stack) /\ e = stack[k + 1]
          <6>1. k + 1 \in DOMAIN stack
            BY <1>3, <4>4, <5>2
          <6> QED
            BY <1>3, <4>4, <5>2, <6>1
        <5> QED
          BY <3>2, <4>2, <5>1, <5>2
      <4>3. CASE e \in rest[stack[k]]
        <5>1. k = Len(stack) /\ e = d
          BY <2>2, <3>4, <4>3
        <5>2. stack'[k + 1] = e
          BY <1>3, <5>1
        <5> QED
          BY <4>4, <5>2
      <4> QED
        BY <4>2, <4>3
    <3> QED
      BY <3>1, <3>2, <3>3, <3>4
  <2> QED
    BY <1>3, <2>1, <2>2
<1>11. VerdictIsRight'
  BY DEF VerdictIsRight
<1> QED
  BY <1>5, <1>8, <1>9, <1>10, <1>11 DEF SearchInv

(***************************************************************************)
(* A name whose dependencies have all been passed over is black from then  *)
(* on; so are they.                                                        *)
(***************************************************************************)
LEMMA BlackenKeepsInv ==
  SearchInv /\ Blacken => SearchInv'
<1> SUFFICES ASSUME SearchInv, Blacken PROVE SearchInv'
  OBVIOUS
<1>1. /\ name \in Seq(Name)
      /\ dependsOn \in [Index -> SUBSET Name]
      /\ color \in [Name -> Color]
      /\ stack \in Seq(Name)
      /\ rest \in [Name -> SUBSET Name]
  BY DEF SearchInv, Types
<1>2. /\ stack # <<>>
      /\ rest[Top] = {}
      /\ color' = [color EXCEPT ![Top] = "black"]
      /\ stack' = SubSeq(stack, 1, Len(stack) - 1)
      /\ rest' = rest
      /\ verdict' = "none"
      /\ UNCHANGED spec
  BY DEF Blacken, AllLookedAt
<1>3. /\ Len(stack) \in Nat \ {0}
      /\ DOMAIN stack = 1 .. Len(stack)
      /\ Top \in Name
  BY <1>1, <1>2 DEF Top
<1>4. /\ DOMAIN stack' = 1 .. Len(stack) - 1
      /\ Len(stack') = Len(stack) - 1
      /\ \A k \in DOMAIN stack' : stack'[k] = stack[k]
      /\ stack' \in Seq(Name)
  BY <1>1, <1>2, <1>3
<1>5. \A n \in Name : color'[n] = IF n = Top THEN "black" ELSE color[n]
  BY <1>1, <1>2
<1>6. Black' = Black \union {Top}
  BY <1>3, <1>5 DEF Black
<1>7. /\ Top = stack[Len(stack)]
      /\ Len(stack) \in DOMAIN stack
      /\ \A k \in DOMAIN stack' : stack'[k] # Top
  BY <1>3, <1>4 DEF SearchInv, ColorsTellPath, Top
<1>8. color[Top] = "gray"
  BY <1>3, <1>7 DEF SearchInv, ColorsTellPath
<1>9. Top \notin Black
  BY <1>8 DEF Black
<1>10. Adj(Top) \subseteq Black
  <2>1. \A d \in Adj(stack[Len(stack)]) \ rest[stack[Len(stack)]] :
          \/ color[d] = "black"
          \/ Len(stack) < Len(stack) /\ d = stack[Len(stack) + 1]
    BY <1>7 DEF SearchInv, RestIsLeft
  <2>2. \A d \in Adj(Top) : color[d] = "black"
    BY <1>2, <1>3, <1>7, <2>1
  <2> QED
    BY <2>2, AdjType DEF Black, SearchInv
<1>11. Types'
  <2>1. name' = name /\ dependsOn' = dependsOn
    BY <1>2 DEF spec
  <2>2. name' \in Seq(Name) /\ dependsOn' \in [Index' -> SUBSET Name]
    BY <1>1, <2>1 DEF Index
  <2>3. color' \in [Name -> Color]
    BY <1>1, <1>2 DEF Color
  <2> QED
    BY <1>1, <1>2, <1>4, <2>2, <2>3 DEF Types
<1>12. ColorsTellPath'
  <2>1. \A n \in Name :
          color'[n] = "gray" <=> \E k \in DOMAIN stack' : stack'[k] = n
    <3> SUFFICES ASSUME NEW n \in Name
                 PROVE  color'[n] = "gray" <=>
                          \E k \in DOMAIN stack' : stack'[k] = n
      OBVIOUS
    <3>1. color[n] = "gray" <=> \E k \in DOMAIN stack : stack[k] = n
      BY DEF SearchInv, ColorsTellPath
    <3>2. CASE n = Top
      BY <1>5, <1>7, <3>2
    <3>3. CASE n # Top
      BY <1>3, <1>4, <1>5, <1>7, <3>1, <3>3
    <3> QED
      BY <3>2, <3>3
  <2>2. \A j, k \in DOMAIN stack' : stack'[j] = stack'[k] => j = k
    BY <1>3, <1>4 DEF SearchInv, ColorsTellPath
  <2>3. \A k \in 1 .. Len(stack') - 1 : stack'[k + 1] \in Adj(stack'[k])
    <3> SUFFICES ASSUME NEW k \in 1 .. Len(stack') - 1
                 PROVE  stack'[k + 1] \in Adj(stack'[k])
      OBVIOUS
    <3>1. /\ k \in 1 .. Len(stack) - 1
          /\ k \in DOMAIN stack'
          /\ k + 1 \in DOMAIN stack'
      BY <1>3, <1>4
    <3>2. stack[k + 1] \in Adj(stack[k])
      BY <3>1 DEF SearchInv, ColorsTellPath
    <3> QED
      BY <1>4, <3>1, <3>2
  <2>4. \A n \in Black : Adj(n) \subseteq Black
    BY DEF SearchInv, ColorsTellPath
  <2>5. Acyclic(Black)
    BY DEF SearchInv, ColorsTellPath
  <2>6. Acyclic(Black \union {Top})
    BY <1>9, <1>10, <2>4, <2>5, OneMore
  <2>7. Acyclic(Black)'
    BY <1>2, <1>6, <2>6, SameSpec DEF Acyclic
  <2>8. \A n \in Black' : Adj(n) \subseteq Black'
    BY <1>6, <1>10, <2>4
  <2> QED
    BY <1>2, <2>1, <2>2, <2>3, <2>7, <2>8, SameSpec DEF ColorsTellPath
<1>13. OnlyKnownColored'
  <2>1. Known' = Known /\ (UnknownStep' <=> UnknownStep)
    BY <1>2, SameSpec
  <2>2. OnlyKnownColored
    BY DEF SearchInv
  <2> QED
    BY <1>5, <1>8, <2>1, <2>2 DEF OnlyKnownColored
<1>14. RestIsLeft'
  <2>4. \A n : Adj(n)' = Adj(n)
    BY <1>2, SameSpec
  <2> SUFFICES ASSUME NEW k \in DOMAIN stack'
               PROVE  /\ rest'[stack'[k]] \subseteq Adj(stack'[k])
                      /\ \A e \in Adj(stack'[k]) \ rest'[stack'[k]] :
                           \/ color'[e] = "black"
                           \/ k < Len(stack') /\ e = stack'[k + 1]
    BY <2>4 DEF RestIsLeft
  <2>1. /\ stack'[k] = stack[k]
        /\ k \in DOMAIN stack
        /\ k \in Nat
    BY <1>3, <1>4
  <2>2. /\ rest[stack[k]] \subseteq Adj(stack[k])
        /\ \A e \in Adj(stack[k]) \ rest[stack[k]] :
             color[e] = "black" \/ (k < Len(stack) /\ e = stack[k + 1])
    BY <2>1 DEF SearchInv, RestIsLeft
  <2>3. ASSUME NEW e \in Adj(stack[k]) \ rest[stack[k]]
        PROVE  color'[e] = "black" \/ (k < Len(stack') /\ e = stack'[k + 1])
    <3>1. e \in Name
      BY <2>3, AdjType DEF SearchInv
    <3>2. CASE color[e] = "black"
      BY <1>5, <3>1, <3>2
    <3>3. CASE k < Len(stack) /\ e = stack[k + 1]
      <4>1. CASE k + 1 = Len(stack)
        BY <1>5, <1>7, <3>1, <3>3, <4>1
      <4>2. CASE k + 1 # Len(stack)
        <5>1. k + 1 \in DOMAIN stack' /\ k < Len(stack')
          BY <1>3, <1>4, <2>1, <3>3, <4>2
        <5> QED
          BY <1>4, <3>3, <5>1
      <4> QED
        BY <4>1, <4>2
    <3> QED
      BY <2>2, <2>3, <3>2, <3>3
  <2> QED
    BY <1>2, <2>1, <2>2, <2>3
<1>15. VerdictIsRight'
  BY <1>2 DEF VerdictIsRight
<1> QED
  BY <1>11, <1>12, <1>13, <1>14, <1>15 DEF SearchInv

(***************************************************************************)
(* The actions that begin a dfs.                                           *)
(***************************************************************************)
LEMMA VisitRootKeepsInv ==
  ASSUME SearchInv, NEW i \in Index, VisitRoot(i)
  PROVE  SearchInv'
<1>1. /\ stack = <<>>
      /\ rest \in [Name -> SUBSET Name]
      /\ name[i] \in Name
  BY DEF VisitRoot, SearchInv, Types, Index
<1>2. /\ verdict = "none" /\ verdict' = "none"
      /\ ~UnknownStep
      /\ UNCHANGED spec
      /\ color[name[i]] = "white"
      /\ color' = [color EXCEPT ![name[i]] = "gray"]
      /\ stack' = Append(stack, name[i])
      /\ rest' = [rest EXCEPT ![name[i]] = Adj(name[i])]
  BY DEF VisitRoot, Visit
<1>3. name[i] \in Known
  BY DEF Known
<1>4. /\ rest' \in [Name -> SUBSET Name]
      /\ rest'[name[i]] = Adj(name[i])
  BY <1>1, <1>2, AdjType DEF SearchInv
<1>5. DOMAIN stack = {}
  BY <1>1
<1> QED
  BY <1>1, <1>2, <1>3, <1>4, <1>5, DescendKeepsInv

LEMMA VisitNextKeepsInv ==
  ASSUME SearchInv, NEW d \in Name, VisitNext(d)
  PROVE  SearchInv'
<1>1. /\ stack \in Seq(Name)
      /\ rest \in [Name -> SUBSET Name]
      /\ color \in [Name -> Color]
  BY DEF SearchInv, Types
<1>2. /\ verdict = "none" /\ verdict' = "none"
      /\ stack # <<>>
      /\ d \in rest[Top]
      /\ color[d] = "white"
      /\ UNCHANGED spec
      /\ color' = [color EXCEPT ![d] = "gray"]
      /\ stack' = Append(stack, d)
      /\ rest' = [rest EXCEPT ![Top] = @ \ {d}, ![d] = Adj(d)]
  BY DEF VisitNext, LooksAt, Unseen
<1>3. /\ Len(stack) \in DOMAIN stack
      /\ Top = stack[Len(stack)]
      /\ \A k \in DOMAIN stack : stack[k] \in Name
  BY <1>1, <1>2 DEF Top
<1>4. d \in Adj(Top)
  BY <1>2, <1>3 DEF SearchInv, RestIsLeft
<1>5. \A k \in DOMAIN stack : color[stack[k]] = "gray" /\ stack[k] # d
  BY <1>2, <1>3 DEF SearchInv, ColorsTellPath
<1>6. ~UnknownStep
  BY <1>3, <1>5 DEF SearchInv, OnlyKnownColored
<1>7. d \in Known
  <2>1. PICK i \in LastOfName(Top) : d \in dependsOn[i]
    BY <1>4 DEF Adj
  <2> QED
    BY <1>6, <2>1 DEF UnknownStep, LastOfName
<1>8. /\ rest' \in [Name -> SUBSET Name]
      /\ rest'[d] = Adj(d)
      /\ rest'[Top] = rest[Top] \ {d}
      /\ \A n \in Name : n # d /\ n # Top => rest'[n] = rest[n]
  BY <1>1, <1>2, <1>3, <1>5, AdjType DEF SearchInv
<1>9. \A k \in DOMAIN stack : k # Len(stack) => stack[k] # Top
  BY <1>3 DEF SearchInv, ColorsTellPath
<1>10. \A k \in DOMAIN stack :
         rest'[stack[k]] = IF k = Len(stack) THEN rest[stack[k]] \ {d}
                           ELSE rest[stack[k]]
  BY <1>3, <1>5, <1>8, <1>9
<1> QED
  BY <1>2, <1>4, <1>6, <1>7, <1>8, <1>10, DescendKeepsInv

(***************************************************************************)
(* A black dependency is passed over.                                      *)
(***************************************************************************)
LEMMA PassOverKeepsInv ==
  ASSUME SearchInv, NEW d \in Name, PassOver(d)
  PROVE  SearchInv'
<1>1. /\ stack \in Seq(Name)
      /\ rest \in [Name -> SUBSET Name]
      /\ color \in [Name -> Color]
  BY DEF SearchInv, Types
<1>2. /\ color[d] = "black"
      /\ stack # <<>>
      /\ rest' = [rest EXCEPT ![Top] = @ \ {d}]
      /\ UNCHANGED spec
      /\ color' = color /\ stack' = stack /\ verdict' = verdict
  BY <1>1 DEF PassOver, LooksAt, Unseen, ClosesCycle, Color
<1>3. Top \in Name
  BY <1>1, <1>2 DEF Top
<1>4. \A n \in Name : rest'[n] = IF n = Top THEN rest[n] \ {d} ELSE rest[n]
  BY <1>1, <1>2, <1>3
<1>5. Types'
  <2>1. name' = name /\ dependsOn' = dependsOn
    BY <1>2 DEF spec
  <2>2. rest' \in [Name -> SUBSET Name]
    BY <1>1, <1>2, <1>3
  <2> QED
    BY <1>2, <2>1, <2>2 DEF SearchInv, Types, Index
<1>6. ColorsTellPath'
  <2>1. Black' = Black
    BY <1>2 DEF Black
  <2>2. \A n : Adj(n)' = Adj(n)
    BY <1>2, SameSpec
  <2>3. Acyclic(Black)' <=> Acyclic(Black)
    BY <2>1, <2>2 DEF Acyclic
  <2> QED
    BY <1>2, <2>1, <2>2, <2>3 DEF SearchInv, ColorsTellPath
<1>7. OnlyKnownColored'
  <2>1. Known' = Known /\ (UnknownStep' <=> UnknownStep)
    BY <1>2, SameSpec
  <2> QED
    BY <1>2, <2>1 DEF SearchInv, OnlyKnownColored
<1>8. RestIsLeft'
  <2>1. \A n : Adj(n)' = Adj(n)
    BY <1>2, SameSpec
  <2> SUFFICES ASSUME NEW k \in DOMAIN stack
               PROVE  /\ rest'[stack[k]] \subseteq Adj(stack[k])
                      /\ \A e \in Adj(stack[k]) \ rest'[stack[k]] :
                           \/ color[e] = "black"
                           \/ k < Len(stack) /\ e = stack[k + 1]
    BY <1>2, <2>1 DEF RestIsLeft
  <2>2. stack[k] \in Name
    BY <1>1
  <2>3. /\ rest[stack[k]] \subseteq Adj(stack[k])
        /\ \A e \in Adj(stack[k]) \ rest[stack[k]] :
             color[e] = "black" \/ (k < Len(stack) /\ e = stack[k + 1])
    BY DEF SearchInv, RestIsLeft
  <2> QED
    BY <1>2, <1>4, <2>2, <2>3
<1>9. VerdictIsRight'
  BY <1>2 DEF VerdictIsRight, PassOver, LooksAt
<1> QED
  BY <1>5, <1>6, <1>7, <1>8, <1>9 DEF SearchInv

(***************************************************************************)
(* A verdict disturbs nothing else.                                        *)
(***************************************************************************)
LEMMA VerdictKeepsInv ==
  ASSUME SearchInv, UNCHANGED <<spec, search>>, VerdictIsRight',
         verdict' \in {"none", "unknown step", "cycle", "valid"}
  PROVE  SearchInv'
<1>1. /\ color' = color /\ stack' = stack /\ rest' = rest
      /\ name' = name /\ dependsOn' = dependsOn
      /\ UNCHANGED spec
  BY DEF spec, search
<1>2. /\ \A n : Adj(n)' = Adj(n)
      /\ Known' = Known
      /\ UnknownStep' <=> UnknownStep
      /\ Index' = Index
  <2>1. UNCHANGED spec
    BY <1>1
  <2>2. (\A n : Adj(n)' = Adj(n)) /\ Known' = Known /\ Index' = Index
    BY <2>1, SameSpec
  <2>3. UnknownStep' <=> UnknownStep
    BY <2>1, SameSpec
  <2> QED
    BY <2>2, <2>3
<1>3. Black' = Black
  BY <1>1 DEF Black
<1>4. Types'
  BY <1>1, <1>2 DEF SearchInv, Types
<1>5. ColorsTellPath'
  <2>1. Acyclic(Black)' <=> Acyclic(Black)
    BY <1>2, <1>3 DEF Acyclic
  <2> QED
    BY <1>1, <1>2, <1>3, <2>1 DEF SearchInv, ColorsTellPath
<1>6. OnlyKnownColored'
  BY <1>1, <1>2 DEF SearchInv, OnlyKnownColored
<1>7. RestIsLeft'
  BY <1>1, <1>2 DEF SearchInv, RestIsLeft
<1> QED
  BY <1>4, <1>5, <1>6, <1>7 DEF SearchInv

(***************************************************************************)
(* The names on the stack from a gray one up are a cycle.                  *)
(***************************************************************************)
LEMMA FindCycleKeepsInv ==
  ASSUME SearchInv, NEW d \in Name, FindCycle(d)
  PROVE  SearchInv'
<1>1. /\ color[d] = "gray"
      /\ stack # <<>>
      /\ d \in rest[Top]
      /\ verdict' = "cycle"
      /\ UNCHANGED <<spec, search>>
      /\ UNCHANGED spec
  BY DEF FindCycle, LooksAt, ClosesCycle
<1>2. stack \in Seq(Name)
  BY DEF SearchInv, Types
<1>3. PICK j \in DOMAIN stack : stack[j] = d
  BY <1>1 DEF SearchInv, ColorsTellPath
<1> DEFINE T == {stack[k] : k \in j .. Len(stack)}
<1>4. /\ Len(stack) \in Nat
      /\ j \in 1 .. Len(stack)
      /\ \A k \in j .. Len(stack) : k \in DOMAIN stack
      /\ Top = stack[Len(stack)]
  BY <1>2, <1>3 DEF Top
<1>5. \A k \in DOMAIN stack : color[stack[k]] = "gray"
  BY <1>2 DEF SearchInv, ColorsTellPath
<1>6. \A k \in DOMAIN stack : stack[k] \in Known /\ ~UnknownStep
  BY <1>2, <1>5 DEF SearchInv, OnlyKnownColored
<1>7. T \in SUBSET Known /\ d \in T /\ ~UnknownStep
  BY <1>3, <1>4, <1>6
<1>8. \A k \in j .. Len(stack) : Adj(stack[k]) \intersect T # {}
  <2> SUFFICES ASSUME NEW k \in j .. Len(stack)
               PROVE  Adj(stack[k]) \intersect T # {}
    OBVIOUS
  <2>1. CASE k = Len(stack)
    <3>1. d \in Adj(stack[k])
      BY <1>1, <1>4, <2>1 DEF SearchInv, RestIsLeft
    <3> QED
      BY <1>7, <3>1
  <2>2. CASE k < Len(stack)
    <3>1. k \in 1 .. Len(stack) - 1 /\ k + 1 \in j .. Len(stack)
      BY <1>4, <2>2
    <3>2. stack[k + 1] \in Adj(stack[k])
      BY <3>1 DEF SearchInv, ColorsTellPath
    <3> QED
      BY <3>1, <3>2
  <2> QED
    BY <1>4, <2>1, <2>2
<1>9. \A n \in T : Adj(n) \intersect T # {}
  BY <1>8
<1>10. ~Acyclic(Known)
  <2> HIDE DEF T
  <2> QED
    BY <1>7, <1>9 DEF Acyclic
<1>11. VerdictIsRight'
  <2>1. /\ \A n : Adj(n)' = Adj(n)
        /\ Known' = Known
        /\ UnknownStep' <=> UnknownStep
    BY <1>1, SameSpec
  <2>2. Acyclic(Known)' <=> Acyclic(Known)
    BY <2>1 DEF Acyclic
  <2> QED
    BY <1>1, <1>7, <1>10, <2>1, <2>2 DEF VerdictIsRight
<1> QED
  BY <1>1, <1>11, VerdictKeepsInv

(***************************************************************************)
(* When no dfs is under way and no step is white, all known names are      *)
(* black.                                                                  *)
(***************************************************************************)
LEMMA AcceptKeepsInv ==
  SearchInv /\ Accept => SearchInv'
<1> SUFFICES ASSUME SearchInv, Accept PROVE SearchInv'
  OBVIOUS
<1>1. /\ ~UnknownStep
      /\ stack = <<>>
      /\ \A i \in Index : color[name[i]] # "white"
      /\ verdict' = "valid"
      /\ UNCHANGED <<spec, search>>
      /\ UNCHANGED spec
  BY DEF Accept
<1>2. \A i \in Index : name[i] \in Name
  <2>1. name \in Seq(Name)
    BY DEF SearchInv, Types
  <2> QED
    BY <2>1 DEF Index
<1>3. \A n \in Name : color[n] # "gray"
  BY <1>1 DEF SearchInv, ColorsTellPath
<1>4. Known \subseteq Black
  <2>1. color \in [Name -> {"white", "gray", "black"}]
    BY DEF SearchInv, Types, Color
  <2>2. \A i \in Index : color[name[i]] = "black"
    BY <1>1, <1>2, <1>3, <2>1
  <2>3. \A i \in Index : name[i] \in Black
    BY <1>2, <2>2 DEF Black
  <2> QED
    BY <2>3 DEF Known
<1>5. Acyclic(Known)
  BY <1>4 DEF SearchInv, ColorsTellPath, Acyclic
<1>6. DistinctNames => NoStepWaitsForItself
  BY <1>5, NamesAndSteps DEF SearchInv
<1>7. VerdictIsRight'
  <2>1. /\ \A n : Adj(n)' = Adj(n)
        /\ Known' = Known
        /\ Index' = Index
        /\ UnknownStep' <=> UnknownStep
        /\ NoStepWaitsForItself' <=> NoStepWaitsForItself
        /\ name' = name
    BY <1>1, SameSpec DEF spec
  <2>2. Acyclic(Known)' <=> Acyclic(Known)
    BY <2>1 DEF Acyclic
  <2> QED
    BY <1>1, <1>5, <1>6, <2>1, <2>2 DEF VerdictIsRight, DistinctNames
<1> QED
  BY <1>1, <1>7, VerdictKeepsInv

LEMMA RejectUnknownKeepsInv ==
  SearchInv /\ RejectUnknown => SearchInv'
<1> SUFFICES ASSUME SearchInv, RejectUnknown PROVE SearchInv'
  OBVIOUS
<1>1. /\ UnknownStep
      /\ verdict' = "unknown step"
      /\ UNCHANGED <<spec, search>>
      /\ UNCHANGED spec
  BY DEF RejectUnknown
<1>2. UnknownStep'
  BY <1>1, SameSpec
<1>3. VerdictIsRight'
  BY <1>1, <1>2 DEF VerdictIsRight
<1> QED
  BY <1>1, <1>3, VerdictKeepsInv

LEMMA SearchInvStep ==
  SearchInv /\ [ValidationNext]_validationVars => SearchInv'
<1> SUFFICES ASSUME SearchInv, [ValidationNext]_validationVars
             PROVE  SearchInv'
  OBVIOUS
<1>1. CASE RejectUnknown
  BY <1>1, RejectUnknownKeepsInv
<1>2. CASE Blacken
  BY <1>2, BlackenKeepsInv
<1>3. CASE Accept
  BY <1>3, AcceptKeepsInv
<1>4. ASSUME NEW i \in Index, VisitRoot(i)
      PROVE  SearchInv'
  BY <1>4, VisitRootKeepsInv
<1>5. ASSUME NEW d \in Name, FindCycle(d) \/ VisitNext(d) \/ PassOver(d)
      PROVE  SearchInv'
  BY <1>5, FindCycleKeepsInv, VisitNextKeepsInv, PassOverKeepsInv
<1>6. CASE UNCHANGED validationVars
  <2>1. /\ UNCHANGED <<spec, search>>
        /\ UNCHANGED spec
        /\ verdict' = verdict
    BY <1>6 DEF validationVars
  <2>2. /\ \A n : Adj(n)' = Adj(n)
        /\ Known' = Known
        /\ Index' = Index
        /\ UnknownStep' <=> UnknownStep
        /\ NoStepWaitsForItself' <=> NoStepWaitsForItself
        /\ name' = name
    BY <2>1, SameSpec DEF spec
  <2>3. Acyclic(Known)' <=> Acyclic(Known)
    BY <2>2 DEF Acyclic
  <2>4. VerdictIsRight'
    BY <2>1, <2>2, <2>3 DEF SearchInv, VerdictIsRight, DistinctNames
  <2> QED
    BY <2>1, <2>4, VerdictKeepsInv DEF SearchInv, Types
<1> QED
  BY <1>1, <1>2, <1>3, <1>4, <1>5, <1>6 DEF ValidationNext

(***************************************************************************)
(* The colours mean what the search takes them to mean, whatever the       *)
(* dependencies, and its verdict is right.                                 *)
(***************************************************************************)
THEOREM ValidationKeepsSearchInv == ValidationSpec => []SearchInv
<1> QED
  BY SearchInvInit, SearchInvStep, PTL DEF ValidationSpec

\* A gray name is on the path being searched, a black one leads to no cycle.
THEOREM ColorsAlwaysTellPath == ValidationSpec => []ColorsTellPath
<1>1. SearchInv => ColorsTellPath
  BY DEF SearchInv
<1> QED
  BY <1>1, ValidationKeepsSearchInv, PTL

\* A flow is accepted exactly if its dependencies are known and acyclic.
THEOREM VerdictAlwaysRight == ValidationSpec => []VerdictIsRight
<1>1. SearchInv => VerdictIsRight
  BY DEF SearchInv
<1> QED
  BY <1>1, ValidationKeepsSearchInv, PTL

\* The types; since no name is on the stack twice, the recursion is no
\* deeper than there are names.
THEOREM ValidationTypes == ValidationSpec => []SearchTypeOK
<1>1. SearchInv => SearchTypeOK
  <2> SUFFICES ASSUME SearchInv PROVE SearchTypeOK
    OBVIOUS
  <2>1. /\ stack \in Seq(Name)
        /\ \A j, k \in DOMAIN stack : stack[j] = stack[k] => j = k
    BY DEF SearchInv, Types, ColorsTellPath
  <2>2. /\ Len(stack) \in Nat
        /\ DOMAIN stack = 1 .. Len(stack)
        /\ stack \in [1 .. Len(stack) -> Name]
    BY <2>1
  <2>3. /\ IsFiniteSet(1 .. Len(stack))
        /\ Cardinality(1 .. Len(stack)) = Len(stack)
    BY <2>2, FS_Interval
  <2>4. IsFiniteSet(Name) /\ Cardinality(Name) \in Nat
    BY ValidationAssumption, FS_CardinalityType
  <2>5. ~(Cardinality(Name) < Cardinality(1 .. Len(stack)))
    BY <2>1, <2>2, <2>3, <2>4, FS_PigeonHole
  <2>6. Len(stack) <= Cardinality(Name)
    BY <2>2, <2>3, <2>4, <2>5
  <2> QED
    BY <2>6 DEF SearchInv, Types, SearchTypeOK
<1> QED
  BY <1>1, ValidationKeepsSearchInv, PTL
=============================================================================
