--------------------------- MODULE ArkAgentProofs ----------------------------
(***************************************************************************)
(* Theorems about the agent's reconciler, for any flows, limits, texts,    *)
(* settings and memories, and any number of disruptions: the types; when   *)
(* it rests, the Deployment has the current prompt and the status tells    *)
(* whether it is ready; its replicas follow the status, a budget that is   *)
(* reached is in the status, and an agent scaled to zero is looked at      *)
(* again.                                                                  *)
(***************************************************************************)
EXTENDS ArkAgent, TLAPS, FiniteSetTheorems, WellFoundedInduction

(***************************************************************************)
(* What TemplateAtRest asks of the pods' environment, for a prompt.        *)
(***************************************************************************)
GoodEnv(env, text) ==
  /\ env["AGENT_SYSTEM_PROMPT"][2] = text
  /\ "AGENT_MEMORY_REDIS_URL" \in DOMAIN env =>
       env["AGENT_MEMORY_BACKEND"] = "redis"

(***************************************************************************)
(* buildEnvVars puts the prompt there, and the memory before the settings. *)
(***************************************************************************)
LEMMA EnvIsGood ==
  ASSUME NEW text, NEW objs
  PROVE  GoodEnv(buildEnvVars(text, objs), text)
<1> DEFINE own == OwnEnvVars(text, objs.settings)
           set == buildSettingsEnvVars(objs.settings)
           mem == buildMemoryEnvVars(objs.memory)
           env == AppendVars(AppendVars(own, set), mem)
<1>1. /\ "AGENT_SYSTEM_PROMPT" \notin DOMAIN mem
      /\ "AGENT_MEMORY_REDIS_URL" \in DOMAIN mem =>
           /\ "AGENT_MEMORY_BACKEND" \in DOMAIN mem
           /\ mem["AGENT_MEMORY_BACKEND"] = "redis"
  <2>1. CASE objs.memory = Missing
    BY <2>1 DEF buildMemoryEnvVars
  <2>2. CASE objs.memory # Missing
    <3> DEFINE kind == [AGENT_MEMORY_BACKEND |-> objs.memory]
               more == BackendEnvVars(objs.memory)
    <3>1. /\ DOMAIN kind = {"AGENT_MEMORY_BACKEND"}
          /\ kind["AGENT_MEMORY_BACKEND"] = objs.memory
      OBVIOUS
    <3>2. /\ "AGENT_SYSTEM_PROMPT" \notin DOMAIN more
          /\ "AGENT_MEMORY_BACKEND" \notin DOMAIN more
          /\ "AGENT_MEMORY_REDIS_URL" \in DOMAIN more =>
               objs.memory = "redis"
      BY DEF BackendEnvVars
    <3>3. mem = AppendVars(kind, more)
      BY <2>2 DEF buildMemoryEnvVars
    <3> HIDE DEF kind, more, mem
    <3>4. /\ DOMAIN mem = DOMAIN kind \union DOMAIN more
          /\ \A x \in DOMAIN mem :
               mem[x] = IF x \in DOMAIN more THEN more[x] ELSE kind[x]
      BY <3>3 DEF AppendVars
    <3> QED
      BY <3>1, <3>2, <3>4
  <2> QED
    BY <2>1, <2>2
<1>2. /\ "AGENT_SYSTEM_PROMPT" \notin DOMAIN set
      /\ "AGENT_MEMORY_REDIS_URL" \notin DOMAIN set
  <2>1. CASE objs.settings = Missing
    BY <2>1 DEF buildSettingsEnvVars
  <2>2. CASE objs.settings # Missing
    BY <2>2 DEF buildSettingsEnvVars
  <2> QED
    BY <2>1, <2>2
<1>3. /\ DOMAIN own = {"AGENT_SYSTEM_PROMPT"}
      /\ own["AGENT_SYSTEM_PROMPT"][2] = text
  BY DEF OwnEnvVars, mergeSystemPrompt
<1> HIDE DEF mem, set, own
<1>4. /\ DOMAIN env = (DOMAIN own \union DOMAIN set) \union DOMAIN mem
      /\ \A x \in DOMAIN env :
           env[x] = IF x \in DOMAIN mem THEN mem[x]
                    ELSE IF x \in DOMAIN set THEN set[x] ELSE own[x]
  BY DEF AppendVars
<1> HIDE DEF env
<1>5. "AGENT_SYSTEM_PROMPT" \in DOMAIN env
  BY <1>3, <1>4
<1>6. env["AGENT_SYSTEM_PROMPT"] = own["AGENT_SYSTEM_PROMPT"]
  BY <1>1, <1>2, <1>4, <1>5
<1>7. "AGENT_MEMORY_REDIS_URL" \in DOMAIN env =>
        env["AGENT_MEMORY_BACKEND"] = "redis"
  BY <1>1, <1>2, <1>3, <1>4
<1>8. env = buildEnvVars(text, objs)
  BY DEF env, own, set, mem, buildEnvVars
<1>9. GoodEnv(env, text)
  BY <1>3, <1>6, <1>7 DEF GoodEnv
<1> QED
  BY <1>8, <1>9

(***************************************************************************)
(* The timer of reconcileDailyBudget is set for the future: a budget that  *)
(* is exceeded is exceeded by some step, and the oldest of them is in the  *)
(* window.                                                                 *)
(***************************************************************************)
LEMMA EarliestIsOne ==
  ASSUME NEW T, T \subseteq Nat, T # {}
  PROVE  Min(T) \in T
<1> DEFINE R == OpToRel(<, Nat)
<1>1. IsWellFoundedOn(R, Nat)
  BY NatLessThanWellFounded
<1>2. \A x, y \in Nat : <<y, x>> \in R <=> y < x
  BY DEF OpToRel
<1> HIDE DEF R
<1>3. PICK x \in T : \A y \in T : ~ (<<y, x>> \in R)
  BY <1>1, WFMin
<1>4. \A y \in T : x <= y
  <2> SUFFICES ASSUME NEW y \in T PROVE x <= y
    OBVIOUS
  <2>1. x \in Nat /\ y \in Nat
    BY <1>3
  <2>2. ~ (y < x)
    BY <1>2, <1>3, <2>1
  <2> QED
    BY <2>1, <2>2
<1> QED
  BY <1>3, <1>4 DEF Min

LEMMA NothingUsed ==
  ASSUME NEW fs, NEW now, Counted(fs, now) = {}
  PROVE  Usage(fs, now) = 0
<1> DEFINE F(g) == [s \in SUBSET {} |->
                      IF s = {} THEN 0
                      ELSE LET x == CHOOSE y \in s : TRUE
                           IN  fs[x].tokens + g[s \ {x}]]
<1>1. Usage(fs, now) = (CHOOSE g : g = F(g))[{}]
  BY DEF Usage, MapThenSumSet, MapThenFoldSet
<1>2. \E g : g = F(g)
  <2>1. [s \in SUBSET {} |-> 0] = F([s \in SUBSET {} |-> 0])
    OBVIOUS
  <2> QED
    BY <2>1
<1>3. PICK g : g = (CHOOSE h : h = F(h)) /\ g = F(g)
  BY <1>2
<1>4. g[{}] = 0
  BY <1>3
<1> QED
  BY <1>1, <1>3, <1>4

LEMMA RequeueIsLater ==
  ASSUME NEW fs \in [Flow -> Entry], NEW now \in Time, NEW limit \in Nat,
         Exceeds(limit, fs, now)
  PROVE  RequeueAfter(fs, now) \in Int /\ RequeueAfter(fs, now) > 0
<1> DEFINE T == {fs[w].at : w \in Counted(fs, now)}
<1>1. Counted(fs, now) # {}
  <2> SUFFICES ASSUME Counted(fs, now) = {} PROVE FALSE
    OBVIOUS
  <2>1. Usage(fs, now) = 0
    BY NothingUsed
  <2> QED
    BY <2>1 DEF Exceeds
<1>2. Window \in Nat /\ MaxTime \in Nat /\ now \in Nat
  BY AgentAssumption DEF Time
<1>3. \A w \in Counted(fs, now) :
        fs[w].at \in Nat /\ fs[w].at >= now - Window
  <2> SUFFICES ASSUME NEW w \in Counted(fs, now)
               PROVE  fs[w].at \in Nat /\ fs[w].at >= now - Window
    OBVIOUS
  <2>1. fs[w] \in Entry /\ InWindow(fs[w], now)
    BY DEF Counted
  <2> QED
    BY <1>2, <2>1 DEF Entry, Unused, InWindow, Time
<1>4. T \subseteq Nat /\ T # {}
  BY <1>1, <1>3
<1>5. Min(T) \in T
  BY <1>4, EarliestIsOne
<1>6. Min(T) \in Nat /\ Min(T) >= now - Window
  BY <1>3, <1>5
<1>7. RequeueAfter(fs, now) = Min(T) + Window - now + 1
  BY DEF RequeueAfter
<1> QED
  BY <1>2, <1>6, <1>7

(***************************************************************************)
(* The inductive invariant.  Records are records, and the cached copies of *)
(* the agent, the Deployment and the prompt are current unless a watch     *)
(* event is on its way.                                                    *)
(***************************************************************************)
IsStatus(st) ==
  st \in [exceeded : {st.exceeded}, usage : {st.usage}, ready : {st.ready}]

IsAgent(a) ==
  /\ a \in [rv : {a.rv}, limit : {a.limit}, replicas : {a.replicas},
            st : {a.st}]
  /\ IsStatus(a.st)
  /\ a.limit \in Nat

IsDeployment(d) ==
  d \in [there : {d.there}, replicas : {d.replicas}, hash : {d.hash},
         env : {d.env}, available : {d.available}]

IsCopy(c) ==
  c \in [agent : {c.agent}, dep : {c.dep}, flows : {c.flows},
         prompt : {c.prompt}, refs : {c.refs}]

Shapes ==
  /\ IsAgent(agent) /\ IsDeployment(dep)
  /\ IsCopy(seen) /\ IsAgent(seen.agent) /\ IsDeployment(seen.dep)
  /\ IsStatus(job.st) /\ IsDeployment(job.want) /\ job.after \in Int
  /\ flows \in [Flow -> Entry] /\ seen.flows \in [Flow -> Entry]
  /\ clock \in Time

CopiesCurrent ==
  /\ "agent" \notin changed => seen.agent = agent
  /\ "dep" \notin changed => seen.dep = dep
  /\ "prompt" \notin changed => seen.prompt = prompt

(***************************************************************************)
(* A reconciliation wants what the prompt asks for and the budget leaves,  *)
(* unless something will wake the reconciler again; once it has made its   *)
(* call, the Deployment is what it wants, with the same exception; and so  *)
(* it is when it rests, with a timer if there is nothing to wait for but   *)
(* the end of the window.                                                  *)
(***************************************************************************)
Wanted ==
  pc \in {"apply", "save"} =>
    /\ job.want.there = TRUE
    /\ GoodEnv(job.want.env, job.want.hash)
    /\ job.st.exceeded => job.after > 0
    /\ wake \/ "prompt" \in changed \/ job.want.hash = prompt
    /\ \/ wake \/ "agent" \in changed
       \/ job.want.replicas = IF job.st.exceeded THEN 0 ELSE agent.replicas

HasWanted ==
  (pc = "save" /\ ~wake /\ "dep" \notin changed) =>
    /\ dep.there = TRUE
    /\ dep.replicas = job.want.replicas
    /\ dep.hash = job.want.hash
    /\ dep.env = job.want.env

RestsOnTemplate ==
  /\ dep.hash = prompt
  /\ GoodEnv(dep.env, prompt)
  /\ agent.st.ready = ReadyReason(dep)

RestsOnBudget ==
  /\ dep.there = TRUE
  /\ LookedAtAgain
  /\ "agent" \notin changed =>
       dep.replicas = IF agent.st.exceeded THEN 0 ELSE agent.replicas

Rests ==
  (pc = "idle" /\ ~wake /\ "dep" \notin changed /\ "prompt" \notin changed) =>
    RestsOnTemplate /\ RestsOnBudget

AgentInv == Shapes /\ CopiesCurrent /\ Wanted /\ HasWanted /\ Rests

LEMMA NoJobShape ==
  IsStatus(NoJob.st) /\ IsDeployment(NoJob.want) /\ NoJob.after \in Int
<1>1. /\ NoJob.st = InitialStatus /\ NoJob.want = NoDeployment
      /\ NoJob.after = -1
  BY DEF NoJob, Never
<1>2. IsStatus(InitialStatus)
  BY DEF IsStatus, InitialStatus
<1>3. IsDeployment(NoDeployment)
  BY DEF IsDeployment, NoDeployment
<1>4. NoJob.after \in Int
  BY <1>1
<1> QED
  BY <1>1, <1>2, <1>3, <1>4

LEMMA AgentInvInit == Init => AgentInv
<1> SUFFICES ASSUME Init PROVE AgentInv
  OBVIOUS
<1>1. PICK limit, replicas : agent = [rv |-> 0, limit |-> limit,
                                      replicas |-> replicas,
                                      st |-> InitialStatus]
  BY DEF Init
<1>2. IsStatus(InitialStatus)
  BY DEF IsStatus, InitialStatus
<1>3. IsAgent(agent)
  <2>1. agent.limit \in Nat
    BY AgentAssumption DEF Init
  <2> QED
    BY <1>1, <1>2, <2>1 DEF IsAgent
<1>4. IsDeployment(NoDeployment)
  BY DEF IsDeployment, NoDeployment
<1>5. seen = [agent |-> agent, dep |-> dep, flows |-> flows,
              prompt |-> prompt, refs |-> refs]
  BY DEF Init, Objects
<1>6. Shapes
  <2>1. dep = NoDeployment
    BY DEF Init
  <2>2. job.st = InitialStatus /\ job.want = NoDeployment /\ job.after = Never
    BY DEF Init, NoJob
  <2>3. /\ IsCopy(seen)
        /\ seen.agent = agent /\ seen.dep = dep /\ seen.flows = flows
    BY <1>5 DEF IsCopy
  <2>4. flows \in [Flow -> Entry] /\ clock \in Time
    BY AgentAssumption DEF Init, Entry, Time
  <2> QED
    BY <1>2, <1>3, <1>4, <2>1, <2>2, <2>3, <2>4 DEF Shapes, Never
<1>7. CopiesCurrent
  BY <1>5 DEF CopiesCurrent
<1> QED
  BY <1>6, <1>7 DEF Init, AgentInv, Wanted, HasWanted, Rests

(***************************************************************************)
(* What a watch event tells of the agent, the Deployment and the prompt.   *)
(***************************************************************************)
LEMMA EventTells ==
  ASSUME NEW o \in Object, Event(o)
  PROVE  /\ seen' = seen
         /\ changed \subseteq changed'
         /\ (o # "agent" /\ "agent" \in changed') => "agent" \in changed
         /\ (o # "dep" /\ "dep" \in changed') => "dep" \in changed
         /\ (o # "prompt" /\ "prompt" \in changed') => "prompt" \in changed
         /\ (o = "agent" /\ "agent" \notin changed') => agent' = agent
         /\ (o = "dep" /\ "dep" \notin changed') => dep' = dep
         /\ (o = "prompt" /\ "prompt" \notin changed') => prompt' = prompt
<1>1. /\ Objects["agent"] = agent
      /\ Objects["dep"] = dep /\ Objects["prompt"] = prompt
  BY DEF Objects
<1>2. /\ Objects'["agent"] = agent'
      /\ Objects'["dep"] = dep' /\ Objects'["prompt"] = prompt'
  BY DEF Objects
<1>3. /\ seen' = seen
      /\ changed' = changed \/ changed' = changed \union {o}
      /\ o \notin changed' => Objects'[o] = Objects[o]
  BY DEF Event
<1> QED
  BY <1>1, <1>2, <1>3

(***************************************************************************)
(* What everybody but the reconciler and the informers does.               *)
(***************************************************************************)
Outside ==
  /\ UNCHANGED <<pc, job, wake, alarm, seen>>
  /\ changed \subseteq changed'
  /\ "agent" \notin changed' => agent' = agent
  /\ "dep" \notin changed' => dep' = dep
  /\ "prompt" \notin changed' => prompt' = prompt
  /\ agent'.st = agent.st
  /\ IsAgent(agent') /\ IsDeployment(dep')
  /\ flows' \in [Flow -> Entry] /\ clock' \in Time

LEMMA OutsideKeepsInv ==
  AgentInv /\ Outside => AgentInv'
<1> SUFFICES ASSUME AgentInv, Outside PROVE AgentInv'
  OBVIOUS
<1>1. Shapes'
  BY DEF Outside, AgentInv, Shapes, IsCopy
<1>2. CopiesCurrent'
  BY DEF Outside, AgentInv, CopiesCurrent
<1>3. Wanted'
  BY DEF Outside, AgentInv, Wanted
<1>4. HasWanted'
  BY DEF Outside, AgentInv, HasWanted
<1>5. Rests'
  BY DEF Outside, AgentInv, Rests, RestsOnTemplate, RestsOnBudget,
         ReadyReason, LookedAtAgain
<1> QED
  BY <1>1, <1>2, <1>3, <1>4, <1>5 DEF AgentInv

LEMMA OthersStayOutside ==
  ASSUME AgentInv,
         \/ \E w \in Flow : CompleteStep(w) \/ ForgetStep(w)
         \/ EditAgent \/ EditPrompt \/ EditRefs \/ EditDeployment
         \/ MovePods \/ Tick
  PROVE  Outside
<1>0. /\ IsAgent(agent) /\ IsDeployment(dep)
      /\ flows \in [Flow -> Entry] /\ clock \in Time
  BY DEF AgentInv, Shapes
<1>1. CASE \E w \in Flow : CompleteStep(w) \/ ForgetStep(w)
  <2>1. PICK w \in Flow : CompleteStep(w) \/ ForgetStep(w)
    BY <1>1
  <2>2. /\ UNCHANGED <<agent, dep, prompt, control, clock>>
        /\ Event("flows")
    BY <2>1 DEF CompleteStep, ForgetStep, bounds
  <2>3. flows' \in [Flow -> Entry]
    <3>1. [at |-> clock, tokens |-> Tokens[w]] \in Entry
      BY <1>0, AgentAssumption DEF Entry
    <3>2. Unused \in Entry
      BY DEF Entry
    <3> QED
      BY <1>0, <2>1, <3>1, <3>2 DEF CompleteStep, ForgetStep
  <2> QED
    BY <1>0, <2>2, <2>3, EventTells DEF Outside, control, Object
<1>2. CASE EditAgent
  <2>1. /\ UNCHANGED <<dep, flows, prompt, control, clock>>
        /\ Event("agent")
    BY <1>2 DEF EditAgent
  <2>2. PICK limit \in Limits, replicas \in Replicas :
          agent' = [agent EXCEPT !.rv = agent.rv + 1, !.limit = limit,
                                 !.replicas = replicas]
    BY <1>2 DEF EditAgent
  <2>3. limit \in Nat
    BY AgentAssumption
  <2>4. agent'.st = agent.st /\ IsAgent(agent')
    BY <1>0, <2>2, <2>3 DEF IsAgent
  <2> QED
    BY <1>0, <2>1, <2>4, EventTells DEF Outside, control, Object
<1>3. CASE EditPrompt
  <2>1. UNCHANGED <<agent, dep, flows, control, clock>> /\ Event("prompt")
    BY <1>3 DEF EditPrompt
  <2> QED
    BY <1>0, <2>1, EventTells DEF Outside, control, Object
<1>4. CASE EditRefs
  <2>1. /\ UNCHANGED <<agent, dep, flows, prompt, control, clock>>
        /\ Event("refs")
    BY <1>4 DEF EditRefs
  <2> QED
    BY <1>0, <2>1, EventTells DEF Outside, control, Object
<1>5. CASE EditDeployment
  <2>1. /\ UNCHANGED <<agent, flows, prompt, control, clock>>
        /\ Event("dep")
        /\ \/ \E n : dep' = [dep EXCEPT !.replicas = n]
           \/ dep' = NoDeployment
    BY <1>5 DEF EditDeployment
  <2>2. IsDeployment(dep')
    BY <1>0, <2>1 DEF IsDeployment, NoDeployment
  <2> QED
    BY <1>0, <2>1, <2>2, EventTells DEF Outside, control, Object
<1>6. CASE MovePods
  <2>1. /\ UNCHANGED <<agent, flows, prompt, control, clock>>
        /\ Event("dep")
        /\ \E b : dep' = [dep EXCEPT !.available = b]
    BY <1>6 DEF MovePods, bounds
  <2>2. IsDeployment(dep')
    BY <1>0, <2>1 DEF IsDeployment
  <2> QED
    BY <1>0, <2>1, <2>2, EventTells DEF Outside, control, Object
<1>7. CASE Tick
  <2>1. UNCHANGED <<agent, dep, flows, prompt, seen, changed, control>>
    BY <1>7 DEF Tick, cluster, informer
  <2>2. clock' \in Time
    BY <1>0, <1>7, AgentAssumption DEF Tick, Time
  <2> QED
    BY <1>0, <2>1, <2>2 DEF Outside, control
<1> QED
  BY <1>1, <1>2, <1>3, <1>4, <1>5, <1>6, <1>7

(***************************************************************************)
(* A reconciler that will be woken has nothing to keep but its copies.     *)
(***************************************************************************)
LEMMA AwakeKeepsInv ==
  Shapes' /\ CopiesCurrent' /\ wake' /\ pc' \in {"idle", "report"}
    => AgentInv'
BY DEF AgentInv, Wanted, HasWanted, Rests

(***************************************************************************)
(* The informers: a change of the agent, the Deployment or the prompt that *)
(* becomes known wakes the reconciler.                                     *)
(***************************************************************************)
LEMMA SyncKeepsInv ==
  ASSUME AgentInv, NEW o \in Object, Sync(o)
  PROVE  AgentInv'
<1>1. /\ UNCHANGED <<agent, dep, flows, prompt, refs, pc, job, alarm, clock>>
      /\ seen' = [seen EXCEPT ![o] = Objects[o]]
      /\ changed' = changed \ {o}
      /\ (wake \/ o \in {"agent", "dep", "prompt"}) => wake'
  BY DEF Sync, cluster, bounds, Wakes
<1>2. IsCopy(seen) /\ IsAgent(seen.agent) /\ IsDeployment(seen.dep)
  BY DEF AgentInv, Shapes
<1>3. /\ IsCopy(seen')
      /\ seen'.agent = IF o = "agent" THEN agent ELSE seen.agent
      /\ seen'.dep = IF o = "dep" THEN dep ELSE seen.dep
      /\ seen'.flows = IF o = "flows" THEN flows ELSE seen.flows
      /\ seen'.prompt = IF o = "prompt" THEN prompt ELSE seen.prompt
  BY <1>1, <1>2 DEF IsCopy, Object, Objects
<1>4. Shapes'
  BY <1>1, <1>2, <1>3 DEF AgentInv, Shapes
<1>5. CopiesCurrent'
  BY <1>1, <1>3 DEF AgentInv, CopiesCurrent
<1>6. Wanted'
  BY <1>1 DEF AgentInv, Wanted
<1>7. HasWanted'
  BY <1>1 DEF AgentInv, HasWanted
<1>8. Rests'
  BY <1>1 DEF AgentInv, Rests, RestsOnTemplate, RestsOnBudget, ReadyReason,
              LookedAtAgain
<1> QED
  BY <1>4, <1>5, <1>6, <1>7, <1>8 DEF AgentInv

(***************************************************************************)
(* Timers, resyncs, failures before anything was done, and stutters: at    *)
(* most, the reconciler is woken.                                          *)
(***************************************************************************)
LEMMA WakeUpKeepsInv ==
  ASSUME AgentInv,
         UNCHANGED <<cluster, informer, pc, job, clock>>,
         wake' \/ UNCHANGED <<wake, alarm>>
  PROVE  AgentInv'
<1>1. UNCHANGED <<agent, dep, flows, prompt, seen, changed, pc, job, clock>>
  BY DEF cluster, informer
<1>2. Shapes' /\ CopiesCurrent'
  BY <1>1 DEF AgentInv, Shapes, CopiesCurrent
<1>3. Wanted' /\ HasWanted'
  BY <1>1 DEF AgentInv, Wanted, HasWanted
<1>4. Rests'
  BY <1>1 DEF AgentInv, Rests, RestsOnTemplate, RestsOnBudget, ReadyReason,
              LookedAtAgain
<1> QED
  BY <1>2, <1>3, <1>4 DEF AgentInv

LEMMA CrashKeepsInv ==
  AgentInv /\ CrashOperator => AgentInv'
<1> SUFFICES ASSUME AgentInv, CrashOperator PROVE AgentInv'
  OBVIOUS
<1>1. /\ UNCHANGED <<agent, dep, flows, prompt, refs, clock>>
      /\ seen' = Objects
      /\ pc' = "idle" /\ job' = NoJob /\ wake'
  BY DEF CrashOperator, EndReconcile, cluster
<1>2. IsStatus(NoJob.st) /\ IsDeployment(NoJob.want) /\ NoJob.after \in Int
  BY NoJobShape
<1>3. /\ IsCopy(seen')
      /\ seen'.agent = agent' /\ seen'.dep = dep' /\ seen'.prompt = prompt'
      /\ seen'.flows = flows'
  BY <1>1 DEF Objects, IsCopy
<1>4. Shapes' /\ CopiesCurrent'
  BY <1>1, <1>2, <1>3 DEF AgentInv, Shapes, CopiesCurrent
<1> QED
  BY <1>1, <1>4, AwakeKeepsInv

(***************************************************************************)
(* A status update leaves the agent an agent, and writes what it was given *)
(* if it succeeds.                                                         *)
(***************************************************************************)
LEMMA StatusWritten ==
  ASSUME IsAgent(agent), NEW rv, NEW st, IsStatus(st),
         UpdateSucceeds(rv, st) \/ UpdateFails(rv, st)
  PROVE  /\ IsAgent(agent')
         /\ UpdateSucceeds(rv, st) => agent'.st = st
<1>1. Store(st) => IsAgent(agent') /\ agent'.st = st
  BY DEF Store, IsAgent
<1>2. Store(st) \/ UNCHANGED agent
  BY DEF UpdateSucceeds, UpdateFails
<1>3. UpdateSucceeds(rv, st) => Store(st)
  BY DEF UpdateSucceeds
<1> QED
  BY <1>1, <1>2, <1>3

\* A change of the agent leaves the copies of the others as current.
LEMMA AgentEvent ==
  ASSUME AgentInv, Event("agent"), UNCHANGED <<dep, prompt>>
  PROVE  /\ CopiesCurrent'
         /\ seen' = seen
         /\ "agent" \notin changed' => agent' = agent /\ "agent" \notin changed
         /\ "dep" \in changed' <=> "dep" \in changed
         /\ "prompt" \in changed' <=> "prompt" \in changed
BY EventTells DEF Object, AgentInv, CopiesCurrent

(***************************************************************************)
(* The reconciler's steps.                                                 *)
(***************************************************************************)
LEMMA PromptUnresolvedKeepsInv ==
  AgentInv /\ PromptUnresolved => AgentInv'
<1> SUFFICES ASSUME AgentInv, PromptUnresolved PROVE AgentInv'
  OBVIOUS
<1> DEFINE st == [seen.agent.st EXCEPT !.ready = "PromptResolutionError"]
<1>1. /\ UpdateSucceeds(seen.agent.rv, st) \/ UpdateFails(seen.agent.rv, st)
      /\ UNCHANGED <<dep, flows, prompt, pc, job, clock>> /\ Event("agent")
      /\ pc = "idle" /\ wake /\ wake'
  BY DEF PromptUnresolved, Begin, control
<1>2. IsAgent(agent) /\ IsStatus(seen.agent.st)
  BY DEF AgentInv, Shapes, IsAgent
<1>3. IsStatus(st)
  BY <1>2 DEF IsStatus
<1> HIDE DEF st
<1>4. IsAgent(agent')
  BY <1>1, <1>2, <1>3, StatusWritten
<1>5. CopiesCurrent' /\ seen' = seen
  BY <1>1, AgentEvent
<1>6. Shapes'
  BY <1>1, <1>4, <1>5 DEF AgentInv, Shapes
<1> QED
  BY <1>1, <1>5, <1>6, AwakeKeepsInv

LEMMA DecideKeepsInv ==
  AgentInv /\ Decide => AgentInv'
<1> SUFFICES ASSUME AgentInv, Decide PROVE AgentInv'
  OBVIOUS
<1> DEFINE a == seen.agent
           st == Budget(a.st, a.limit, seen.flows, clock)
           want == buildDeployment(a.replicas, st, seen.prompt, seen.refs)
<1>1. /\ job'.st = st /\ job'.want = want
      /\ job'.after = IF st.exceeded THEN RequeueAfter(seen.flows, clock)
                      ELSE Never
      /\ pc' = "apply"
      /\ UNCHANGED <<agent, dep, flows, prompt, seen, changed, clock>>
  BY DEF Decide, cluster, informer, bounds
<1>2. IsStatus(st)
  BY DEF AgentInv, Shapes, IsAgent, IsStatus, Budget
<1>3. /\ IsDeployment(want)
      /\ want.there = TRUE /\ want.hash = seen.prompt
      /\ want.env = buildEnvVars(seen.prompt, seen.refs)
      /\ want.replicas = IF st.exceeded THEN 0 ELSE a.replicas
  BY DEF buildDeployment, NoDeployment, IsDeployment
<1>4. GoodEnv(want.env, want.hash)
  BY <1>3, EnvIsGood
<1>5. job'.after \in Int /\ (st.exceeded => job'.after > 0)
  <2>1. CASE st.exceeded
    <3>1. /\ seen.flows \in [Flow -> Entry] /\ clock \in Time
          /\ a.limit \in Nat /\ IsStatus(a.st)
      BY DEF AgentInv, Shapes, IsAgent
    <3>2. Exceeds(a.limit, seen.flows, clock)
      BY <2>1, <3>1 DEF Budget, IsStatus
    <3> QED
      BY <1>1, <2>1, <3>1, <3>2, RequeueIsLater
  <2>2. CASE ~st.exceeded
    BY <1>1, <2>2 DEF Never
  <2> QED
    BY <2>1, <2>2
<1> HIDE DEF st, want
<1>6. Shapes' /\ CopiesCurrent'
  BY <1>1, <1>2, <1>3, <1>5 DEF AgentInv, Shapes, CopiesCurrent
<1>7. Wanted'
  BY <1>1, <1>3, <1>4, <1>5 DEF AgentInv, CopiesCurrent, Wanted
<1>8. HasWanted' /\ Rests'
  BY <1>1 DEF HasWanted, Rests
<1> QED
  BY <1>6, <1>7, <1>8 DEF AgentInv

(***************************************************************************)
(* The call to the API server.  A patch that leaves out what the cached    *)
(* copy has is as good as a whole Deployment when the copy is current.     *)
(***************************************************************************)
LEMMA AppliedIsWanted ==
  ASSUME AgentInv
  PROVE  /\ IsDeployment(Applied)
         /\ (seen.dep = dep /\ job.want.there = TRUE) =>
              /\ Applied.there = TRUE
              /\ Applied.replicas = job.want.replicas
              /\ Applied.hash = job.want.hash
              /\ Applied.env = job.want.env
<1>1. /\ IsDeployment(dep) /\ IsDeployment(seen.dep)
      /\ IsDeployment(job.want)
  BY DEF AgentInv, Shapes
<1>2. CASE seen.dep.there
  <2>1. Applied = Patched
    BY <1>2 DEF Applied
  <2>2. /\ IsDeployment(Patched)
        /\ Patched.there = dep.there
        /\ Patched.replicas = Differs(job.want.replicas, seen.dep.replicas,
                                      dep.replicas)
        /\ Patched.hash = Differs(job.want.hash, seen.dep.hash, dep.hash)
        /\ Patched.env = Differs(job.want.env, seen.dep.env, dep.env)
    BY <1>1 DEF Patched, IsDeployment
  <2>3. CASE seen.dep = dep
    <3>1. dep.there = TRUE
      BY <1>2, <2>3
    <3> QED
      BY <2>1, <2>2, <2>3, <3>1 DEF Differs
  <2> QED
    BY <2>1, <2>2, <2>3
<1>3. CASE ~seen.dep.there
  BY <1>1, <1>3 DEF Applied
<1> QED
  BY <1>2, <1>3

LEMMA ApplyDeploymentKeepsInv ==
  AgentInv /\ ApplyDeployment => AgentInv'
<1> SUFFICES ASSUME AgentInv, ApplyDeployment PROVE AgentInv'
  OBVIOUS
<1>1. /\ pc = "apply" /\ pc' = "save"
      /\ dep' = Applied
      /\ UNCHANGED <<agent, flows, prompt, job, wake, clock>>
      /\ Event("dep")
  BY DEF ApplyDeployment, bounds
<1>2. /\ seen' = seen
      /\ "agent" \in changed' <=> "agent" \in changed
      /\ "prompt" \in changed' <=> "prompt" \in changed
      /\ "dep" \notin changed' => dep' = dep /\ "dep" \notin changed
  BY <1>1, EventTells DEF Object
<1>3. Shapes'
  BY <1>1, <1>2, AppliedIsWanted DEF AgentInv, Shapes
<1>4. CopiesCurrent'
  BY <1>1, <1>2 DEF AgentInv, CopiesCurrent
<1>5. Wanted'
  BY <1>1, <1>2 DEF AgentInv, Wanted
<1>6. HasWanted'
  <2>1. job.want.there = TRUE
    BY <1>1 DEF AgentInv, Wanted
  <2>2. "dep" \notin changed' => seen.dep = dep
    BY <1>2 DEF AgentInv, CopiesCurrent
  <2> QED
    BY <1>1, <2>1, <2>2, AppliedIsWanted DEF HasWanted
<1>7. Rests'
  BY <1>1 DEF Rests
<1> QED
  BY <1>3, <1>4, <1>5, <1>6, <1>7 DEF AgentInv

LEMMA ApplyFailsKeepsInv ==
  AgentInv /\ ApplyFails => AgentInv'
<1> SUFFICES ASSUME AgentInv, ApplyFails PROVE AgentInv'
  OBVIOUS
<1>1. /\ pc' = "report"
      /\ dep' = Applied \/ dep' = dep
      /\ UNCHANGED <<agent, flows, prompt, job, clock>>
      /\ Event("dep")
  BY DEF ApplyFails
<1>2. /\ seen' = seen
      /\ "agent" \in changed' <=> "agent" \in changed
      /\ "prompt" \in changed' <=> "prompt" \in changed
      /\ "dep" \notin changed' => dep' = dep /\ "dep" \notin changed
  BY <1>1, EventTells DEF Object
<1>3. Shapes'
  BY <1>1, <1>2, AppliedIsWanted DEF AgentInv, Shapes
<1>4. CopiesCurrent'
  BY <1>1, <1>2 DEF AgentInv, CopiesCurrent
<1> QED
  BY <1>1, <1>3, <1>4 DEF AgentInv, Wanted, HasWanted, Rests

LEMMA ReportErrorKeepsInv ==
  AgentInv /\ ReportError => AgentInv'
<1> SUFFICES ASSUME AgentInv, ReportError PROVE AgentInv'
  OBVIOUS
<1> DEFINE st == [job.st EXCEPT !.ready = "ReconcileError"]
<1>1. /\ UpdateSucceeds(job.rv, st) \/ UpdateFails(job.rv, st)
      /\ UNCHANGED <<dep, flows, prompt, clock>> /\ Event("agent")
      /\ pc' = "idle" /\ job' = NoJob /\ wake'
  BY DEF ReportError, EndReconcile
<1>2. IsAgent(agent) /\ IsStatus(st)
  BY DEF AgentInv, Shapes, IsStatus
<1>3. IsStatus(NoJob.st) /\ IsDeployment(NoJob.want) /\ NoJob.after \in Int
  BY NoJobShape
<1> HIDE DEF st
<1>4. IsAgent(agent')
  BY <1>1, <1>2, StatusWritten
<1>5. CopiesCurrent' /\ seen' = seen
  BY <1>1, AgentEvent
<1>6. Shapes'
  BY <1>1, <1>3, <1>4, <1>5 DEF AgentInv, Shapes
<1> QED
  BY <1>1, <1>5, <1>6, AwakeKeepsInv

LEMMA SaveStatusKeepsInv ==
  AgentInv /\ SaveStatus => AgentInv'
<1> SUFFICES ASSUME AgentInv, SaveStatus PROVE AgentInv'
  OBVIOUS
<1> DEFINE st == [job.st EXCEPT !.ready = ReadyReason(seen.dep)]
<1>1. /\ \/ /\ seen.dep.there /\ UpdateSucceeds(job.rv, st)
            /\ SetAlarm /\ wake' = wake
         \/ seen.dep.there /\ UpdateFails(job.rv, st) /\ wake'
         \/ ~seen.dep.there /\ agent' = agent /\ wake' = wake
      /\ UNCHANGED <<dep, flows, prompt, clock>> /\ Event("agent")
      /\ pc = "save" /\ pc' = "idle" /\ job' = NoJob
  BY DEF SaveStatus, EndReconcile
<1>2. /\ IsAgent(agent) /\ IsStatus(st)
      /\ st.ready = ReadyReason(seen.dep) /\ st.exceeded = job.st.exceeded
  BY DEF AgentInv, Shapes, IsStatus
<1>3. IsStatus(NoJob.st) /\ IsDeployment(NoJob.want) /\ NoJob.after \in Int
  BY NoJobShape
<1> HIDE DEF st
<1>4. IsAgent(agent') /\ (UpdateSucceeds(job.rv, st) => agent'.st = st)
  BY <1>1, <1>2, StatusWritten
<1>5. /\ CopiesCurrent' /\ seen' = seen
      /\ "agent" \notin changed' => agent' = agent /\ "agent" \notin changed
      /\ "dep" \in changed' <=> "dep" \in changed
      /\ "prompt" \in changed' <=> "prompt" \in changed
  BY <1>1, AgentEvent
<1>6. Shapes'
  BY <1>1, <1>3, <1>4, <1>5 DEF AgentInv, Shapes
<1>7. Rests'
  <2> SUFFICES ASSUME ~wake', "dep" \notin changed', "prompt" \notin changed'
               PROVE  RestsOnTemplate' /\ RestsOnBudget'
    BY DEF Rests
  <2>1. ~wake /\ "dep" \notin changed /\ "prompt" \notin changed
    BY <1>1, <1>5
  <2>2. seen.dep = dep
    BY <2>1 DEF AgentInv, CopiesCurrent
  <2>3. /\ dep.there = TRUE
        /\ dep.replicas = job.want.replicas
        /\ dep.hash = job.want.hash
        /\ dep.env = job.want.env
    BY <1>1, <2>1 DEF AgentInv, HasWanted
  <2>4. /\ job.want.hash = prompt /\ GoodEnv(job.want.env, job.want.hash)
        /\ job.st.exceeded => job.after > 0
        /\ "agent" \notin changed =>
             job.want.replicas = IF job.st.exceeded THEN 0 ELSE agent.replicas
    BY <1>1, <2>1 DEF AgentInv, Wanted
  <2>5. agent'.st = st /\ SetAlarm
    BY <1>1, <1>4, <2>2, <2>3
  <2>6. RestsOnTemplate'
    BY <1>1, <1>2, <2>2, <2>3, <2>4, <2>5 DEF RestsOnTemplate, ReadyReason
  <2>7. LookedAtAgain'
    <3>1. job.after \in Int /\ clock \in Nat
      BY AgentAssumption DEF AgentInv, Shapes, Time
    <3>2. job.after > 0 => alarm' # Never
      BY <2>5, <3>1 DEF SetAlarm, Never
    <3> QED
      BY <1>2, <2>4, <2>5, <3>2 DEF LookedAtAgain
  <2>8. RestsOnBudget'
    BY <1>1, <1>2, <1>5, <2>3, <2>4, <2>5, <2>7 DEF RestsOnBudget
  <2> QED
    BY <2>6, <2>8
<1> QED
  BY <1>1, <1>5, <1>6, <1>7 DEF AgentInv, Wanted, HasWanted

(***************************************************************************)
(* Every step, one action after the other.                                 *)
(***************************************************************************)
LEMMA AgentInvStep ==
  AgentInv /\ [Next]_vars => AgentInv'
<1> SUFFICES ASSUME AgentInv, [Next]_vars PROVE AgentInv'
  OBVIOUS
<1>1. CASE ReconcileFails
  BY <1>1, WakeUpKeepsInv DEF ReconcileFails, control, Begin
<1>2. CASE PromptUnresolved
  BY <1>2, PromptUnresolvedKeepsInv
<1>3. CASE Decide
  BY <1>3, DecideKeepsInv
<1>4. CASE ApplyDeployment
  BY <1>4, ApplyDeploymentKeepsInv
<1>5. CASE ApplyFails
  BY <1>5, ApplyFailsKeepsInv
<1>6. CASE ReportError
  BY <1>6, ReportErrorKeepsInv
<1>7. CASE SaveStatus
  BY <1>7, SaveStatusKeepsInv
<1>8. CASE \E o \in Object : Sync(o)
  BY <1>8, SyncKeepsInv
<1>9. CASE RingAlarm \/ Resync
  <2>1. UNCHANGED <<cluster, informer, pc, job, clock>> /\ wake'
    BY <1>9 DEF RingAlarm, Resync, bounds
  <2> QED
    BY <2>1, WakeUpKeepsInv
<1>10. CASE CrashOperator
  BY <1>10, CrashKeepsInv
<1>11. CASE \/ \E w \in Flow : CompleteStep(w) \/ ForgetStep(w)
            \/ EditAgent \/ EditPrompt \/ EditRefs \/ EditDeployment
            \/ MovePods \/ Tick
  BY <1>11, OthersStayOutside, OutsideKeepsInv
<1>12. CASE UNCHANGED vars
  BY <1>12, WakeUpKeepsInv DEF vars, control, bounds
<1> QED
  BY <1>1, <1>2, <1>3, <1>4, <1>5, <1>6, <1>7, <1>8, <1>9, <1>10, <1>11,
     <1>12 DEF Next, Reconcile

LEMMA AgentInvAlways == Spec => []AgentInv
BY AgentInvInit, AgentInvStep, PTL DEF Spec

(***************************************************************************)
(* TemplateAtRest, of buildDeployment, reconcileDeployment and syncStatus: *)
(* whatever lags, fails, is edited or crashes, when nothing is left to     *)
(* wake the reconciler the pods' template has the current prompt and the   *)
(* memory's backend, and the status tells whether the pods are ready.      *)
(***************************************************************************)
THEOREM AgentTemplateAtRest == Spec => []TemplateAtRest
<1>1. AgentInv => TemplateAtRest
  <2> SUFFICES ASSUME AgentInv, AtRest PROVE TemplateAtRest
    BY DEF TemplateAtRest
  <2>1. /\ pc = "idle" /\ ~wake
        /\ "dep" \notin changed /\ "prompt" \notin changed
    BY DEF AtRest, Current
  <2> QED
    BY <2>1 DEF AgentInv, Rests, RestsOnTemplate, GoodEnv, TemplateAtRest
<1> QED
  BY <1>1, AgentInvAlways, PTL

-----------------------------------------------------------------------------
(***************************************************************************)
(* Induction over the natural numbers, for a set of them.                  *)
(***************************************************************************)
LEMMA NatIsInduced ==
  ASSUME NEW P, 0 \in P, \A n \in Nat : n \in P => n + 1 \in P
  PROVE  Nat \subseteq P
<1> SUFFICES ASSUME Nat \ P # {} PROVE FALSE
  OBVIOUS
<1> DEFINE R == OpToRel(<, Nat)
<1>1. IsWellFoundedOn(R, Nat)
  BY NatLessThanWellFounded
<1>2. \A x, y \in Nat : <<y, x>> \in R <=> y < x
  BY DEF OpToRel
<1> HIDE DEF R
<1>3. PICK n \in Nat \ P : \A m \in Nat \ P : ~ (<<m, n>> \in R)
  BY <1>1, WFMin
<1>4. n # 0 /\ n - 1 \in Nat /\ n - 1 < n
  BY <1>3
<1>5. n - 1 \in P
  BY <1>2, <1>3, <1>4
<1>6. (n - 1) + 1 \in P
  BY <1>4, <1>5
<1> QED
  BY <1>3, <1>6

\* The element that MapThenSumSet takes first.
First(T) == CHOOSE x \in T : TRUE

\* The recursion of MapThenSumSet, over the usage in fs.
SumFrom(fs, g, T) ==
  IF T = {} THEN 0 ELSE fs[First(T)].tokens + g[T \ {First(T)}]

\* g adds up the usage in fs over every set of flows.
Adds(fs, g) ==
  /\ g \in [SUBSET Flow -> Nat]
  /\ \A T \in SUBSET Flow : g[T] = SumFrom(fs, g, T)

UpTo(n) == {T \in SUBSET Flow : Cardinality(T) <= n}

(***************************************************************************)
(* Sets of flows are finite, and taking out an element makes one smaller.  *)
(***************************************************************************)
LEMMA FlowSets ==
  /\ \A T \in SUBSET Flow : IsFiniteSet(T) /\ Cardinality(T) \in Nat
  /\ \A T \in UpTo(0) : T = {}
  /\ \A T \in SUBSET Flow : T # {} => First(T) \in T
  /\ \A T \in SUBSET Flow : \A x \in T, n \in Nat :
       T \in UpTo(n + 1) => T \ {x} \in UpTo(n)
<1>1. \A T \in SUBSET Flow : IsFiniteSet(T) /\ Cardinality(T) \in Nat
  BY AgentAssumption, FS_Subset, FS_CardinalityType
<1>2. \A T \in UpTo(0) : T = {}
  BY <1>1, FS_EmptySet DEF UpTo
<1>3. \A T \in SUBSET Flow : T # {} => First(T) \in T
  BY DEF First
<1>4. ASSUME NEW T \in SUBSET Flow, NEW x \in T, NEW n \in Nat,
             T \in UpTo(n + 1)
      PROVE  T \ {x} \in UpTo(n)
  <2>1. Cardinality(T \ {x}) = Cardinality(T) - 1
    BY <1>1, FS_RemoveElement
  <2> QED
    BY <1>1, <1>4, <2>1 DEF UpTo
<1> QED
  BY <1>1, <1>2, <1>3, <1>4

(***************************************************************************)
(* What holds of the empty set, and of a set when it holds of the set      *)
(* without any one of its elements, holds of every set of flows.           *)
(***************************************************************************)
LEMMA FlowSetsInduced ==
  ASSUME NEW P, {} \in P,
         \A T \in SUBSET Flow :
           T # {} /\ (\A x \in T : T \ {x} \in P) => T \in P
  PROVE  SUBSET Flow \subseteq P
<1> DEFINE N == {n \in Nat : UpTo(n) \subseteq P}
<1>1. 0 \in N
  BY FlowSets
<1>2. ASSUME NEW n \in Nat, n \in N PROVE n + 1 \in N
  <2>1. ASSUME NEW T \in UpTo(n + 1), T # {} PROVE T \in P
    <3>1. T \in SUBSET Flow
      BY DEF UpTo
    <3>2. \A x \in T : T \ {x} \in UpTo(n)
      BY <3>1, FlowSets
    <3> QED
      BY <1>2, <2>1, <3>1, <3>2
  <2>2. UpTo(n + 1) \subseteq P
    BY <2>1
  <2> QED
    BY <2>2
<1> HIDE DEF N
<1>3. Nat \subseteq N
  BY <1>1, <1>2, NatIsInduced
<1>4. \A n \in Nat : UpTo(n) \subseteq P
  BY <1>3 DEF N
<1>5. ASSUME NEW T \in SUBSET Flow PROVE T \in P
  <2>1. Cardinality(T) \in Nat
    BY FlowSets
  <2>2. T \in UpTo(Cardinality(T))
    BY <2>1 DEF UpTo
  <2> QED
    BY <1>4, <2>1, <2>2
<1> QED
  BY <1>5

(***************************************************************************)
(* The recursion of MapThenSumSet defines a function.                      *)
(***************************************************************************)
LEMMA AddsExists ==
  ASSUME NEW fs \in [Flow -> Entry]
  PROVE  \E g : Adds(fs, g)
<1> DEFINE Sums(g, n) == /\ g \in [UpTo(n) -> Nat]
                         /\ \A T \in UpTo(n) : g[T] = SumFrom(fs, g, T)
           N == {n \in Nat : \E g : Sums(g, n)}
<1>1. \A w \in Flow : fs[w].tokens \in Nat
  BY DEF Entry, Unused
<1>2. 0 \in N
  <2> DEFINE g == [T \in UpTo(0) |-> 0]
  <2>1. Sums(g, 0)
    BY FlowSets DEF SumFrom
  <2> HIDE DEF g, Sums
  <2> QED
    BY <2>1
<1>3. ASSUME NEW n \in Nat, n \in N PROVE n + 1 \in N
  <2>1. PICK g : Sums(g, n)
    BY <1>3
  <2> DEFINE h == [T \in UpTo(n + 1) |-> SumFrom(fs, g, T)]
  <2>2. \A T \in UpTo(n + 1) :
          T # {} => T \ {First(T)} \in UpTo(n) /\ First(T) \in Flow
    <3>1. \A T \in UpTo(n + 1) : T \in SUBSET Flow
      BY DEF UpTo
    <3> QED
      BY <3>1, FlowSets
  <2>3. UpTo(n) \subseteq UpTo(n + 1)
    BY FlowSets DEF UpTo
  <2>4. \A T \in UpTo(n) : h[T] = g[T]
    BY <2>1, <2>3
  <2>5. h \in [UpTo(n + 1) -> Nat]
    BY <1>1, <2>1, <2>2 DEF SumFrom
  <2>6. \A T \in UpTo(n + 1) : h[T] = SumFrom(fs, h, T)
    BY <2>2, <2>4 DEF SumFrom
  <2>7. Sums(h, n + 1)
    BY <2>5, <2>6
  <2> HIDE DEF h, Sums
  <2> QED
    BY <2>7
<1> HIDE DEF N
<1>4. Nat \subseteq N
  BY <1>2, <1>3, NatIsInduced
<1>5. PICK n \in Nat : n = Cardinality(Flow)
  BY FlowSets
<1>6. UpTo(n) = SUBSET Flow
  BY <1>5, FlowSets, AgentAssumption, FS_Subset DEF UpTo
<1>7. PICK g : Sums(g, n)
  BY <1>4 DEF N
<1>8. Adds(fs, g)
  BY <1>6, <1>7 DEF Adds
<1> QED
  BY <1>8

(***************************************************************************)
(* MapThenSumSet over a set of flows is that function's value.             *)
(***************************************************************************)
LEMMA UsageAdds ==
  ASSUME NEW fs \in [Flow -> Entry], NEW now, NEW g, Adds(fs, g)
  PROVE  Usage(fs, now) = g[Counted(fs, now)]
<1> DEFINE S == Counted(fs, now)
           F(h) == [T \in SUBSET S |->
                      IF T = {} THEN 0
                      ELSE LET x == CHOOSE y \in T : TRUE
                           IN  fs[x].tokens + h[T \ {x}]]
<1>1. S \in SUBSET Flow
  BY DEF Counted
<1>2. Usage(fs, now) = (CHOOSE h : h = F(h))[S]
  BY DEF Usage, MapThenSumSet, MapThenFoldSet
<1> HIDE DEF S
<1>3. ASSUME NEW h, h = F(h)
      PROVE  \A T \in SUBSET S : h[T] = SumFrom(fs, h, T)
  BY <1>3 DEF SumFrom, First
<1>4. \E h : h = F(h)
  <2> DEFINE h == [T \in SUBSET S |-> g[T]]
  <2>1. \A T \in SUBSET S : T # {} => T \ {First(T)} \in SUBSET S
    OBVIOUS
  <2>2. \A T \in SUBSET S : h[T] = SumFrom(fs, h, T)
    BY <1>1, <2>1 DEF Adds, SumFrom
  <2>3. h = F(h)
    BY <2>2 DEF SumFrom, First
  <2> QED
    BY <2>3
<1> HIDE DEF F
<1>5. PICK h : h = (CHOOSE k : k = F(k)) /\ h = F(h)
  BY <1>4
<1>6. \A T \in SUBSET S : h[T] = SumFrom(fs, h, T)
  BY <1>3, <1>5
<1> DEFINE P == {T \in SUBSET Flow : T \subseteq S => h[T] = g[T]}
<1>7. {} \in P
  BY <1>6 DEF Adds, SumFrom
<1>8. ASSUME NEW T \in SUBSET Flow, T # {}, \A x \in T : T \ {x} \in P
      PROVE  T \in P
  <2> SUFFICES ASSUME T \subseteq S PROVE h[T] = g[T]
    OBVIOUS
  <2>1. First(T) \in T
    BY <1>8, FlowSets
  <2>2. h[T \ {First(T)}] = g[T \ {First(T)}]
    BY <1>8, <2>1
  <2> QED
    BY <1>6, <1>8, <2>2 DEF Adds, SumFrom
<1> HIDE DEF P
<1>9. SUBSET Flow \subseteq P
  BY <1>7, <1>8, FlowSetsInduced
<1>10. h[S] = g[S]
  BY <1>1, <1>9 DEF P
<1> QED
  BY <1>2, <1>5, <1>10 DEF S

(***************************************************************************)
(* The sum does not depend on the order, and a part is not more than the   *)
(* whole.                                                                  *)
(***************************************************************************)
LEMMA AddsAny ==
  ASSUME NEW fs \in [Flow -> Entry], NEW g, Adds(fs, g)
  PROVE  \A T \in SUBSET Flow : \A x \in T :
           g[T] = fs[x].tokens + g[T \ {x}]
<1> DEFINE P == {T \in SUBSET Flow :
                   \A x \in T : g[T] = fs[x].tokens + g[T \ {x}]}
<1>1. {} \in P
  OBVIOUS
<1>2. ASSUME NEW T \in SUBSET Flow, T # {}, \A x \in T : T \ {x} \in P
      PROVE  T \in P
  <2> SUFFICES ASSUME NEW x \in T PROVE g[T] = fs[x].tokens + g[T \ {x}]
    OBVIOUS
  <2>1. PICK c \in T : c = First(T)
    BY <1>2, FlowSets
  <2>2. g[T] = fs[c].tokens + g[T \ {c}]
    BY <1>2, <2>1 DEF Adds, SumFrom
  <2>3. CASE c = x
    BY <2>2, <2>3
  <2>4. CASE c # x
    <3>1. (T \ {c}) \ {x} = (T \ {x}) \ {c}
      OBVIOUS
    <3>2. PICK a \in Nat, b \in Nat : a = fs[x].tokens /\ b = fs[c].tokens
      <4>1. fs[x] \in Entry /\ fs[c] \in Entry
        OBVIOUS
      <4> QED
        BY <4>1 DEF Entry, Unused
    <3>3. PICK rest \in Nat : rest = g[(T \ {x}) \ {c}]
      BY DEF Adds
    <3>4. g[T \ {c}] = a + rest
      BY <1>2, <2>4, <3>1, <3>2, <3>3
    <3>5. g[T \ {x}] = b + rest
      BY <1>2, <2>4, <3>2, <3>3
    <3>6. g[T] = b + (a + rest)
      BY <2>2, <3>2, <3>4
    <3>7. b + (a + rest) = a + (b + rest)
      OBVIOUS
    <3> QED
      BY <3>2, <3>5, <3>6, <3>7
  <2> QED
    BY <2>3, <2>4
<1> HIDE DEF P
<1>3. SUBSET Flow \subseteq P
  BY <1>1, <1>2, FlowSetsInduced
<1> QED
  BY <1>3 DEF P

LEMMA AddsPart ==
  ASSUME NEW fs \in [Flow -> Entry], NEW g, Adds(fs, g)
  PROVE  \A T \in SUBSET Flow : \A A \in SUBSET T : g[A] <= g[T]
<1> DEFINE P == {T \in SUBSET Flow : \A A \in SUBSET T : g[A] <= g[T]}
<1>0. \A T \in SUBSET Flow : g[T] \in Nat
  BY DEF Adds
<1>1. {} \in P
  <2>1. \A A \in SUBSET {} : A = {}
    OBVIOUS
  <2>2. g[{}] <= g[{}]
    BY <1>0
  <2> QED
    BY <2>1, <2>2
<1>2. ASSUME NEW T \in SUBSET Flow, T # {}, \A x \in T : T \ {x} \in P
      PROVE  T \in P
  <2> SUFFICES ASSUME NEW A \in SUBSET T PROVE g[A] <= g[T]
    OBVIOUS
  <2>1. CASE A = T
    BY <1>0, <2>1
  <2>2. CASE A # T
    <3>1. PICK x \in T : x \notin A
      BY <2>2
    <3>2. g[A] <= g[T \ {x}]
      <4>1. A \in SUBSET (T \ {x})
        BY <3>1
      <4> QED
        BY <1>2, <4>1
    <3>3. g[T] = fs[x].tokens + g[T \ {x}]
      BY AddsAny
    <3>4. fs[x].tokens \in Nat
      <4>1. fs[x] \in Entry
        OBVIOUS
      <4> QED
        BY <4>1 DEF Entry, Unused
    <3>5. g[A] \in Nat /\ g[T \ {x}] \in Nat
      BY <1>0
    <3> QED
      BY <3>2, <3>3, <3>4, <3>5
  <2> QED
    BY <2>1, <2>2
<1> HIDE DEF P
<1>3. SUBSET Flow \subseteq P
  BY <1>1, <1>2, FlowSetsInduced
<1> QED
  BY <1>3 DEF P

(***************************************************************************)
(* What the window counts is a number, and time only takes from it.        *)
(***************************************************************************)
LEMMA UsageShrinks ==
  ASSUME NEW fs \in [Flow -> Entry], NEW now \in Time, NEW later \in Time,
         now <= later
  PROVE  /\ Usage(fs, now) \in Nat /\ Usage(fs, later) \in Nat
         /\ Usage(fs, later) <= Usage(fs, now)
<1>1. PICK g : Adds(fs, g)
  BY AddsExists
<1>2. /\ Usage(fs, now) = g[Counted(fs, now)]
      /\ Usage(fs, later) = g[Counted(fs, later)]
  BY <1>1, UsageAdds
<1>3. Counted(fs, now) \in SUBSET Flow
  BY DEF Counted
<1>4. Counted(fs, later) \in SUBSET Counted(fs, now)
  <2> SUFFICES ASSUME NEW w \in Flow, InWindow(fs[w], later)
               PROVE  InWindow(fs[w], now)
    BY DEF Counted
  <2>1. fs[w] \in Entry /\ fs[w].at # Never /\ fs[w].at >= later - Window
    BY DEF InWindow
  <2>2. fs[w].at \in Nat
    BY <2>1 DEF Entry, Unused, Time
  <2>3. Window \in Nat /\ now \in Nat /\ later \in Nat
    BY AgentAssumption DEF Time
  <2> QED
    BY <2>1, <2>2, <2>3 DEF InWindow
<1>5. g[Counted(fs, later)] <= g[Counted(fs, now)]
  BY <1>1, <1>3, <1>4, AddsPart
<1>6. \A T \in SUBSET Flow : g[T] \in Nat
  BY <1>1 DEF Adds
<1> QED
  BY <1>2, <1>3, <1>4, <1>5, <1>6

-----------------------------------------------------------------------------
\* Status st tells of a budget that is reached.
Told(st) == Exceeds(agent.limit, flows, clock) => st.exceeded

\* The inductive form of what BudgetAtRest asks of the status: unless
\* something will wake the reconciler, what it is about to write and what it
\* has written tell of a budget that is reached.
BudgetKnown ==
  /\ "flows" \notin changed => seen.flows = flows
  /\ pc \in {"apply", "save"} =>
       wake \/ "flows" \in changed \/ "agent" \in changed \/ Told(job.st)
  /\ pc = "idle" =>
       \/ wake \/ "flows" \in changed \/ "agent" \in changed
       \/ "dep" \in changed \/ Told(agent.st)

(***************************************************************************)
(* A budget that is reached later was reached before, if nothing else has  *)
(* changed.                                                                *)
(***************************************************************************)
LEMMA ReachedBefore ==
  ASSUME NEW limit \in Nat, NEW fs \in [Flow -> Entry], NEW now \in Time,
         NEW later \in Time, now <= later, Exceeds(limit, fs, later)
  PROVE  Exceeds(limit, fs, now)
<1>1. /\ Usage(fs, now) \in Nat /\ Usage(fs, later) \in Nat
      /\ Usage(fs, later) <= Usage(fs, now)
  BY UsageShrinks
<1> QED
  BY <1>1 DEF Exceeds

(***************************************************************************)
(* Nothing is untold while the reconciler's state and its copies stay, the *)
(* changes are known to be on their way, and time passes.                  *)
(***************************************************************************)
LEMMA BudgetKept ==
  ASSUME AgentInv, BudgetKnown,
         UNCHANGED <<job, seen>>, wake' = wake \/ wake',
         pc' = pc \/ (pc = "apply" /\ pc' = "save"),
         changed \subseteq changed',
         "flows" \notin changed' => flows' = flows,
         "agent" \notin changed' => agent' = agent,
         clock' \in Time, clock <= clock'
  PROVE  BudgetKnown'
<1>1. ASSUME "flows" \notin changed', "agent" \notin changed', NEW st, Told(st)
      PROVE  Exceeds(agent'.limit, flows', clock') => st.exceeded
  <2>1. /\ flows' = flows /\ agent' = agent
        /\ agent.limit \in Nat /\ flows \in [Flow -> Entry] /\ clock \in Time
    BY <1>1 DEF AgentInv, Shapes, IsAgent
  <2> QED
    BY <1>1, <2>1, ReachedBefore DEF Told
<1>2. "flows" \notin changed' => seen'.flows = flows'
  BY DEF BudgetKnown
<1>3. ASSUME pc' \in {"apply", "save"}, ~wake', "flows" \notin changed',
             "agent" \notin changed'
      PROVE  Told(job.st)'
  <2>1. Told(job.st)
    BY <1>3 DEF BudgetKnown
  <2> QED
    BY <1>1, <1>3, <2>1 DEF Told
<1>4. ASSUME pc' = "idle", ~wake', "flows" \notin changed',
             "agent" \notin changed', "dep" \notin changed'
      PROVE  Told(agent.st)'
  <2>1. Told(agent.st) /\ agent' = agent
    BY <1>4 DEF BudgetKnown
  <2> QED
    BY <1>1, <1>4, <2>1 DEF Told
<1> QED
  BY <1>2, <1>3, <1>4 DEF BudgetKnown

(***************************************************************************)
(* A reconciler that will be woken has nothing to tell yet.                *)
(***************************************************************************)
LEMMA BudgetAwake ==
  ASSUME BudgetKnown, wake' \/ pc' = "report",
         "flows" \notin changed' => seen'.flows = flows'
  PROVE  BudgetKnown'
BY DEF BudgetKnown

LEMMA BudgetKnownInit == Init => BudgetKnown
BY DEF Init, Objects, BudgetKnown

(***************************************************************************)
(* Every step, one action after the other.                                 *)
(***************************************************************************)
LEMMA BudgetKnownStep ==
  AgentInv /\ BudgetKnown /\ [Next]_vars => BudgetKnown'
<1> SUFFICES ASSUME AgentInv, BudgetKnown, [Next]_vars PROVE BudgetKnown'
  OBVIOUS
<1>1. clock \in Time /\ clock \in Nat /\ clock <= clock
  BY AgentAssumption DEF AgentInv, Shapes, Time
<1>2. ASSUME NEW o \in Object, Event(o)
      PROVE  /\ seen' = seen
             /\ changed \subseteq changed'
             /\ (o = "flows" /\ "flows" \notin changed') => flows' = flows
             /\ (o = "agent" /\ "agent" \notin changed') => agent' = agent
  <2>1. /\ Objects["flows"] = flows /\ Objects["agent"] = agent
        /\ Objects'["flows"] = flows' /\ Objects'["agent"] = agent'
    BY DEF Objects
  <2> QED
    BY <1>2, <2>1 DEF Event
<1>3. ASSUME NEW o \in Object, Event(o), o \in {"flows"} \/ flows' = flows
      PROVE  "flows" \notin changed' => seen'.flows = flows'
  BY <1>2, <1>3 DEF BudgetKnown
<1>4. CASE ReconcileFails \/ RingAlarm \/ Resync \/ UNCHANGED vars
  <2>1. UNCHANGED <<agent, flows, seen, changed, pc, job, clock>>
    BY <1>4 DEF ReconcileFails, RingAlarm, Resync, vars, cluster, informer,
                control, bounds
  <2>2. wake' = wake \/ wake'
    BY <1>4 DEF ReconcileFails, RingAlarm, Resync, vars, control
  <2> QED
    BY <1>1, <2>1, <2>2, BudgetKept
<1>5. CASE PromptUnresolved
  <2>1. Event("agent") /\ wake' /\ flows' = flows
    BY <1>5 DEF PromptUnresolved, Begin, control
  <2> QED
    BY <1>3, <2>1, BudgetAwake DEF Object
<1>6. CASE Decide
  <2>1. /\ UNCHANGED <<agent, flows, seen, changed, clock>>
        /\ pc' = "apply"
        /\ job'.st = Budget(seen.agent.st, seen.agent.limit, seen.flows, clock)
    BY <1>6 DEF Decide, cluster, informer, bounds
  <2>2. job'.st.exceeded = Exceeds(seen.agent.limit, seen.flows, clock)
    <3>1. IsStatus(seen.agent.st)
      BY DEF AgentInv, Shapes, IsAgent
    <3> QED
      BY <2>1, <3>1 DEF Budget, IsStatus
  <2>3. "agent" \notin changed => seen.agent = agent
    BY DEF AgentInv, CopiesCurrent
  <2> QED
    BY <2>1, <2>2, <2>3 DEF BudgetKnown, Told
<1>7. CASE ApplyDeployment
  <2>1. /\ Event("dep")
        /\ UNCHANGED <<agent, flows, job, wake, clock>>
        /\ pc = "apply" /\ pc' = "save"
    BY <1>7 DEF ApplyDeployment, bounds
  <2>2. seen' = seen /\ changed \subseteq changed'
    BY <1>2, <2>1 DEF Object
  <2> QED
    BY <1>1, <2>1, <2>2, BudgetKept
<1>8. CASE ApplyFails
  <2>1. Event("dep") /\ pc' = "report" /\ flows' = flows
    BY <1>8 DEF ApplyFails
  <2> QED
    BY <1>3, <2>1, BudgetAwake DEF Object
<1>9. CASE ReportError
  <2>1. Event("agent") /\ wake' /\ flows' = flows
    BY <1>9 DEF ReportError
  <2> QED
    BY <1>3, <2>1, BudgetAwake DEF Object
<1>10. CASE SaveStatus
  <2> DEFINE st == [job.st EXCEPT !.ready = ReadyReason(seen.dep)]
  <2>1. /\ Event("agent") /\ UNCHANGED <<flows, clock>>
        /\ pc = "save" /\ pc' = "idle"
        /\ \/ seen.dep.there /\ UpdateSucceeds(job.rv, st) /\ wake' = wake
           \/ wake'
           \/ ~seen.dep.there /\ wake' = wake
    BY <1>10 DEF SaveStatus, EndReconcile
  <2>2. "flows" \notin changed' => seen'.flows = flows'
    BY <1>3, <2>1 DEF Object
  <2>3. ASSUME ~wake', "flows" \notin changed', "agent" \notin changed',
               "dep" \notin changed'
        PROVE  Told(agent.st)'
    <3>1. /\ changed \subseteq changed'
          /\ agent' = agent
      BY <1>2, <2>1, <2>3 DEF Object
    <3>2. ~wake /\ "dep" \notin changed
      BY <2>1, <2>3, <3>1
    <3>3. seen.dep = dep /\ dep.there = TRUE
      BY <2>1, <3>2 DEF AgentInv, CopiesCurrent, HasWanted, Wanted
    <3>4. UpdateSucceeds(job.rv, st)
      BY <2>1, <2>3, <3>3
    <3>5. IsAgent(agent) /\ IsStatus(job.st)
      BY DEF AgentInv, Shapes
    <3>6. IsStatus(st) /\ st.exceeded = job.st.exceeded
      BY <3>5 DEF IsStatus
    <3> HIDE DEF st
    <3>7. agent'.st = st
      BY <3>4, <3>5, <3>6, StatusWritten
    <3>8. Told(job.st)
      BY <2>1, <2>3, <3>1, <3>2 DEF BudgetKnown
    <3> QED
      BY <2>1, <3>1, <3>6, <3>7, <3>8 DEF Told
  <2> QED
    BY <2>1, <2>2, <2>3 DEF BudgetKnown
<1>11. ASSUME NEW o \in Object, Sync(o) PROVE BudgetKnown'
  <2>1. /\ UNCHANGED <<agent, flows, pc, job, clock>>
        /\ seen' = [seen EXCEPT ![o] = Objects[o]]
        /\ changed' = changed \ {o}
    BY <1>11 DEF Sync, cluster, bounds
  <2>a. ASSUME o # "refs" PROVE wake'
    <3>1. Wakes(o)
      BY <2>a DEF Wakes, Object
    <3> QED
      BY <1>11, <3>1 DEF Sync
  <2>b. wake => wake'
    BY <1>11 DEF Sync
  <2>2. seen'.flows = IF o = "flows" THEN flows ELSE seen.flows
    BY <2>1 DEF AgentInv, Shapes, IsCopy, Objects, Object
  <2>3. "flows" \notin changed' => seen'.flows = flows'
    BY <2>1, <2>2 DEF BudgetKnown
  <2>4. CASE o # "refs"
    BY <2>a, <2>3, <2>4, BudgetAwake
  <2>5. CASE o = "refs"
    <3>1. /\ "flows" \in changed' <=> "flows" \in changed
          /\ "agent" \in changed' <=> "agent" \in changed
          /\ "dep" \in changed' <=> "dep" \in changed
      BY <2>1, <2>5
    <3> QED
      BY <2>1, <2>b, <2>3, <3>1 DEF BudgetKnown, Told
  <2> QED
    BY <2>4, <2>5
<1>12. CASE CrashOperator
  <2>1. wake' /\ flows' = flows /\ seen' = Objects
    BY <1>12 DEF CrashOperator, cluster
  <2> QED
    BY <2>1, BudgetAwake DEF Objects
<1>13. CASE \E w \in Flow : CompleteStep(w) \/ ForgetStep(w)
  <2>1. Event("flows") /\ UNCHANGED <<agent, pc, job, wake, clock>>
    BY <1>13 DEF CompleteStep, ForgetStep, control, bounds
  <2> QED
    BY <1>1, <1>2, <2>1, BudgetKept DEF Object
<1>14. CASE EditAgent \/ EditPrompt \/ EditRefs \/ EditDeployment \/ MovePods
  <2>1. PICK o \in Object : Event(o) /\ (o = "agent" \/ agent' = agent)
    BY <1>14 DEF EditAgent, EditPrompt, EditRefs, EditDeployment, MovePods,
                 Object
  <2>2. UNCHANGED <<flows, pc, job, wake, clock>>
    BY <1>14 DEF EditAgent, EditPrompt, EditRefs, EditDeployment, MovePods,
                 control, bounds
  <2> QED
    BY <1>1, <1>2, <2>1, <2>2, BudgetKept
<1>15. CASE Tick
  <2>1. /\ UNCHANGED <<agent, flows, seen, changed, pc, job, wake>>
        /\ clock' = clock + 1
        /\ clock < MaxTime
    BY <1>15 DEF Tick, cluster, informer, control
  <2>2. clock' \in Time /\ clock <= clock'
    BY <1>1, <2>1, AgentAssumption DEF Time
  <2> QED
    BY <2>1, <2>2, BudgetKept
<1> QED
  BY <1>4, <1>5, <1>6, <1>7, <1>8, <1>9, <1>10, <1>11, <1>12, <1>13,
     <1>14, <1>15 DEF Next, Reconcile

(***************************************************************************)
(* Whatever lags, fails, is edited or crashes, when nothing is left to     *)
(* wake the reconciler the Deployment has the replicas that the status     *)
(* leaves it; a budget that is reached is in the status, although time has *)
(* passed since it was computed; and an agent without tokens has a timer.  *)
(***************************************************************************)
THEOREM AgentBudgetAtRest == Spec => []BudgetAtRest
<1>1. AgentInv /\ BudgetKnown => BudgetAtRest
  <2> SUFFICES ASSUME AgentInv, BudgetKnown, AtRest
               PROVE  Scaled /\ LookedAtAgain /\ (Over => agent.st.exceeded)
    BY DEF BudgetAtRest
  <2>1. /\ pc = "idle" /\ ~wake
        /\ "agent" \notin changed /\ "flows" \notin changed
        /\ "dep" \notin changed /\ "prompt" \notin changed
    BY DEF AtRest, Current
  <2>2. RestsOnBudget
    BY <2>1 DEF AgentInv, Rests
  <2>3. Scaled /\ LookedAtAgain
    BY <2>1, <2>2 DEF RestsOnBudget, Scaled
  <2>4. Recent = Counted(flows, clock)
    <3> SUFFICES ASSUME NEW w \in Flow, flows[w].at # Never
                 PROVE  clock - flows[w].at <= Window
                          <=> flows[w].at >= clock - Window
      BY DEF Recent, Counted, InWindow
    <3>1. flows[w] \in Entry /\ clock \in Nat /\ Window \in Nat
      BY AgentAssumption DEF AgentInv, Shapes, Time
    <3>2. flows[w].at \in Nat
      BY <3>1 DEF Entry, Unused, Time
    <3> QED
      BY <3>1, <3>2
  <2>5. Over => Exceeds(agent.limit, flows, clock)
    BY <2>4 DEF Over, Exceeds, Usage
  <2> QED
    BY <2>1, <2>3, <2>5 DEF BudgetKnown, Told
<1> QED
  BY <1>1, AgentInvAlways, BudgetKnownInit, BudgetKnownStep, PTL DEF Spec


-----------------------------------------------------------------------------
(***************************************************************************)
(* Type correctness.  The timer is not set further ahead than the window   *)
(* because no step has completed in the future.                            *)
(***************************************************************************)
Past(fs) == \A w \in Flow : fs[w].at <= clock

AgentTypes == TypeOK /\ Past(flows) /\ Past(seen.flows)

Cache == [agent : Agent, dep : Deployment, flows : [Flow -> Entry],
          prompt : Source, refs : Refs]

Job == [rv : Nat, st : Status, want : Deployment,
        after : {Never} \union 1 .. Window + 1]

\* Numbers are numbers, and the flows of the caches have tokens.
LEMMA AgentNumbers ==
  /\ Window \in Nat /\ MaxTime \in Nat /\ MaxDisruptions \in Nat
  /\ Limits \subseteq Nat /\ Replicas \subseteq Nat
  /\ Time \subseteq Nat
BY AgentAssumption DEF Time

\* What reconcileDailyBudget makes of a status is a status.
LEMMA BudgetType ==
  ASSUME NEW st \in Status, NEW limit \in Nat,
         NEW fs \in [Flow -> Entry], NEW now \in Time
  PROVE  Budget(st, limit, fs, now) \in Status
<1>1. Usage(fs, now) \in Nat
  <2>1. now <= now
    BY AgentNumbers
  <2> QED
    BY <2>1, UsageShrinks
<1>2. PICK n \in Nat : n = IF limit > 0 THEN Usage(fs, now) ELSE 0
  BY <1>1
<1>3. PICK b \in BOOLEAN : b = Exceeds(limit, fs, now)
  BY Zenon DEF Exceeds
<1>4. Budget(st, limit, fs, now) = [st EXCEPT !.exceeded = b, !.usage = n]
  BY <1>2, <1>3, Zenon DEF Budget
<1> QED
  BY <1>4 DEF Status

\* What buildDeployment makes is a Deployment.
LEMMA WantType ==
  ASSUME NEW replicas \in Replicas, NEW st, NEW text \in Text,
         NEW objs \in Refs
  PROVE  buildDeployment(replicas, st, text, objs) \in Deployment
<1>1. PICK n \in Scale : n = IF st.exceeded THEN 0 ELSE replicas
  BY DEF Scale
<1>2. PICK e \in Environment : e = buildEnvVars(text, objs)
  BY DEF Environment
<1>3. text \in Source
  BY DEF Source
<1>4. buildDeployment(replicas, st, text, objs) =
        [there |-> TRUE, replicas |-> n, hash |-> text, env |-> e,
         available |-> FALSE]
  <2>1. buildDeployment(replicas, st, text, objs) =
          [NoDeployment EXCEPT !.there = TRUE, !.replicas = n,
                               !.hash = text, !.env = e]
    BY <1>1, <1>2, Zenon DEF buildDeployment
  <2> QED
    BY <2>1 DEF NoDeployment
<1> QED
  BY <1>1, <1>2, <1>3, <1>4 DEF Deployment

LEMMA NoDeploymentType == NoDeployment \in Deployment
<1>1. <<>> \in Environment
  BY DEF Environment
<1>2. 0 \in Scale /\ Missing \in Source
  BY DEF Scale, Source
<1> QED
  BY <1>1, <1>2 DEF NoDeployment, Deployment

LEMMA NoJobType == NoJob \in Job /\ InitialStatus \in Status
<1>1. InitialStatus \in Status
  BY DEF InitialStatus, Status
<1> QED
  BY <1>1, NoDeploymentType DEF NoJob, Job, Never

\* The timer that reconcileDailyBudget asks for.
LEMMA RequeueBounds ==
  ASSUME NEW fs \in [Flow -> Entry], NEW limit \in Nat,
         clock \in Time, Past(fs), Exceeds(limit, fs, clock)
  PROVE  RequeueAfter(fs, clock) \in 1 .. Window + 1
<1> DEFINE T == {fs[w].at : w \in Counted(fs, clock)}
<1>1. Counted(fs, clock) # {}
  <2> SUFFICES ASSUME Counted(fs, clock) = {} PROVE FALSE
    OBVIOUS
  <2>1. Usage(fs, clock) = 0
    BY NothingUsed
  <2> QED
    BY <2>1 DEF Exceeds
<1>2. Window \in Nat /\ clock \in Nat
  BY AgentNumbers
<1>3. \A w \in Counted(fs, clock) :
        fs[w].at \in Nat /\ fs[w].at >= clock - Window /\ fs[w].at <= clock
  <2> SUFFICES ASSUME NEW w \in Counted(fs, clock)
               PROVE  /\ fs[w].at \in Nat /\ fs[w].at >= clock - Window
                      /\ fs[w].at <= clock
    OBVIOUS
  <2>1. fs[w] \in Entry /\ InWindow(fs[w], clock) /\ fs[w].at <= clock
    BY DEF Counted, Past
  <2> QED
    BY <1>2, <2>1 DEF Entry, Unused, InWindow, Time
<1>4. T \subseteq Nat /\ T # {}
  BY <1>1, <1>3
<1>5. Min(T) \in T
  BY <1>4, EarliestIsOne
<1>6. Min(T) \in Nat /\ Min(T) >= clock - Window /\ Min(T) <= clock
  BY <1>3, <1>5
<1>7. RequeueAfter(fs, clock) = Min(T) + Window - clock + 1
  BY DEF RequeueAfter
<1> HIDE DEF T
<1> QED
  BY <1>2, <1>6, <1>7

\* A status update leaves the agent an agent.
LEMMA UpdateTypes ==
  ASSUME TypeOK, NEW rv, NEW st \in Status,
         UpdateSucceeds(rv, st) \/ UpdateFails(rv, st)
  PROVE  agent' \in Agent /\ disruptions' \in 0 .. MaxDisruptions
<1>1. agent \in Agent /\ disruptions \in 0 .. MaxDisruptions
  BY DEF TypeOK
<1>2. ASSUME Store(st) PROVE agent' \in Agent
  <2>1. CASE agent' = agent
    BY <1>1, <2>1
  <2>2. CASE agent' = [agent EXCEPT !.rv = agent.rv + 1, !.st = st]
    <3>1. /\ agent = [rv |-> agent.rv, limit |-> agent.limit,
                      replicas |-> agent.replicas, st |-> agent.st]
          /\ agent.rv \in Nat /\ agent.limit \in Limits
          /\ agent.replicas \in Replicas
      BY <1>1 DEF Agent
    <3>2. PICK n \in Nat : n = agent.rv + 1
      BY <3>1
    <3>3. agent' = [rv |-> n, limit |-> agent.limit,
                    replicas |-> agent.replicas, st |-> st]
      BY <2>2, <3>1, <3>2
    <3> QED
      BY <3>1, <3>3 DEF Agent
  <2> QED
    BY <1>2, <2>1, <2>2, Zenon DEF Store
<1>3. Store(st) \/ UNCHANGED agent
  BY Zenon DEF UpdateSucceeds, UpdateFails
<1>4. Disrupt \/ UNCHANGED disruptions
  BY DEF UpdateSucceeds, UpdateFails
<1>5. Disrupt => disruptions' \in 0 .. MaxDisruptions
  BY <1>1, AgentNumbers DEF Disrupt
<1> QED
  BY <1>1, <1>2, <1>3, <1>4, <1>5

\* A watch event on its way changes no copy.
LEMMA EventTypes ==
  ASSUME TypeOK, NEW o \in Object, Event(o)
  PROVE  seen' = seen /\ changed' \subseteq Object
BY DEF Event, TypeOK

\* The types, without those of the parts that a step leaves alone.
LEMMA AgentInitTypes == Init => AgentTypes
<1> SUFFICES ASSUME Init PROVE AgentTypes
  OBVIOUS
<1>1. agent \in Agent
  <2>1. PICK limit \in Limits, replicas \in Replicas :
          agent = [rv |-> 0, limit |-> limit, replicas |-> replicas,
                   st |-> InitialStatus]
    BY DEF Init
  <2> QED
    BY <2>1, NoJobType DEF Agent
<1>2. dep \in Deployment /\ job \in Job
  BY NoDeploymentType, NoJobType DEF Init
<1>3. Unused \in Entry /\ Unused.at = -1
  BY DEF Entry, Unused, Never
<1>4. flows \in [Flow -> Entry] /\ Past(flows)
  BY <1>3 DEF Init, Past
<1>5. prompt \in Source /\ refs \in Refs
  BY AgentAssumption DEF Init, Source
<1>6. seen = [agent |-> agent, dep |-> dep, flows |-> flows,
              prompt |-> prompt, refs |-> refs]
  BY DEF Init, Objects
<1>7. seen \in Cache /\ seen.flows = flows
  BY <1>1, <1>2, <1>4, <1>5, <1>6 DEF Cache
<1>8. clock \in Time /\ disruptions \in 0 .. MaxDisruptions
  BY AgentNumbers DEF Init, Time
<1>9. /\ changed \subseteq Object /\ pc \in {"idle", "apply", "save", "report"}
      /\ wake \in BOOLEAN /\ alarm \in {Never} \union Nat
  BY DEF Init
<1> QED
  BY <1>1, <1>2, <1>4, <1>5, <1>7, <1>8, <1>9
     DEF AgentTypes, TypeOK, Cache, Job

(***************************************************************************)
(* The reconciler's steps keep the types.                                  *)
(***************************************************************************)
\* A step that changes neither the flows, nor their copies, nor the clock.
LEMMA PastKept ==
  ASSUME AgentTypes, UNCHANGED <<flows, clock>>, seen'.flows = seen.flows
  PROVE  Past(flows)' /\ Past(seen.flows)'
BY DEF AgentTypes, Past

LEMMA ReconcilerTypes ==
  ASSUME AgentTypes, Reconcile
  PROVE  AgentTypes'
<1>0. TypeOK /\ Past(flows) /\ Past(seen.flows)
  BY DEF AgentTypes
<1>1. /\ agent \in Agent /\ dep \in Deployment /\ flows \in [Flow -> Entry]
      /\ prompt \in Source /\ refs \in Refs /\ seen \in Cache
      /\ changed \subseteq Object /\ job \in Job
      /\ wake \in BOOLEAN /\ alarm \in {Never} \union Nat /\ clock \in Time
      /\ disruptions \in 0 .. MaxDisruptions
  BY <1>0 DEF TypeOK, Cache, Job
<1>2. /\ seen.agent \in Agent /\ seen.dep \in Deployment
      /\ seen.flows \in [Flow -> Entry] /\ seen.prompt \in Source
      /\ seen.refs \in Refs
      /\ seen.agent.st \in Status /\ seen.agent.limit \in Nat
      /\ seen.agent.replicas \in Replicas
  BY <1>1, AgentNumbers DEF Cache, Agent
<1>3. /\ job.st \in Status /\ job.want \in Deployment
      /\ job.after \in {Never} \union 1 .. Window + 1
  BY <1>1 DEF Job
<1>4. CASE ReconcileFails
  <2>1. /\ UNCHANGED <<agent, dep, flows, prompt, refs, seen, changed, pc,
                       job, wake, alarm, clock>>
        /\ disruptions' = disruptions + 1 /\ disruptions < MaxDisruptions
    BY <1>4 DEF ReconcileFails, Disrupt, cluster, informer, control
  <2>2. disruptions' \in 0 .. MaxDisruptions
    BY <1>1, <2>1, AgentNumbers
  <2> QED
    BY <1>0, <2>1, <2>2, PastKept DEF AgentTypes, TypeOK
<1>5. CASE PromptUnresolved
  <2> DEFINE st == [seen.agent.st EXCEPT !.ready = "PromptResolutionError"]
  <2>1. /\ UpdateSucceeds(seen.agent.rv, st) \/ UpdateFails(seen.agent.rv, st)
        /\ UNCHANGED <<dep, flows, prompt, refs, pc, job, wake, alarm, clock>>
        /\ Event("agent")
    BY <1>5 DEF PromptUnresolved, control
  <2>2. st \in Status
    BY <1>2 DEF Status
  <2> HIDE DEF st
  <2>3. agent' \in Agent /\ disruptions' \in 0 .. MaxDisruptions
    BY <1>0, <2>1, <2>2, UpdateTypes
  <2>4. seen' = seen /\ changed' \subseteq Object
    BY <1>0, <2>1, EventTypes DEF Object
  <2> QED
    BY <1>0, <2>1, <2>3, <2>4, PastKept DEF AgentTypes, TypeOK
<1>6. CASE Decide
  <2> DEFINE st == Budget(seen.agent.st, seen.agent.limit, seen.flows, clock)
             want == buildDeployment(seen.agent.replicas, st, seen.prompt,
                                     seen.refs)
             after == IF st.exceeded THEN RequeueAfter(seen.flows, clock)
                      ELSE Never
  <2>1. /\ job' = [rv |-> seen.agent.rv, st |-> st, want |-> want,
                   after |-> after]
        /\ pc' = "apply" /\ wake' = FALSE /\ seen.prompt # Missing
        /\ UNCHANGED <<agent, dep, flows, prompt, refs, seen, changed, alarm,
                       clock, disruptions>>
    BY <1>6 DEF Decide, cluster, informer, bounds
  <2>2. st \in Status
    BY <1>1, <1>2, BudgetType
  <2>3. want \in Deployment
    <3>1. seen.prompt \in Text
      BY <1>2, <2>1 DEF Source
    <3> QED
      BY <1>2, <3>1, WantType
  <2>4. after \in {Never} \union 1 .. Window + 1
    <3>1. CASE st.exceeded
      <4>1. st.exceeded = Exceeds(seen.agent.limit, seen.flows, clock)
        BY <1>2 DEF Budget, Status
      <4> QED
        BY <1>0, <1>1, <1>2, <3>1, <4>1, RequeueBounds
    <3>2. CASE ~st.exceeded
      BY <3>2
    <3> QED
      BY <3>1, <3>2
  <2>5. seen.agent.rv \in Nat
    BY <1>2 DEF Agent
  <2> HIDE DEF st, want, after
  <2>6. job' \in Job
    BY <2>1, <2>2, <2>3, <2>4, <2>5 DEF Job
  <2> QED
    BY <1>0, <2>1, <2>6, PastKept DEF AgentTypes, TypeOK, Job
<1>7. CASE ApplyDeployment \/ ApplyFails
  <2>1. /\ pc' \in {"save", "report"}
        /\ dep' = Applied \/ dep' = dep
        /\ UNCHANGED <<agent, flows, prompt, refs, job, wake, alarm, clock>>
        /\ UNCHANGED disruptions \/ Disrupt
        /\ Event("dep")
    BY <1>7 DEF ApplyDeployment, ApplyFails, bounds
  <2>2. Applied \in Deployment
    <3>1. Patched \in Deployment
      <4>1. /\ job.want.replicas \in Scale /\ dep.replicas \in Scale
            /\ job.want.hash \in Source /\ dep.hash \in Source
            /\ job.want.env \in Environment /\ dep.env \in Environment
        BY <1>1, <1>3 DEF Deployment
      <4>2. PICK n \in Scale : n = Differs(job.want.replicas,
                                           seen.dep.replicas, dep.replicas)
        BY <4>1 DEF Differs
      <4>3. PICK h \in Source : h = Differs(job.want.hash, seen.dep.hash,
                                            dep.hash)
        BY <4>1 DEF Differs
      <4>4. PICK e \in Environment : e = Differs(job.want.env, seen.dep.env,
                                                 dep.env)
        BY <4>1 DEF Differs
      <4>5. Patched = [dep EXCEPT !.replicas = n, !.hash = h, !.env = e]
        BY <4>2, <4>3, <4>4, Zenon DEF Patched
      <4> QED
        BY <1>1, <4>5 DEF Deployment
    <3> QED
      BY <1>3, <3>1 DEF Applied
  <2>3. disruptions' \in 0 .. MaxDisruptions
    BY <1>1, <2>1, AgentNumbers DEF Disrupt
  <2>4. seen' = seen /\ changed' \subseteq Object
    BY <1>0, <2>1, EventTypes DEF Object
  <2> QED
    BY <1>0, <1>1, <2>1, <2>2, <2>3, <2>4, PastKept DEF AgentTypes, TypeOK
<1>8. CASE ReportError
  <2> DEFINE st == [job.st EXCEPT !.ready = "ReconcileError"]
  <2>1. /\ UpdateSucceeds(job.rv, st) \/ UpdateFails(job.rv, st)
        /\ UNCHANGED <<dep, flows, prompt, refs, alarm, clock>>
        /\ pc' = "idle" /\ job' = NoJob /\ wake' = TRUE
        /\ Event("agent")
    BY <1>8 DEF ReportError, EndReconcile
  <2>2. st \in Status
    BY <1>3 DEF Status
  <2> HIDE DEF st
  <2>3. agent' \in Agent /\ disruptions' \in 0 .. MaxDisruptions
    BY <1>0, <2>1, <2>2, UpdateTypes
  <2>4. seen' = seen /\ changed' \subseteq Object
    BY <1>0, <2>1, EventTypes DEF Object
  <2>5. job' \in Job
    BY <2>1, NoJobType
  <2> QED
    BY <1>0, <2>1, <2>3, <2>4, <2>5, PastKept DEF AgentTypes, TypeOK, Job
<1>9. CASE SaveStatus
  <2> DEFINE st == [job.st EXCEPT !.ready = ReadyReason(seen.dep)]
  <2>1. /\ UNCHANGED <<dep, flows, prompt, refs, clock>>
        /\ pc' = "idle" /\ job' = NoJob
        /\ Event("agent")
    BY <1>9 DEF SaveStatus, EndReconcile
  <2>2. st \in Status
    BY <1>3 DEF Status, ReadyReason
  <2>3. /\ \/ UpdateSucceeds(job.rv, st)
           \/ UpdateFails(job.rv, st)
           \/ UNCHANGED <<agent, disruptions>>
        /\ wake' = wake \/ wake' = TRUE
        /\ SetAlarm \/ UNCHANGED alarm
    BY <1>9, Zenon DEF SaveStatus
  <2> HIDE DEF st
  <2>4. agent' \in Agent /\ disruptions' \in 0 .. MaxDisruptions
    BY <1>0, <1>1, <2>2, <2>3, UpdateTypes
  <2>5. alarm' \in {Never} \union Nat
    <3>1. job.after > 0 => clock + job.after \in Nat
      <4>1. clock \in Nat /\ Window \in Nat
        BY <1>1, AgentNumbers
      <4>2. PICK n : n = job.after
        OBVIOUS
      <4>3. n > 0 => clock + n \in Nat
        BY <1>3, <4>1, <4>2 DEF Never
      <4> QED
        BY <4>2, <4>3
    <3>2. \/ alarm' = alarm
          \/ job.after > 0 /\ alarm' = clock + job.after
      BY <2>3, Zenon DEF SetAlarm
    <3> QED
      BY <1>1, <3>1, <3>2
  <2>6. seen' = seen /\ changed' \subseteq Object
    BY <1>0, <2>1, EventTypes DEF Object
  <2>7. job' \in Job
    BY <2>1, NoJobType
  <2>8. wake' \in BOOLEAN
    BY <1>1, <2>3
  <2> QED
    BY <1>0, <2>1, <2>4, <2>5, <2>6, <2>7, <2>8, PastKept
       DEF AgentTypes, TypeOK, Job
<1> QED
  BY <1>4, <1>5, <1>6, <1>7, <1>8, <1>9 DEF Reconcile

(***************************************************************************)
(* And so do the informers', the timers' and everybody else's.             *)
(***************************************************************************)
LEMMA InformerTypes ==
  ASSUME AgentTypes,
         \/ \E o \in Object : Sync(o)
         \/ RingAlarm \/ Resync \/ CrashOperator
  PROVE  AgentTypes'
<1>0. TypeOK /\ Past(flows) /\ Past(seen.flows)
  BY DEF AgentTypes
<1>1. /\ agent \in Agent /\ dep \in Deployment /\ flows \in [Flow -> Entry]
      /\ prompt \in Source /\ refs \in Refs /\ seen \in Cache
      /\ changed \subseteq Object /\ job \in Job
      /\ wake \in BOOLEAN /\ disruptions \in 0 .. MaxDisruptions
  BY <1>0 DEF TypeOK, Cache, Job
<1>2. CASE \E o \in Object : Sync(o)
  <2>1. PICK o \in Object : Sync(o)
    BY <1>2
  <2>2. /\ UNCHANGED <<agent, dep, flows, prompt, refs, pc, job, alarm, clock,
                       disruptions>>
        /\ seen' = [seen EXCEPT ![o] = Objects[o]]
        /\ changed' = changed \ {o}
    BY <2>1 DEF Sync, cluster, bounds
  <2>3. wake' \in BOOLEAN
    <3>1. wake' = (wake \/ Wakes(o))
      BY <2>1 DEF Sync
    <3> QED
      BY <3>1, Zenon
  <2>4. seen' \in Cache
    BY <1>1, <2>2 DEF Objects, Object, Cache
  <2>5. seen'.flows = flows \/ seen'.flows = seen.flows
    BY <1>1, <2>2 DEF Objects, Object, Cache
  <2>6. Past(flows)' /\ Past(seen.flows)'
    BY <1>0, <2>2, <2>5 DEF Past
  <2> QED
    BY <1>0, <1>1, <2>2, <2>3, <2>4, <2>6 DEF AgentTypes, TypeOK, Cache
<1>3. CASE RingAlarm \/ Resync
  <2>1. /\ UNCHANGED <<agent, dep, flows, prompt, refs, seen, changed, pc,
                       job, clock>>
        /\ wake' = TRUE
        /\ alarm' = alarm \/ alarm' = Never
        /\ UNCHANGED disruptions \/ Disrupt
    BY <1>3 DEF RingAlarm, Resync, cluster, informer, bounds
  <2>2. disruptions' \in 0 .. MaxDisruptions
    BY <1>1, <2>1, AgentNumbers DEF Disrupt
  <2> QED
    BY <1>0, <2>1, <2>2, PastKept DEF AgentTypes, TypeOK
<1>4. CASE CrashOperator
  <2>1. /\ UNCHANGED <<agent, dep, flows, prompt, refs, clock>>
        /\ pc' = "idle" /\ job' = NoJob /\ seen' = Objects
        /\ changed' = {} /\ wake' = TRUE /\ alarm' = Never
    BY <1>4 DEF CrashOperator, EndReconcile, cluster
  <2>2. disruptions' \in 0 .. MaxDisruptions
    BY <1>1, <1>4, AgentNumbers DEF CrashOperator, Disrupt
  <2>3. seen' \in Cache /\ seen'.flows = flows
    BY <1>1, <2>1 DEF Objects, Cache
  <2>4. Past(flows)' /\ Past(seen.flows)'
    BY <1>0, <2>1, <2>3 DEF Past
  <2>5. job' \in Job
    BY <2>1, NoJobType
  <2> QED
    BY <1>0, <2>1, <2>2, <2>3, <2>4, <2>5 DEF AgentTypes, TypeOK, Cache, Job
<1> QED
  BY <1>2, <1>3, <1>4

LEMMA OutsideTypes ==
  ASSUME AgentTypes,
         \/ \E w \in Flow : CompleteStep(w) \/ ForgetStep(w)
         \/ EditAgent \/ EditPrompt \/ EditRefs \/ EditDeployment
         \/ MovePods \/ Tick
  PROVE  AgentTypes'
<1>0. TypeOK /\ Past(flows) /\ Past(seen.flows)
  BY DEF AgentTypes
<1>1. /\ agent \in Agent /\ dep \in Deployment /\ flows \in [Flow -> Entry]
      /\ prompt \in Source /\ refs \in Refs /\ clock \in Time
      /\ seen.flows \in [Flow -> Entry]
      /\ disruptions \in 0 .. MaxDisruptions
  BY <1>0 DEF TypeOK
<1>2. Disrupt => disruptions' \in 0 .. MaxDisruptions
  BY <1>1, AgentNumbers DEF Disrupt
<1>3. CASE \E w \in Flow : CompleteStep(w) \/ ForgetStep(w)
  <2>1. PICK w \in Flow : CompleteStep(w) \/ ForgetStep(w)
    BY <1>3
  <2>2. /\ UNCHANGED <<agent, dep, prompt, refs, pc, job, wake, alarm, clock>>
        /\ UNCHANGED disruptions \/ Disrupt
        /\ Event("flows")
    BY <2>1 DEF CompleteStep, ForgetStep, control, bounds
  <2>3. PICK e \in Entry : flows' = [flows EXCEPT ![w] = e] /\ e.at <= clock
    <3>1. [at |-> clock, tokens |-> Tokens[w]] \in Entry /\ clock <= clock
      BY <1>1, AgentAssumption, AgentNumbers DEF Entry
    <3>2. Unused \in Entry /\ Unused.at <= clock
      BY <1>1, AgentNumbers DEF Entry, Unused, Never
    <3> QED
      BY <2>1, <3>1, <3>2 DEF CompleteStep, ForgetStep
  <2>4. flows' \in [Flow -> Entry] /\ Past(flows)'
    BY <1>0, <1>1, <2>2, <2>3 DEF Past
  <2>5. seen' = seen /\ changed' \subseteq Object
    BY <1>0, <2>2, EventTypes DEF Object
  <2>6. Past(seen.flows)'
    BY <1>0, <2>2, <2>5 DEF Past
  <2> QED
    BY <1>0, <1>1, <1>2, <2>2, <2>4, <2>5, <2>6 DEF AgentTypes, TypeOK
<1>4. CASE EditAgent
  <2>1. /\ UNCHANGED <<dep, flows, prompt, refs, pc, job, wake, alarm, clock>>
        /\ Disrupt /\ Event("agent")
    BY <1>4 DEF EditAgent, control
  <2>2. PICK limit \in Limits, replicas \in Replicas :
          agent' = [agent EXCEPT !.rv = agent.rv + 1, !.limit = limit,
                                 !.replicas = replicas]
    BY <1>4 DEF EditAgent
  <2>3. agent' \in Agent
    <3>1. PICK n \in Nat : n = agent.rv + 1
      BY <1>1 DEF Agent
    <3>2. agent' = [rv |-> n, limit |-> limit, replicas |-> replicas,
                    st |-> agent.st]
      BY <1>1, <2>2, <3>1 DEF Agent
    <3> QED
      BY <1>1, <3>2 DEF Agent
  <2>4. seen' = seen /\ changed' \subseteq Object
    BY <1>0, <2>1, EventTypes DEF Object
  <2> QED
    BY <1>0, <1>2, <2>1, <2>3, <2>4, PastKept DEF AgentTypes, TypeOK
<1>5. CASE EditPrompt \/ EditRefs
  <2>1. /\ UNCHANGED <<agent, dep, flows, pc, job, wake, alarm, clock>>
        /\ Disrupt
        /\ Event("prompt") \/ Event("refs")
    BY <1>5 DEF EditPrompt, EditRefs, control
  <2>2. prompt' \in Source
    BY <1>1, <1>5 DEF EditPrompt, EditRefs, Source
  <2>3. refs' \in Refs
    BY <1>1, <1>5 DEF EditPrompt, EditRefs, Refs
  <2>4. seen' = seen /\ changed' \subseteq Object
    BY <1>0, <2>1, EventTypes DEF Object
  <2> QED
    BY <1>0, <1>2, <2>1, <2>2, <2>3, <2>4, PastKept DEF AgentTypes, TypeOK
<1>6. CASE EditDeployment \/ MovePods
  <2>1. /\ UNCHANGED <<agent, flows, prompt, refs, pc, job, wake, alarm,
                       clock>>
        /\ UNCHANGED disruptions \/ Disrupt
        /\ Event("dep")
    BY <1>6 DEF EditDeployment, MovePods, control, bounds
  <2>2. dep' \in Deployment
    <3>1. \A b \in BOOLEAN : [dep EXCEPT !.available = b] \in Deployment
      BY <1>1 DEF Deployment
    <3>2. \A n \in Replicas : [dep EXCEPT !.replicas = n] \in Deployment
      BY <1>1 DEF Deployment, Scale
    <3>3. MovePods =>
            \E b \in BOOLEAN : dep' = [dep EXCEPT !.available = b]
      BY Zenon DEF MovePods
    <3>4. EditDeployment =>
            \/ \E n \in Replicas : dep' = [dep EXCEPT !.replicas = n]
            \/ dep' = NoDeployment
      BY Zenon DEF EditDeployment
    <3> QED
      BY <1>6, <3>1, <3>2, <3>3, <3>4, NoDeploymentType
  <2>3. seen' = seen /\ changed' \subseteq Object
    BY <1>0, <2>1, EventTypes DEF Object
  <2> QED
    BY <1>0, <1>1, <1>2, <2>1, <2>2, <2>3, PastKept DEF AgentTypes, TypeOK
<1>7. CASE Tick
  <2>1. /\ UNCHANGED <<agent, dep, flows, prompt, refs, seen, changed, pc,
                       job, wake, alarm>>
        /\ clock < MaxTime /\ clock' = clock + 1
        /\ UNCHANGED disruptions \/ Disrupt
    BY <1>7 DEF Tick, cluster, informer, control
  <2>2. clock' \in Time
    BY <1>1, <2>1, AgentAssumption DEF Time
  <2>3. \A fs \in [Flow -> Entry] :
          Past(fs) => \A w \in Flow : fs[w].at <= clock'
    <3> SUFFICES ASSUME NEW fs \in [Flow -> Entry], Past(fs), NEW w \in Flow
                 PROVE  fs[w].at <= clock'
      OBVIOUS
    <3>1. fs[w] \in Entry /\ fs[w].at <= clock
      BY DEF Past
    <3>2. clock \in Nat
      BY <1>1, AgentNumbers
    <3>3. fs[w].at \in Int
      <4>1. CASE fs[w] = Unused
        BY <4>1 DEF Unused, Never
      <4>2. CASE fs[w] # Unused
        <5>1. fs[w] \in [at : Time, tokens : Nat]
          BY <3>1, <4>2 DEF Entry
        <5>2. fs[w].at \in Time
          BY <5>1
        <5>3. fs[w].at \in Nat
          BY <5>2, AgentNumbers
        <5> QED
          BY <5>3
      <4> QED
        BY <4>1, <4>2
    <3> QED
      BY <2>1, <3>1, <3>2, <3>3
  <2>4. Past(flows)' /\ Past(seen.flows)'
    BY <1>0, <1>1, <2>1, <2>3 DEF Past
  <2> QED
    BY <1>0, <1>1, <1>2, <2>1, <2>2, <2>4 DEF AgentTypes, TypeOK
<1> QED
  BY <1>3, <1>4, <1>5, <1>6, <1>7

(***************************************************************************)
(* TypeOK, of ArkAgentReconciler: every object, copy and job has its type, *)
(* and the timer is never longer than the window and one unit of time.     *)
(***************************************************************************)
THEOREM AgentTypeOK == Spec => []TypeOK
<1>1. AgentTypes /\ [Next]_vars => AgentTypes'
  <2> SUFFICES ASSUME AgentTypes, [Next]_vars PROVE AgentTypes'
    OBVIOUS
  <2>1. CASE UNCHANGED vars
    BY <2>1 DEF AgentTypes, TypeOK, Past, vars, cluster, informer, control,
                bounds
  <2>2. CASE Reconcile
    BY <2>2, ReconcilerTypes
  <2>3. CASE \/ \E o \in Object : Sync(o)
             \/ RingAlarm \/ Resync \/ CrashOperator
    BY <2>3, InformerTypes
  <2>4. CASE \/ \E w \in Flow : CompleteStep(w) \/ ForgetStep(w)
             \/ EditAgent \/ EditPrompt \/ EditRefs \/ EditDeployment
             \/ MovePods \/ Tick
    BY <2>4, OutsideTypes
  <2> QED
    BY <2>1, <2>2, <2>3, <2>4 DEF Next
<1>2. AgentTypes => TypeOK
  BY DEF AgentTypes
<1> QED
  BY <1>1, <1>2, AgentInitTypes, PTL DEF Spec
=============================================================================
