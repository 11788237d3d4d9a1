------------------------------ MODULE ArkAgent ------------------------------
(***************************************************************************)
(* One ArkAgent and the reconciler that keeps its Deployment               *)
(* (internal/controller/arkagent_controller.go): the pods' template from   *)
(* the agent, its prompt, settings and memory; and the daily token budget, *)
(* which scales the Deployment to zero and back.                           *)
(*                                                                         *)
(* The reconciler reads every object from an informer's cache that may lag *)
(* and is woken by watches and by the timer it asks for.  It patches the   *)
(* Deployment with the difference between its cached copy and what it      *)
(* wants, and then writes the agent's status.  Flows complete steps, users *)
(* edit and delete objects, API calls fail and the operator crashes: these *)
(* are "disruptions".                                                      *)
(***************************************************************************)
EXTENDS Integers, FiniteSets, FiniteSetsExt

CONSTANTS
  Flow,            \* the flows with a step that names the agent
  Tokens,          \* Flow -> what its step uses
  Limits,          \* spec.limits.maxDailyTokens: what it may be set to
  Replicas,        \* spec.replicas: what it may be set to
  Text,            \* the texts of the prompt
  Settings,        \* the contents of the ArkSettings
  Memory,          \* the backends of the ArkMemory
  FirstText,       \* the prompt in the beginning
  FirstRefs,       \* the settings and the memory in the beginning
  Window,          \* the 24 hours of the budget
  MaxTime,         \* bound: the end of time
  MaxDisruptions   \* bound: disruptions in a behaviour

Time == 0 .. MaxTime

Never == -1

Missing == "missing"

\* What the agent refers to: an ArkSettings and an ArkMemory.
Refs == [settings : Settings \union {Missing},
         memory : Memory \union {Missing}]

ASSUME AgentAssumption ==
  /\ IsFiniteSet(Flow)
  /\ Tokens \in [Flow -> Nat]
  /\ Limits \subseteq Nat
  /\ Replicas \subseteq Nat
  /\ FirstText \in Text
  /\ FirstRefs \in Refs
  /\ Missing \notin Text \union Settings \union Memory
  /\ Memory \subseteq {"in-context", "redis", "vector-store"}
  /\ Window \in Nat \ {0}
  /\ MaxTime \in Nat
  /\ MaxDisruptions \in Nat

VARIABLES
  agent,       \* the agent on the API server: version, spec, status
  dep,         \* its Deployment
  flows,       \* Flow -> completion time and usage of the step
  prompt,      \* the ConfigMap or Secret with the prompt
  refs,        \* the ArkSettings and the ArkMemory
  seen,        \* the informers' copies of all of these
  changed,     \* the objects of which the informers have not seen a change
  pc,          \* where the reconciler is
  job,         \* what this reconciliation works with
  wake,        \* whether the agent is in the controller's work queue
  alarm,       \* when RequeueAfter puts it there
  clock,       \* the time
  disruptions  \* disruptions so far

cluster == <<agent, dep, flows, prompt, refs>>
control == <<pc, job, wake, alarm>>
informer == <<seen, changed>>
bounds == <<clock, disruptions>>
vars == <<cluster, informer, control, bounds>>

Objects == [agent |-> agent, dep |-> dep, flows |-> flows,
            prompt |-> prompt, refs |-> refs]

Object == {"agent", "dep", "flows", "prompt", "refs"}

\* Every change of object o on the API server is a watch event.
Event(o) ==
  /\ changed' = IF Objects'[o] = Objects[o] THEN changed
                ELSE changed \union {o}
  /\ UNCHANGED seen

Unused == [at |-> Never, tokens |-> 0]

InitialStatus == [exceeded |-> FALSE, usage |-> 0, ready |-> "none"]

NoDeployment == [there |-> FALSE, replicas |-> 0, hash |-> Missing,
                 env |-> <<>>, available |-> FALSE]

NoJob == [rv |-> 0, st |-> InitialStatus, want |-> NoDeployment,
          after |-> Never]

Init ==
  /\ \E limit \in Limits, replicas \in Replicas :
       agent = [rv |-> 0, limit |-> limit, replicas |-> replicas,
                st |-> InitialStatus]
  /\ dep = NoDeployment
  /\ flows = [w \in Flow |-> Unused]
  /\ prompt = FirstText
  /\ refs = FirstRefs
  /\ seen = Objects
  /\ changed = {}
  /\ pc = "idle"
  /\ job = NoJob
  /\ wake = TRUE
  /\ alarm = Never
  /\ clock = 0
  /\ disruptions = 0

Disrupt ==
  /\ disruptions < MaxDisruptions
  /\ disruptions' = disruptions + 1

(***************************************************************************)
(* reconcileDailyBudget.                                                   *)
(***************************************************************************)
InWindow(used, now) == used.at # Never /\ used.at >= now - Window

Counted(fs, now) == {w \in Flow : InWindow(fs[w], now)}

Usage(fs, now) == MapThenSumSet(LAMBDA w : fs[w].tokens, Counted(fs, now))

\* Slip: reaching the limit is not enough.
PastLimit(limit, fs, now) == limit > 0 /\ Usage(fs, now) > limit

Exceeds(limit, fs, now) == limit > 0 /\ Usage(fs, now) >= limit

\* Slip: wake up when the oldest entry is as old as the window.
RequeueAtBoundary(fs, now) ==
  Min({fs[w].at : w \in Counted(fs, now)}) + Window - now

\* The time until the oldest entry has left the window, and one unit more.
\* (The hour for a budget exceeded by nothing is never used: limits are
\* positive.)
RequeueAfter(fs, now) ==
  Min({fs[w].at : w \in Counted(fs, now)}) + Window - now + 1

Budget(st, limit, fs, now) ==
  [st EXCEPT !.exceeded = Exceeds(limit, fs, now),
             !.usage = IF limit > 0 THEN Usage(fs, now) ELSE 0]

(***************************************************************************)
(* buildDeployment.  A list of environment variables is the function that  *)
(* the kubelet makes of it: the last of two entries of a name counts.      *)
(***************************************************************************)
AppendVars(list, more) ==
  [x \in DOMAIN list \union DOMAIN more |->
     IF x \in DOMAIN more THEN more[x] ELSE list[x]]

mergeSystemPrompt(base, settings) == <<settings, base>>

buildSettingsEnvVars(settings) ==
  IF settings = Missing THEN <<>>
  ELSE [AGENT_TEMPERATURE |-> settings, AGENT_MEMORY_BACKEND |-> "in-context"]

\* What the redis or the vector-store configuration adds.
BackendEnvVars(memory) ==
  IF memory = "redis" THEN [AGENT_MEMORY_REDIS_URL |-> "secret"]
  ELSE IF memory = "vector-store"
    THEN [AGENT_MEMORY_VECTOR_STORE_ENDPOINT |-> "url"]
  ELSE <<>>

buildMemoryEnvVars(memory) ==
  IF memory = Missing THEN <<>>
  ELSE AppendVars([AGENT_MEMORY_BACKEND |-> memory], BackendEnvVars(memory))

OwnEnvVars(text, settings) ==
  [AGENT_SYSTEM_PROMPT |-> mergeSystemPrompt(text, settings)]

buildEnvVars(text, objs) ==
  AppendVars(AppendVars(OwnEnvVars(text, objs.settings),
                        buildSettingsEnvVars(objs.settings)),
             buildMemoryEnvVars(objs.memory))

buildDeployment(replicas, st, text, objs) ==
  [NoDeployment EXCEPT !.there = TRUE,
     !.replicas = IF st.exceeded THEN 0 ELSE replicas,
     !.hash = text, !.env = buildEnvVars(text, objs)]

(***************************************************************************)
(* The agent's status update, refused when the agent has changed.          *)
(***************************************************************************)
Accepted(rv) == rv = agent.rv

\* An update that changes nothing keeps the version.
Store(st) ==
  agent' = IF st = agent.st THEN agent
           ELSE [agent EXCEPT !.rv = agent.rv + 1, !.st = st]

\* A conflict, or an API error, with which the status may have been stored.
UpdateFails(rv, st) ==
  \/ /\ ~Accepted(rv)
     /\ UNCHANGED <<agent, disruptions>>
  \/ /\ Disrupt
     /\ (Accepted(rv) /\ Store(st)) \/ UNCHANGED agent

UpdateSucceeds(rv, st) ==
  /\ Accepted(rv)
  /\ Store(st)
  /\ UNCHANGED disruptions

\* No watch event is on its way that will wake the reconciler.
Current == changed \subseteq {"refs"}

\* Nothing is left that would wake the reconciler, but for its own timer.
\* (What changes the settings or the memory does not wake it.)
AtRest ==
  /\ pc = "idle"
  /\ ~wake
  /\ Current
  /\ alarm # Never => alarm > clock

(***************************************************************************)
(* Reconcile: read the caches and the clock, and decide.                   *)
(***************************************************************************)
Begin == pc = "idle" /\ wake

\* An API error before anything has been done: the agent is requeued.
ReconcileFails ==
  /\ Begin
  /\ Disrupt
  /\ UNCHANGED <<cluster, informer, control, clock>>

\* resolveSystemPrompt fails.  The condition is written, its error ignored,
\* and the agent requeued.
PromptUnresolved ==
  LET a == seen.agent
      st == [a.st EXCEPT !.ready = "PromptResolutionError"]
  IN /\ Begin
     /\ seen.prompt = Missing
     /\ UpdateSucceeds(a.rv, st) \/ UpdateFails(a.rv, st)
     /\ UNCHANGED <<dep, flows, prompt, refs, control, clock>>
     /\ Event("agent")

Decide ==
  LET a == seen.agent
      st == Budget(a.st, a.limit, seen.flows, clock)
  IN /\ Begin
     /\ seen.prompt # Missing
     /\ job' = [rv |-> a.rv, st |-> st,
                want |-> buildDeployment(a.replicas, st, seen.prompt,
                                         seen.refs),
                after |-> IF st.exceeded
                          THEN RequeueAfter(seen.flows, clock) ELSE Never]
     /\ pc' = "apply"
     /\ wake' = FALSE
     /\ UNCHANGED <<cluster, informer, alarm, bounds>>

(***************************************************************************)
(* reconcileDeployment: create it, or patch what differs from the cache.   *)
(***************************************************************************)
Differs(new, old, current) == IF new = old THEN current ELSE new

\* Slip: only the replicas of a Deployment that is there are patched.
PatchReplicasOnly ==
  [dep EXCEPT !.replicas = Differs(job.want.replicas, seen.dep.replicas,
                                   dep.replicas)]

Patched ==
  [dep EXCEPT !.replicas = Differs(job.want.replicas, seen.dep.replicas,
                                   dep.replicas),
              !.hash = Differs(job.want.hash, seen.dep.hash, dep.hash),
              !.env = Differs(job.want.env, seen.dep.env, dep.env)]

\* The call the code makes, by what the cache holds, and what it leads to.
Applied == IF seen.dep.there THEN Patched ELSE job.want

\* Create finds no Deployment, Patch finds one.
Applies == seen.dep.there = dep.there

ApplyDeployment ==
  /\ pc = "apply"
  /\ Applies
  /\ dep' = Applied
  /\ pc' = "save"
  /\ UNCHANGED <<agent, flows, prompt, refs, job, wake, alarm, bounds>>
  /\ Event("dep")

ApplyFails ==
  /\ pc = "apply"
  /\ \/ ~Applies /\ UNCHANGED <<dep, disruptions>>
     \/ /\ Disrupt
        /\ (Applies /\ dep' = Applied) \/ UNCHANGED dep
  /\ pc' = "report"
  /\ UNCHANGED <<agent, flows, prompt, refs, job, wake, alarm, clock>>
  /\ Event("dep")

EndReconcile ==
  /\ pc' = "idle"
  /\ job' = NoJob

\* The error is written into the condition, and the agent requeued.
ReportError ==
  LET st == [job.st EXCEPT !.ready = "ReconcileError"]
  IN /\ pc = "report"
     /\ UpdateSucceeds(job.rv, st) \/ UpdateFails(job.rv, st)
     /\ EndReconcile
     /\ wake' = TRUE
     /\ UNCHANGED <<dep, flows, prompt, refs, alarm, clock>>
     /\ Event("agent")

(***************************************************************************)
(* syncStatus and the end of Reconcile.                                    *)
(***************************************************************************)
\* Whether there are pods, and all of them are ready.
ReadyReason(d) == IF d.available THEN "AllReplicasReady" ELSE "Progressing"

\* The work queue keeps the earlier of two timers.
SetAlarm ==
  IF job.after > 0 /\ (alarm = Never \/ clock + job.after < alarm)
  THEN alarm' = clock + job.after
  ELSE UNCHANGED alarm

SaveStatus ==
  LET st == [job.st EXCEPT !.ready = ReadyReason(seen.dep)]
  IN /\ pc = "save"
     /\ \/ /\ seen.dep.there
           /\ UpdateSucceeds(job.rv, st)
           /\ SetAlarm
           /\ UNCHANGED wake
        \/ /\ seen.dep.there
           /\ UpdateFails(job.rv, st)
           /\ wake' = TRUE
           /\ UNCHANGED alarm
        \/ /\ ~seen.dep.there
           /\ SetAlarm
           /\ UNCHANGED <<agent, wake, disruptions>>
     /\ EndReconcile
     /\ UNCHANGED <<dep, flows, prompt, refs, clock>>
     /\ Event("agent")
-----------------------------------------------------------------------------
(***************************************************************************)
(* The informers.  SetupWithManager watches the agent, its Deployment, the *)
(* flows, and ConfigMaps and Secrets; settings and memories are only read. *)
(***************************************************************************)
\* Slip: flows wake nobody.
FlowsWakeNobody(o) == o \in {"agent", "dep", "prompt"}

\* For, Owns, flowToAgents, configMapToAgents, secretToAgents.
Wakes(o) == o \in {"agent", "dep", "flows", "prompt"}

Sync(o) ==
  /\ o \in changed
  /\ seen' = [seen EXCEPT ![o] = Objects[o]]
  /\ changed' = changed \ {o}
  /\ wake' = (wake \/ Wakes(o))
  /\ UNCHANGED <<cluster, pc, job, alarm, bounds>>

RingAlarm ==
  /\ alarm # Never
  /\ alarm <= clock
  /\ alarm' = Never
  /\ wake' = TRUE
  /\ UNCHANGED <<cluster, informer, pc, job, bounds>>

\* The informer's periodic resync enqueues every agent.
Resync ==
  /\ ~wake
  /\ Disrupt
  /\ wake' = TRUE
  /\ UNCHANGED <<cluster, informer, pc, job, alarm, clock>>

\* The operator crashes, and starts again with a list of all objects.
CrashOperator ==
  /\ Disrupt
  /\ EndReconcile
  /\ seen' = Objects
  /\ changed' = {}
  /\ wake' = TRUE
  /\ alarm' = Never
  /\ UNCHANGED <<cluster, clock>>

(***************************************************************************)
(* Flows, users, the Deployment's pods and time.                           *)
(***************************************************************************)
CompleteStep(w) ==
  /\ flows[w] = Unused
  /\ flows' = [flows EXCEPT ![w] = [at |-> clock, tokens |-> Tokens[w]]]
  /\ UNCHANGED <<agent, dep, prompt, refs, control, bounds>>
  /\ Event("flows")

\* The flow is deleted and made again, or its step starts anew.
ForgetStep(w) ==
  /\ Disrupt
  /\ flows[w] # Unused
  /\ flows' = [flows EXCEPT ![w] = Unused]
  /\ UNCHANGED <<agent, dep, prompt, refs, control, clock>>
  /\ Event("flows")

EditAgent ==
  /\ Disrupt
  /\ \E limit \in Limits, replicas \in Replicas :
       /\ <<limit, replicas>> # <<agent.limit, agent.replicas>>
       /\ agent' = [agent EXCEPT !.rv = agent.rv + 1, !.limit = limit,
                                 !.replicas = replicas]
  /\ UNCHANGED <<dep, flows, prompt, refs, control, clock>>
  /\ Event("agent")

EditPrompt ==
  /\ Disrupt
  /\ prompt' \in (Text \union {Missing}) \ {prompt}
  /\ UNCHANGED <<agent, dep, flows, refs, control, clock>>
  /\ Event("prompt")

EditRefs ==
  /\ Disrupt
  /\ \/ \E s \in (Settings \union {Missing}) \ {refs.settings} :
          refs' = [refs EXCEPT !.settings = s]
     \/ \E m \in (Memory \union {Missing}) \ {refs.memory} :
          refs' = [refs EXCEPT !.memory = m]
  /\ UNCHANGED <<agent, dep, flows, prompt, control, clock>>
  /\ Event("refs")

\* Somebody scales or deletes the Deployment.
EditDeployment ==
  /\ Disrupt
  /\ dep.there
  /\ \/ \E n \in Replicas \ {dep.replicas} :
          dep' = [dep EXCEPT !.replicas = n]
     \/ dep' = NoDeployment
  /\ UNCHANGED <<agent, flows, prompt, refs, control, clock>>
  /\ Event("dep")

\* The Deployment controller has stopped the pods, or all of them are ready.
MovePods ==
  /\ dep.available # (dep.replicas > 0)
  /\ dep' = [dep EXCEPT !.available = ~@]
  /\ UNCHANGED <<agent, flows, prompt, refs, control, bounds>>
  /\ Event("dep")

\* A unit of time is long: that it ends while a reconciliation goes on or a
\* cache lags is a disruption.
Tick ==
  /\ clock < MaxTime
  /\ clock' = clock + 1
  /\ IF AtRest THEN UNCHANGED disruptions ELSE Disrupt
  /\ UNCHANGED <<cluster, informer, control>>

Reconcile ==
  \/ ReconcileFails \/ PromptUnresolved \/ Decide
  \/ ApplyDeployment \/ ApplyFails \/ ReportError \/ SaveStatus

Next ==
  \/ Reconcile
  \/ \E o \in Object : Sync(o)
  \/ RingAlarm \/ Resync \/ CrashOperator
  \/ \E w \in Flow : CompleteStep(w) \/ ForgetStep(w)
  \/ EditAgent \/ EditPrompt \/ EditRefs \/ EditDeployment
  \/ MovePods \/ Tick

(***************************************************************************)
(* The controller's worker goes on, the informers catch up, the Deployment *)
(* controller works, timers run and time passes.  Nothing is assumed of    *)
(* the periodic resync.                                                    *)
(***************************************************************************)
Fairness ==
  /\ WF_vars(Reconcile)
  /\ WF_vars(\E o \in Object : Sync(o))
  /\ WF_vars(RingAlarm)
  /\ WF_vars(MovePods)
  /\ WF_vars(Tick)

Spec == Init /\ [][Next]_vars /\ Fairness
-----------------------------------------------------------------------------
Source == Text \union {Missing}

Entry == {Unused} \union [at : Time, tokens : Nat]

Status == [exceeded : BOOLEAN, usage : Nat,
           ready : {"none", "PromptResolutionError", "ReconcileError",
                    "Progressing", "AllReplicasReady"}]

Agent == [rv : Nat, limit : Limits, replicas : Replicas, st : Status]

Environment == {<<>>} \union {buildEnvVars(t, r) : t \in Text, r \in Refs}

Scale == Replicas \union {0}

Deployment == [there : BOOLEAN, replicas : Scale, hash : Source,
               env : Environment, available : BOOLEAN]

TypeOK ==
  /\ agent \in Agent
  /\ dep \in Deployment
  /\ flows \in [Flow -> Entry]
  /\ prompt \in Source
  /\ refs \in Refs
  /\ seen \in [agent : Agent, dep : Deployment, flows : [Flow -> Entry],
               prompt : Source, refs : Refs]
  /\ changed \subseteq Object
  /\ pc \in {"idle", "apply", "save", "report"}
  /\ job \in [rv : Nat, st : Status, want : Deployment,
              after : {Never} \union 1 .. Window + 1]
  /\ wake \in BOOLEAN
  /\ alarm \in {Never} \union Nat
  /\ clock \in Time
  /\ disruptions \in 0 .. MaxDisruptions

\* The steps that completed within the last Window.
Recent == {w \in Flow : flows[w].at # Never /\ clock - flows[w].at <= Window}

\* The budget is reached.
Over ==
  /\ agent.limit > 0
  /\ MapThenSumSet(LAMBDA w : flows[w].tokens, Recent) >= agent.limit

\* The Deployment has the replicas that the status leaves it.
Scaled ==
  /\ dep.there
  /\ dep.replicas = IF agent.st.exceeded THEN 0 ELSE agent.replicas

\* An agent that has run out of tokens is looked at again.
LookedAtAgain == agent.st.exceeded => alarm # Never

(***************************************************************************)
(* "When the budget is reached, the operator scales replicas to 0 [...]    *)
(* The deployment resumes automatically once the 24-hour window rotates":  *)
(* when the reconciler rests, the Deployment is scaled by a status that    *)
(* is true of a reached budget, and one scaled to zero has a timer.        *)
(* (A stale cache under the budget and under the patch, refused updates,   *)
(* a crash between the patch and the timer.)                               *)
(***************************************************************************)
BudgetAtRest ==
  AtRest => Scaled /\ LookedAtAgain /\ (Over => agent.st.exceeded)

(***************************************************************************)
(* When the reconciler rests, the pods have the current prompt, in the     *)
(* environment and in the hash that restarts them, although a patch holds  *)
(* only what differs from a cached Deployment; the status tells whether    *)
(* they are ready; and an ArkMemory "takes precedence over any             *)
(* AGENT_MEMORY_BACKEND set via ArkSettings".                              *)
(***************************************************************************)
TemplateAtRest ==
  AtRest =>
    /\ dep.hash = prompt
    /\ dep.env["AGENT_SYSTEM_PROMPT"][2] = prompt
    /\ "AGENT_MEMORY_REDIS_URL" \in DOMAIN dep.env =>
         dep.env["AGENT_MEMORY_BACKEND"] = "redis"
    /\ agent.st.ready = ReadyReason(dep)

(***************************************************************************)
(* Once the prompt can be read, the Deployment follows the budget: it is   *)
(* scaled to zero when a step completes over the limit, and back when      *)
(* enough of the window has passed, by watches and the timer alone.  (A    *)
(* timer after the end of the model's time is no evidence.)                *)
(***************************************************************************)
InLine == dep.there /\ dep.replicas = IF Over THEN 0 ELSE agent.replicas

BudgetFollowed ==
  <>[](prompt # Missing) => []<>(InLine \/ alarm > MaxTime)
=============================================================================
