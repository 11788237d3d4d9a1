------------------------------ MODULE ArkEvent ------------------------------
(***************************************************************************)
(* One ArkEvent: the reconciler that fires it on a schedule or when a flow *)
(* completes (internal/controller/arkevent_controller.go), the HTTP        *)
(* handler that fires it on a POST (trigger_webhook_server.go), and the    *)
(* flows it dispatches.                                                    *)
(*                                                                         *)
(* The reconciler and every request are actors that read the trigger and   *)
(* the flows from informer caches, create one flow per target with an API  *)
(* call each, and write the status.  Flows run, users suspend and resume   *)
(* the trigger, time passes in seconds, and API errors and operator        *)
(* crashes are "disruptions", at most MaxDisruptions of them.              *)
(***************************************************************************)
EXTENDS Integers, Sequences, FiniteSets

CONSTANTS
  Triggers,        \* what the trigger's spec may be: kind, policy, onPhase
  Targets,         \* spec.targets: a sequence of template flows
  Due,             \* the times of the cron schedule
  Lookback,        \* how far mostRecentSchedule looks back (24 hours)
  Request,         \* the HTTP requests
  MaxDelay,        \* bound: how long firing takes, in seconds
  MaxTime,         \* bound: the end of time
  MaxFires,        \* bound: fires that the status counts
  MaxDisruptions   \* bound: disruptions in a behaviour

Kind == {"cron", "webhook", "pipeline-output"}

Policy == {"Allow", "Forbid"}

\* The phase that a trigger on another flow waits for.
OnPhase == {"Pending", "Running", "Succeeded", "Failed"}

Time == 0 .. MaxTime

Never == -1

ASSUME EventAssumption ==
  /\ Triggers \subseteq [kind : Kind, policy : Policy, onPhase : OnPhase]
  /\ Len(Targets) \in Nat \ {0}
  /\ DOMAIN Targets = 1 .. Len(Targets)
  /\ \A k \in DOMAIN Targets : Targets[k] # "upstream"
  /\ Due \subseteq Time \ {0}
  /\ Lookback \in Nat \ {0}
  /\ MaxDelay \in Nat
  /\ MaxTime \in Nat
  /\ MaxFires \in Nat
  /\ MaxDisruptions \in Nat
  /\ "reconciler" \notin Request

Reconciler == "reconciler"

Actor == Request \union {Reconciler}

\* A dispatched flow is named after its template and the second of its
\* creation; the flow the trigger watches has a name of its own.
Dispatched == {Targets[k] : k \in DOMAIN Targets} \X Time

Upstream == <<"upstream", 0>>

FlowName == Dispatched \union {Upstream}

NoFlow == [phase |-> "absent", firedAt |-> Never, completed |-> Never]

VARIABLES
  kind,         \* spec.source.type
  policy,       \* spec.concurrencyPolicy
  onPhase,      \* spec.source.pipelineOutput.onPhase
  ev,           \* the trigger on the API server: version, suspended, status
  evSeen,       \* the trigger in the informer's cache
  flows,        \* FlowName -> the flow on the API server
  seen,         \* what is read of the flows in the informer's cache
  secret,       \* whether the webhook token's Secret exists
  act,          \* Actor -> what it does
  wake,         \* whether the trigger is in the controller's work queue
  alarm,        \* when RequeueAfter puts it there
  clock,        \* the time, in seconds
  disruptions,  \* disruptions so far
  collided      \* whether a name was in use already (history)

spec == <<kind, policy, onPhase>>
vars == <<spec, ev, evSeen, flows, seen, secret, act, wake, alarm,
          clock, disruptions, collided>>

\* Conditions carry the time they were set: "at".
InitialStatus == [last |-> Never, count |-> 0, at |-> Never]

NewEvent == [rv |-> 0, suspended |-> FALSE, st |-> InitialStatus]

\* What the controller reads of the flows: whether one that the trigger
\* dispatched is Running, and the watched flow.
Visible == [running |-> \E n \in Dispatched : flows[n].phase = "Running",
            upstream |-> flows[Upstream]]

Idle == [pc |-> "idle", ev |-> NewEvent, now |-> Never, k |-> 1]

Done == [Idle EXCEPT !.pc = "done"]

Init ==
  /\ \E t \in Triggers :
       kind = t.kind /\ policy = t.policy /\ onPhase = t.onPhase
  /\ ev = NewEvent
  /\ evSeen = NewEvent
  /\ flows = [n \in FlowName |-> NoFlow]
  /\ seen = Visible
  /\ secret = FALSE
  /\ act = [a \in Actor |-> Idle]
  /\ wake = TRUE
  /\ alarm = Never
  /\ clock = 0
  /\ disruptions = 0
  /\ collided = FALSE

Disrupt ==
  /\ disruptions < MaxDisruptions
  /\ disruptions' = disruptions + 1

\* An actor reads the trigger from its cache, which may lag: a disruption.
ReadTrigger == IF evSeen = ev THEN UNCHANGED disruptions ELSE Disrupt

(***************************************************************************)
(* When to fire.                                                           *)
(***************************************************************************)

\* mostRecentSchedule: the times that were due since the trigger last fired,
\* or within Lookback of now.
Scheduled(last, now) ==
  {d \in Due : /\ d > IF last > now - Lookback THEN last ELSE now - Lookback
               /\ d <= now}

CronDue(last, now) == Scheduled(last, now) # {}

\* Slip: a completion in the second of the last fire is a new one.
OutputDueAgain(last, flow) ==
  /\ flow.phase = onPhase
  /\ flow.completed = Never \/ flow.completed >= last

\* reconcilePipelineOutput: the watched flow is in the phase wanted and has
\* not been fired for.  A flow that runs has no completion time, so that a
\* trigger on "Running" is due as long as it runs; no flow is ever "Pending".
OutputDue(last, flow) ==
  /\ flow.phase = onPhase
  /\ flow.completed = Never \/ flow.completed > last

ShouldFire(last, now) ==
  CASE kind = "cron" -> CronDue(last, now)
    [] kind = "pipeline-output" -> OutputDue(last, seen.upstream)
    [] kind = "webhook" -> FALSE

\* schedule.Next and a second more, which RequeueAfter waits for: a set of at
\* most one time.
NextAlarm(now) ==
  {d + 1 : d \in {d \in Due : d > now /\ \A e \in Due : e > now => d <= e}}

(***************************************************************************)
(* fire, by the reconciler or by a request.                                *)
(***************************************************************************)
hasRunningFlow == seen.running

\* The status after a fire at time now, which may have been skipped.
Fired(st, now) == [st EXCEPT !.last = now, !.count = st.count + 1]

\* Actor a has decided to fire: it goes on to create flows, or skips them.
\* (A trigger on "Running" with Forbid counts fires without end, each of them
\* skipped: MaxFires bounds them.)
StartFire(a, e) ==
  LET skip == policy = "Forbid" /\ hasRunningFlow
  IN /\ e.st.count < MaxFires
     /\ act' = [act EXCEPT ![a] =
          [pc |-> IF skip THEN "save" ELSE "fire",
           ev |-> IF skip THEN [e EXCEPT !.st = Fired(e.st, clock)] ELSE e,
           now |-> clock, k |-> 1]]

\* Slip: the last target is forgotten.
LastTargetEarly(k) == k + 1 >= Len(Targets)

\* Slip: one target too many.
LastTargetLate(k) == k > Len(Targets)

LastTarget(k) == k = Len(Targets)

\* buildFlow and Create for the next target.
CreateFlow(a) ==
  LET me == act[a]
      name == <<Targets[me.k], clock>>
  IN /\ me.pc = "fire"
     /\ flows[name].phase = "absent"
     /\ flows' = [flows EXCEPT ![name] =
                    [NoFlow EXCEPT !.phase = "new", !.firedAt = me.now]]
     /\ act' = [act EXCEPT ![a] =
          IF LastTarget(me.k)
          THEN [me EXCEPT !.pc = "save", !.ev.st = Fired(me.ev.st, me.now)]
          ELSE [me EXCEPT !.k = me.k + 1]]
     /\ UNCHANGED <<spec, ev, evSeen, seen, secret, wake, alarm, clock,
                    disruptions, collided>>

\* Create fails: a flow of that name was created in the same second, or an
\* API error, with which the flow may have been created all the same.  The
\* reconciler is retried; the request answers 500.
CreateFails(a) ==
  LET me == act[a]
      name == <<Targets[me.k], clock>>
  IN /\ me.pc = "fire"
     /\ \/ /\ flows[name].phase # "absent"
           /\ UNCHANGED <<flows, disruptions>>
        \/ /\ flows[name].phase = "absent"
           /\ flows' \in {flows,
                          [flows EXCEPT ![name] =
                             [NoFlow EXCEPT !.phase = "new",
                                            !.firedAt = me.now]]}
           /\ Disrupt
     /\ act' = [act EXCEPT ![a] = IF a = Reconciler THEN Idle ELSE Done]
     /\ wake' = (wake \/ a = Reconciler)
     /\ collided' = (collided \/ flows[name].phase # "absent")
     /\ UNCHANGED <<spec, ev, evSeen, seen, secret, alarm, clock>>

(***************************************************************************)
(* The status update of a copy obj of the trigger.                         *)
(***************************************************************************)
Accepted(obj) == obj.rv = ev.rv

\* An update that changes nothing keeps the version.
Store(obj) ==
  ev' = IF obj.st = ev.st THEN ev
        ELSE [ev EXCEPT !.rv = ev.rv + 1, !.st = obj.st]

UpdateSucceeds(obj) ==
  /\ Accepted(obj)
  /\ Store(obj)
  /\ UNCHANGED disruptions

\* A conflict, or an API error, with which the status may have been stored.
UpdateFails(obj) ==
  \/ /\ ~Accepted(obj)
     /\ UNCHANGED <<ev, disruptions>>
  \/ /\ Disrupt
     /\ (Accepted(obj) /\ Store(obj)) \/ UNCHANGED ev

(***************************************************************************)
(* Reconcile.                                                              *)
(***************************************************************************)
Begin == act[Reconciler].pc = "idle" /\ wake

\* A suspended trigger: the condition is set, on the copy that was read.
ReportSuspended ==
  LET obj == [evSeen EXCEPT !.st.at = clock]
  IN /\ Begin
     /\ evSeen.suspended
     /\ \/ UpdateSucceeds(obj) /\ wake' = FALSE
        \/ UpdateFails(obj) /\ UNCHANGED wake
     /\ UNCHANGED <<spec, evSeen, flows, seen, secret, act, alarm, clock,
                    collided>>

\* An API error before anything has been done: the trigger is requeued.
ReconcileFails ==
  /\ Begin
  /\ Disrupt
  /\ UNCHANGED <<spec, ev, evSeen, flows, seen, secret, act, wake, alarm,
                 clock, collided>>

ReconcileFires ==
  /\ Begin
  /\ ~evSeen.suspended
  /\ ShouldFire(evSeen.st.last, clock)
  /\ StartFire(Reconciler, evSeen)
  /\ ReadTrigger
  /\ wake' = FALSE
  /\ UNCHANGED <<spec, ev, evSeen, flows, seen, secret, alarm, clock,
                 collided>>

\* Nothing to fire; a webhook trigger gets its Secret (ensureWebhookToken).
ReconcileWaits ==
  /\ Begin
  /\ ~evSeen.suspended
  /\ ~ShouldFire(evSeen.st.last, clock)
  /\ act' = [act EXCEPT ![Reconciler] =
               [pc |-> "save", ev |-> evSeen, now |-> clock, k |-> 1]]
  /\ secret' = (secret \/ kind = "webhook")
  /\ ReadTrigger
  /\ wake' = FALSE
  /\ UNCHANGED <<spec, ev, evSeen, flows, seen, alarm, clock, collided>>

\* Slip: the alarm is not set again.
SetNoAlarm(now) == UNCHANGED alarm

\* RequeueAfter, unless that time has come already.  The work queue keeps the
\* earlier of two alarms.
SetAlarm(now) ==
  IF kind = "cron" /\ \E t \in NextAlarm(now) :
                          t > clock /\ (alarm = Never \/ t < alarm)
  THEN alarm' \in NextAlarm(now)
  ELSE UNCHANGED alarm

\* The end of Reconcile.  The version is that of a trigger read again, the
\* status is the one computed from what was read at the beginning.
SaveStatus ==
  LET me == act[Reconciler]
      latest == [evSeen EXCEPT !.st = [me.ev.st EXCEPT !.at = me.now]]
  IN /\ me.pc = "save"
     /\ \/ UpdateSucceeds(latest) /\ SetAlarm(me.now) /\ UNCHANGED wake
        \/ UpdateFails(latest) /\ wake' = TRUE /\ UNCHANGED alarm
     /\ act' = [act EXCEPT ![Reconciler] = Idle]
     /\ UNCHANGED <<spec, evSeen, flows, seen, secret, clock, collided>>

(***************************************************************************)
(* ServeHTTP, for a request r with the right token.                        *)
(***************************************************************************)
Serve(r) ==
  /\ act[r].pc = "idle"
  /\ kind = "webhook"
  /\ secret
  /\ ~evSeen.suspended
  /\ StartFire(r, evSeen)
  /\ ReadTrigger
  /\ UNCHANGED <<spec, ev, evSeen, flows, seen, secret, wake, alarm, clock,
                 collided>>

\* The status update, whose error is only logged, and the answer.
SaveServed(r) ==
  LET obj == act[r].ev
  IN /\ act[r].pc = "save"
     /\ UpdateSucceeds(obj) \/ UpdateFails(obj)
     /\ act' = [act EXCEPT ![r] = Done]
     /\ UNCHANGED <<spec, evSeen, flows, seen, secret, wake, alarm, clock,
                    collided>>
-----------------------------------------------------------------------------
(***************************************************************************)
(* Watches, the work queue, and the rest of the cluster.                   *)
(***************************************************************************)
SyncEvent ==
  /\ evSeen # ev
  /\ evSeen' = ev
  /\ wake' = TRUE
  /\ UNCHANGED <<spec, ev, flows, seen, secret, act, alarm, clock,
                 disruptions, collided>>

\* Slip: a completed flow wakes nobody.
UpstreamWakesNobody == FALSE

\* flowToTriggers: the watched flow has ended.
UpstreamWakes ==
  /\ kind = "pipeline-output"
  /\ flows[Upstream] # seen.upstream
  /\ flows[Upstream].phase \in {"Succeeded", "Failed"}

\* The trigger owns the flows it dispatched, which wake it.
SyncFlows ==
  /\ seen # Visible
  /\ seen' = Visible
  /\ wake' = (wake \/ seen.running # seen'.running \/ UpstreamWakes)
  /\ UNCHANGED <<spec, ev, evSeen, flows, secret, act, alarm, clock,
                 disruptions, collided>>

RingAlarm ==
  /\ alarm # Never
  /\ alarm <= clock
  /\ alarm' = Never
  /\ wake' = TRUE
  /\ UNCHANGED <<spec, ev, evSeen, flows, seen, secret, act, clock,
                 disruptions, collided>>

\* The informer's periodic resync enqueues every trigger.
Resync ==
  /\ ~wake
  /\ wake' = TRUE
  /\ UNCHANGED <<spec, ev, evSeen, flows, seen, secret, act, alarm, clock,
                 disruptions, collided>>

\* The operator crashes, and every request with it.  It lists all objects
\* when it starts again.
CrashOperator ==
  /\ Disrupt
  /\ act' = [a \in Actor |->
               IF a = Reconciler \/ act[a].pc = "idle" THEN Idle ELSE Done]
  /\ evSeen' = ev
  /\ seen' = Visible
  /\ wake' = TRUE
  /\ alarm' = Never
  /\ UNCHANGED <<spec, ev, flows, secret, clock, collided>>

\* A user suspends or resumes the trigger.
ToggleSuspended ==
  /\ Disrupt
  /\ ev' = [ev EXCEPT !.rv = ev.rv + 1, !.suspended = ~ev.suspended]
  /\ UNCHANGED <<spec, evSeen, flows, seen, secret, act, wake, alarm, clock,
                 collided>>

\* Of the flows it dispatched the trigger reads only, and only with Forbid,
\* whether one is Running: the model follows those of the first target.
Followed ==
  {Upstream} \union
  {n \in Dispatched : policy = "Forbid" /\ n[1] = Targets[1]}

\* The ArkFlow reconciler takes a flow from one phase to the next.  To the
\* trigger that dispatched it a flow that failed is one that succeeded.
RunFlow(n) ==
  /\ n \in Followed
  /\ flows[n].phase \in {"new", "Running"}
  /\ \E phase \in CASE flows[n].phase = "new" -> {"Running"}
                    [] n = Upstream -> {"Succeeded", "Failed"}
                    [] OTHER -> {"Succeeded"} :
       flows' = [flows EXCEPT
                   ![n].phase = phase,
                   ![n].completed = IF n = Upstream /\ phase # "Running"
                                    THEN clock ELSE Never]
  /\ UNCHANGED <<spec, ev, evSeen, seen, secret, act, wake, alarm, clock,
                 disruptions, collided>>

\* A user creates the watched flow.
StartUpstream ==
  /\ kind = "pipeline-output"
  /\ flows[Upstream].phase = "absent"
  /\ flows' = [flows EXCEPT ![Upstream] = [NoFlow EXCEPT !.phase = "new"]]
  /\ UNCHANGED <<spec, ev, evSeen, seen, secret, act, wake, alarm, clock,
                 disruptions, collided>>

\* Firing takes at most MaxDelay seconds.
Tick ==
  /\ clock < MaxTime
  /\ \A a \in Actor :
       act[a].pc \in {"fire", "save"} => clock < act[a].now + MaxDelay
  /\ clock' = clock + 1
  /\ UNCHANGED <<spec, ev, evSeen, flows, seen, secret, act, wake, alarm,
                 disruptions, collided>>

Reconcile ==
  \/ ReportSuspended \/ ReconcileFails \/ ReconcileFires \/ ReconcileWaits
  \/ CreateFlow(Reconciler) \/ CreateFails(Reconciler)
  \/ SaveStatus

Respond(r) == Serve(r) \/ CreateFlow(r) \/ CreateFails(r) \/ SaveServed(r)

Next ==
  \/ Reconcile
  \/ \E r \in Request : Respond(r)
  \/ SyncEvent \/ SyncFlows \/ RingAlarm \/ Resync \/ CrashOperator
  \/ ToggleSuspended \/ StartUpstream \/ Tick
  \/ \E n \in FlowName : RunFlow(n)

(***************************************************************************)
(* The controller's worker and the requests it has begun go on, the        *)
(* informers catch up, the work queue's timers run and time passes.        *)
(***************************************************************************)
Fairness ==
  /\ WF_vars(Reconcile)
  /\ \A r \in Request :
       WF_vars(CreateFlow(r) \/ CreateFails(r) \/ SaveServed(r))
  /\ WF_vars(SyncEvent)
  /\ WF_vars(SyncFlows)
  /\ WF_vars(RingAlarm)
  /\ WF_vars(Tick)

Spec == Init /\ [][Next]_vars /\ Fairness
-----------------------------------------------------------------------------
Status == [last : Time \union {Never}, count : Nat, at : Time \union {Never}]

Event == [rv : Nat, suspended : BOOLEAN, st : Status]

\* The phase of a flow that was not reconciled yet is the empty string.
Phase == {"absent", "new", "Running", "Succeeded", "Failed"}

Flow == [phase : Phase, firedAt : Time \union {Never},
         completed : Time \union {Never}]

Local == [pc : {"idle", "fire", "save", "done"}, ev : Event,
          now : Time \union {Never}, k : DOMAIN Targets]

TypeOK ==
  /\ kind \in Kind
  /\ policy \in Policy
  /\ onPhase \in OnPhase
  /\ ev \in Event
  /\ evSeen \in Event
  /\ flows \in [FlowName -> Flow]
  /\ seen \in [running : BOOLEAN, upstream : Flow]
  /\ secret \in BOOLEAN
  /\ act \in [Actor -> Local]
  /\ wake \in BOOLEAN
  /\ alarm \in {Never} \union 1 .. MaxTime + 1
  /\ clock \in Time
  /\ disruptions \in 0 .. MaxDisruptions
  /\ collided \in BOOLEAN

\* The flows dispatched so far.
Runs == {n \in Dispatched : flows[n].phase # "absent"}

\* What the trigger is to fire for: the times of the schedule, or the
\* completion of the watched flow in the phase that is waited for.
Occasions ==
  IF kind = "cron" THEN Due
  ELSE {flows[n].completed : n \in {n \in {Upstream} :
          flows[n].phase = onPhase /\ flows[n].completed # Never}}

(***************************************************************************)
(* "LastFiredAt is when the trigger last dispatched pipelines": the status *)
(* never claims a fire that has not dispatched a flow for every target,    *)
(* whichever of the creations failed, and whoever wrote the status after   *)
(* whom (fire, Reconcile, ServeHTTP).  With Forbid a skipped fire is       *)
(* recorded like another.                                                  *)
(***************************************************************************)
FiredMeansDispatched ==
  policy = "Allow" /\ ev.st.last # Never =>
    \A k \in DOMAIN Targets :
      \E n \in Runs : n[1] = Targets[k] /\ flows[n].firedAt = ev.st.last

\* A trigger on the start of a flow.
OnStart == kind = "pipeline-output" /\ onPhase = "Running"

(***************************************************************************)
(* Without disruptions and names in use the trigger fires once per         *)
(* occasion: between two fires for the same target the schedule was due,   *)
(* or the watched flow completed, again (mostRecentSchedule, "Don't        *)
(* re-fire for the same completion").  This is so of a trigger on the end  *)
(* of a flow only.  While a flow runs there is no completion to compare    *)
(* with, and a trigger on "Running" fires in every reconciliation.         *)
(***************************************************************************)
OncePerOccasion ==
  disruptions = 0 /\ ~collided /\ kind # "webhook" /\ ~OnStart =>
    \A n, m \in Runs :
      n # m /\ n[1] = m[1] /\ flows[n].firedAt <= flows[m].firedAt =>
        \E o \in Occasions : flows[n].firedAt < o /\ o <= flows[m].firedAt

\* The occasions the trigger owes a fire now.
Owed ==
  CASE kind = "cron" -> {d \in Due : clock - Lookback < d /\ d <= clock}
    [] kind = "pipeline-output" -> Occasions
    [] kind = "webhook" -> {}

\* Nothing can be created any more under a name of its own: the bound of the
\* clock.
NamesRunOut == \E n \in Runs : n[2] = MaxTime

(***************************************************************************)
(* No occasion is missed: while the trigger is not suspended, a time that  *)
(* was due or a completion of the watched flow, as a success or a failure, *)
(* is fired for, or skipped by Forbid, in the end, without a periodic      *)
(* resync (RequeueAfter, flowToTriggers).  The start of a flow is no such  *)
(* occasion: flowToTriggers passes on the two terminal phases only, and a  *)
(* trigger on "Running" may never look while the flow runs.                *)
(***************************************************************************)
NothingMissed ==
  \A o \in Time :
    []<>(\/ o \notin Owed
         \/ ev.suspended
         \/ ev.st.last >= o
         \/ NamesRunOut
         \/ ev.st.count >= MaxFires)

(***************************************************************************)
(* "FiredCount is the total number of times this trigger has fired": it    *)
(* never goes back.                                                        *)
(***************************************************************************)
CountKept == [][ev'.st.count >= ev.st.count]_vars
=============================================================================
