--------------------------- MODULE ArkEventProofs ---------------------------
(***************************************************************************)
(* Theorems about a trigger, for any schedule, any targets, any number of  *)
(* requests and any disruptions: its types; that a fire is recorded only   *)
(* when every target has been dispatched; and, without disruptions and not *)
(* on the start of a flow, that two fires are for two occasions.           *)
(***************************************************************************)
EXTENDS ArkEvent, TLAPS

(***************************************************************************)
(* Types of the constants and of what actors start with.                   *)
(***************************************************************************)
LEMMA ConstantTypes ==
  /\ InitialStatus \in Status
  /\ NewEvent \in Event
  /\ NoFlow \in Flow
  /\ Idle \in Local
  /\ Done \in Local
  /\ Upstream \in FlowName
  /\ Reconciler \in Actor
<1>1. InitialStatus \in Status
  BY DEF InitialStatus, Status
<1>2. NewEvent \in Event
  BY <1>1 DEF NewEvent, Event
<1>3. NoFlow \in Flow
  BY DEF NoFlow, Flow, Phase
<1>4. 1 \in DOMAIN Targets
  BY EventAssumption
<1>5. Idle \in Local
  BY <1>2, <1>4 DEF Idle, Local
<1>6. Done \in Local
  BY <1>5 DEF Done, Local
<1> QED
  BY <1>1, <1>2, <1>3, <1>5, <1>6 DEF FlowName, Reconciler, Actor

(***************************************************************************)
(* What is read of well-typed flows is well typed.                         *)
(***************************************************************************)
LEMMA VisibleType ==
  ASSUME flows \in [FlowName -> Flow]
  PROVE  Visible \in [running : BOOLEAN, upstream : Flow]
BY ConstantTypes DEF Visible

(***************************************************************************)
(* A disruption is counted, up to the bound.                               *)
(***************************************************************************)
LEMMA DisruptType ==
  ASSUME TypeOK, Disrupt
  PROVE  disruptions' \in 0 .. MaxDisruptions
BY EventAssumption DEF TypeOK, Disrupt

(***************************************************************************)
(* A lagging read is counted as a disruption.                              *)
(***************************************************************************)
LEMMA ReadTriggerType ==
  ASSUME TypeOK, ReadTrigger
  PROVE  disruptions' \in 0 .. MaxDisruptions
BY DisruptType DEF ReadTrigger, TypeOK

(***************************************************************************)
(* A status that records a fire is well typed, and says when.              *)
(***************************************************************************)
LEMMA FiredType ==
  ASSUME NEW st \in Status, NEW now \in Time \union {Never}
  PROVE  Fired(st, now) \in Status /\ Fired(st, now).last = now
<1> DEFINE a == [st EXCEPT !.last = now]
<1>1. a \in Status /\ a.last = now
  BY DEF Status
<1>2. st.count + 1 \in Nat
  BY DEF Status
<1>3. ASSUME NEW x \in Status
      PROVE  /\ [x EXCEPT !.count = st.count + 1] \in Status
             /\ [x EXCEPT !.count = st.count + 1].last = x.last
  BY <1>2 DEF Status
<1>4. Fired(st, now) = [a EXCEPT !.count = st.count + 1]
  BY DEF Fired
<1> QED
  BY <1>1, <1>3, <1>4

(***************************************************************************)
(* An event with another well-typed status is well typed.                  *)
(***************************************************************************)
LEMMA EventWithStatus ==
  ASSUME NEW e \in Event, NEW st \in Status
  PROVE  /\ [e EXCEPT !.st = st] \in Event
         /\ [e EXCEPT !.st = st].st = st
BY DEF Event

(***************************************************************************)
(* A condition that is set changes nothing but its time.                   *)
(***************************************************************************)
LEMMA ConditionType ==
  ASSUME NEW st \in Status, NEW now \in Time \union {Never}
  PROVE  /\ [st EXCEPT !.at = now] \in Status
         /\ [st EXCEPT !.at = now].last = st.last
BY DEF Status

(***************************************************************************)
(* Whatever becomes of a status update, the trigger on the API server      *)
(* keeps its status or takes that of the copy.                             *)
(***************************************************************************)
LEMMA UpdateType ==
  ASSUME TypeOK, NEW obj \in Event,
         UpdateSucceeds(obj) \/ UpdateFails(obj)
  PROVE  /\ ev' \in Event
         /\ ev'.st \in {ev.st, obj.st}
         /\ disruptions' \in 0 .. MaxDisruptions
<1>1. ASSUME Store(obj)
      PROVE  ev' \in Event /\ ev'.st \in {ev.st, obj.st}
  <2>1. CASE obj.st = ev.st
    BY <1>1, <2>1 DEF Store, TypeOK
  <2>2. CASE obj.st # ev.st
    <3>1. ev' = [ev EXCEPT !.rv = ev.rv + 1, !.st = obj.st]
      BY <1>1, <2>2 DEF Store
    <3> DEFINE a == [ev EXCEPT !.rv = ev.rv + 1]
    <3>2. a \in Event
      BY DEF TypeOK, Event
    <3>3. obj.st \in Status
      BY DEF Event
    <3>4. ev' = [a EXCEPT !.st = obj.st]
      BY <3>1
    <3> QED
      BY <3>2, <3>3, <3>4, EventWithStatus
  <2> QED
    BY <2>1, <2>2
<1>2. ev' \in Event /\ ev'.st \in {ev.st, obj.st}
  BY <1>1 DEF UpdateSucceeds, UpdateFails, TypeOK
<1>3. disruptions' \in 0 .. MaxDisruptions
  BY DisruptType DEF UpdateSucceeds, UpdateFails, TypeOK
<1> QED
  BY <1>2, <1>3

(***************************************************************************)
(* An actor that begins to fire, or skips, is in a well-typed state.       *)
(***************************************************************************)
LEMMA StartFireType ==
  ASSUME TypeOK, NEW a \in Actor, StartFire(a, evSeen)
  PROVE  act' \in [Actor -> Local]
<1> DEFINE skip == policy = "Forbid" /\ hasRunningFlow
           e == IF skip THEN [evSeen EXCEPT !.st = Fired(evSeen.st, clock)]
                ELSE evSeen
           l == [pc |-> IF skip THEN "save" ELSE "fire",
                 ev |-> e, now |-> clock, k |-> 1]
<1>1. evSeen.st \in Status
  BY DEF TypeOK, Event
<1>2. e \in Event
  BY <1>1, FiredType, EventWithStatus DEF TypeOK
<1>3. 1 \in DOMAIN Targets
  BY EventAssumption
<1> HIDE DEF e
<1>4. l \in Local
  BY <1>2, <1>3 DEF TypeOK, Local
<1> HIDE DEF l
<1>5. act' = [act EXCEPT ![a] = l]
  BY DEF StartFire, l, e
<1> QED
  BY <1>4, <1>5 DEF TypeOK

(***************************************************************************)
(* The types are kept by the creation of a flow, whether it succeeds or    *)
(* fails.                                                                  *)
(***************************************************************************)
LEMMA CreateType ==
  ASSUME TypeOK, NEW a \in Actor, CreateFlow(a) \/ CreateFails(a)
  PROVE  TypeOK'
<1> DEFINE me == act[a]
           name == <<Targets[me.k], clock>>
           new == [NoFlow EXCEPT !.phase = "new", !.firedAt = me.now]
           more == [flows EXCEPT ![name] = new]
<1>1. me \in Local
  BY DEF TypeOK
<1>2. /\ me.ev \in Event
      /\ me.now \in Time \union {Never}
      /\ me.k \in DOMAIN Targets
  BY <1>1 DEF Local
<1>3. name \in FlowName
  BY <1>2 DEF FlowName, Dispatched, TypeOK
<1>4. new \in Flow
  BY <1>2, ConstantTypes DEF Flow, Phase
<1>5. more \in [FlowName -> Flow]
  BY <1>3, <1>4 DEF TypeOK
<1>6. CASE CreateFlow(a)
  <2> DEFINE e == [me.ev EXCEPT !.st = Fired(me.ev.st, me.now)]
  <2>1. flows' = more
    BY <1>6 DEF CreateFlow
  <2>2. act' \in [Actor -> Local]
    <3>1. CASE LastTarget(me.k)
      <4>1. act' = [act EXCEPT ![a] =
              [me EXCEPT !.pc = "save", !.ev.st = Fired(me.ev.st, me.now)]]
        BY <1>6, <3>1 DEF CreateFlow
      <4>2. Fired(me.ev.st, me.now) \in Status
        BY <1>2, FiredType DEF Event
      <4>3. [me EXCEPT !.pc = "save", !.ev.st = Fired(me.ev.st, me.now)]
              \in Local
        BY <1>1, <4>2 DEF Local, Event
      <4> QED
        BY <4>1, <4>3 DEF TypeOK
    <3>2. CASE ~LastTarget(me.k)
      <4>1. act' = [act EXCEPT ![a] = [me EXCEPT !.k = me.k + 1]]
        BY <1>6, <3>2 DEF CreateFlow
      <4>2. me.k + 1 \in DOMAIN Targets
        BY <1>2, <3>2, EventAssumption DEF LastTarget
      <4>3. [me EXCEPT !.k = me.k + 1] \in Local
        BY <1>1, <4>2 DEF Local
      <4> QED
        BY <4>1, <4>3 DEF TypeOK
    <3> QED
      BY <3>1, <3>2
  <2>3. UNCHANGED <<spec, ev, evSeen, seen, secret, wake, alarm, clock,
                    disruptions, collided>>
    BY <1>6 DEF CreateFlow
  <2> QED
    BY <1>5, <2>1, <2>2, <2>3 DEF TypeOK, spec
<1>7. CASE CreateFails(a)
  <2>1. flows' \in {flows, more}
    BY <1>7 DEF CreateFails
  <2>2. disruptions' \in 0 .. MaxDisruptions
    BY <1>7, DisruptType DEF CreateFails, TypeOK
  <2>3. act' \in [Actor -> Local]
    BY <1>7, ConstantTypes DEF CreateFails, TypeOK
  <2>4. UNCHANGED <<spec, ev, evSeen, seen, secret, alarm, clock>>
    BY <1>7 DEF CreateFails, spec
  <2>5. wake' \in BOOLEAN /\ collided' \in BOOLEAN
    BY <1>7 DEF CreateFails, TypeOK
  <2> QED
    BY <1>5, <2>1, <2>2, <2>3, <2>4, <2>5 DEF TypeOK, spec
<1> QED
  BY <1>6, <1>7

(***************************************************************************)
(* The types are kept by the reconciler.                                   *)
(***************************************************************************)
LEMMA ReconcileType ==
  ASSUME TypeOK, Reconcile
  PROVE  TypeOK'
<1> DEFINE r == act[Reconciler]
<1>1. Reconciler \in Actor /\ Idle \in Local
  BY ConstantTypes
<1>2. r \in Local
  BY <1>1 DEF TypeOK
<1>3. r.ev \in Event /\ r.now \in Time \union {Never}
  BY <1>2 DEF Local
<1>4. evSeen \in Event /\ evSeen.st \in Status /\ clock \in Time
  BY DEF TypeOK, Event
<1>5. CASE ReportSuspended
  <2> DEFINE obj == [evSeen EXCEPT !.st.at = clock]
  <2>1. obj \in Event
    BY <1>4 DEF Event, Status
  <2> HIDE DEF obj
  <2>2. UpdateSucceeds(obj) \/ UpdateFails(obj)
    BY <1>5 DEF ReportSuspended, obj
  <2>3. ev' \in Event /\ disruptions' \in 0 .. MaxDisruptions
    BY <2>1, <2>2, UpdateType
  <2>4. wake' \in BOOLEAN
    BY <1>5 DEF ReportSuspended, TypeOK
  <2>5. UNCHANGED <<spec, evSeen, flows, seen, secret, act, alarm,
                    clock, collided>>
    BY <1>5 DEF ReportSuspended, spec
  <2> QED
    BY <2>3, <2>4, <2>5 DEF TypeOK, spec
<1>6. CASE ReconcileFails
  BY <1>6, DisruptType DEF ReconcileFails, TypeOK, spec
<1>7. CASE ReconcileFires
  <2>1. act' \in [Actor -> Local]
    BY <1>1, <1>7, StartFireType DEF ReconcileFires
  <2>2. disruptions' \in 0 .. MaxDisruptions
    BY <1>7, ReadTriggerType DEF ReconcileFires
  <2>3. wake' \in BOOLEAN
    BY <1>7 DEF ReconcileFires
  <2>4. UNCHANGED <<spec, ev, evSeen, flows, seen, secret, alarm,
                    clock, collided>>
    BY <1>7 DEF ReconcileFires, spec
  <2> QED
    BY <2>1, <2>2, <2>3, <2>4 DEF TypeOK, spec
<1>8. CASE ReconcileWaits
  <2>1. 1 \in DOMAIN Targets
    BY EventAssumption
  <2>2. [pc |-> "save", ev |-> evSeen, now |-> clock, k |-> 1] \in Local
    BY <1>4, <2>1 DEF Local
  <2>3. act' \in [Actor -> Local]
    BY <1>8, <2>2 DEF ReconcileWaits, TypeOK
  <2>4. disruptions' \in 0 .. MaxDisruptions
    BY <1>8, ReadTriggerType DEF ReconcileWaits
  <2>5. wake' \in BOOLEAN /\ secret' \in BOOLEAN
    BY <1>8 DEF ReconcileWaits, TypeOK
  <2>6. UNCHANGED <<spec, ev, evSeen, flows, seen, alarm, clock,
                    collided>>
    BY <1>8 DEF ReconcileWaits, spec
  <2> QED
    BY <2>3, <2>4, <2>5, <2>6 DEF TypeOK, spec
<1>9. CASE CreateFlow(Reconciler) \/ CreateFails(Reconciler)
  BY <1>1, <1>9, CreateType
<1>10. CASE SaveStatus
  <2> DEFINE latest == [evSeen EXCEPT !.st = [r.ev.st EXCEPT !.at = r.now]]
  <2>1. [r.ev.st EXCEPT !.at = r.now] \in Status
    BY <1>3, ConditionType DEF Event
  <2>2. latest \in Event
    BY <1>4, <2>1, EventWithStatus
  <2> HIDE DEF latest
  <2>3. UpdateSucceeds(latest) \/ UpdateFails(latest)
    BY <1>10 DEF SaveStatus, latest
  <2>4. ev' \in Event /\ disruptions' \in 0 .. MaxDisruptions
    BY <2>2, <2>3, UpdateType
  <2>5. NextAlarm(r.now) \subseteq 1 .. MaxTime + 1
    BY EventAssumption DEF NextAlarm, Time
  <2>6. alarm' \in NextAlarm(r.now) \union {alarm}
    BY <1>10 DEF SaveStatus, SetAlarm
  <2>7. alarm' \in {Never} \union 1 .. MaxTime + 1
    BY <2>5, <2>6 DEF TypeOK
  <2>8. act' \in [Actor -> Local]
    BY <1>1, <1>10 DEF SaveStatus, TypeOK
  <2>9. wake' \in BOOLEAN
    BY <1>10 DEF SaveStatus, TypeOK
  <2>10. UNCHANGED <<spec, evSeen, flows, seen, secret, clock,
                     collided>>
    BY <1>10 DEF SaveStatus, spec
  <2> QED
    BY <2>4, <2>7, <2>8, <2>9, <2>10 DEF TypeOK, spec
<1> QED
  BY <1>5, <1>6, <1>7, <1>8, <1>9, <1>10 DEF Reconcile

(***************************************************************************)
(* The types are kept by a request.                                        *)
(***************************************************************************)
LEMMA RespondType ==
  ASSUME TypeOK, NEW r \in Request, Respond(r)
  PROVE  TypeOK'
<1>1. r \in Actor /\ Done \in Local
  BY ConstantTypes DEF Actor
<1>2. CASE Serve(r)
  <2>1. act' \in [Actor -> Local]
    BY <1>1, <1>2, StartFireType DEF Serve
  <2>2. disruptions' \in 0 .. MaxDisruptions
    BY <1>2, ReadTriggerType DEF Serve
  <2>3. UNCHANGED <<spec, ev, evSeen, flows, seen, secret, wake, alarm,
                    clock, collided>>
    BY <1>2 DEF Serve, spec
  <2> QED
    BY <2>1, <2>2, <2>3 DEF TypeOK, spec
<1>3. CASE CreateFlow(r) \/ CreateFails(r)
  BY <1>1, <1>3, CreateType
<1>4. CASE SaveServed(r)
  <2>1. act[r].ev \in Event
    BY <1>1 DEF TypeOK, Local
  <2>2. ev' \in Event /\ disruptions' \in 0 .. MaxDisruptions
    BY <1>4, <2>1, UpdateType DEF SaveServed
  <2>3. act' \in [Actor -> Local]
    BY <1>1, <1>4 DEF SaveServed, TypeOK
  <2>4. UNCHANGED <<spec, evSeen, flows, seen, secret, wake, alarm,
                    clock, collided>>
    BY <1>4 DEF SaveServed, spec
  <2> QED
    BY <2>2, <2>3, <2>4 DEF TypeOK, spec
<1> QED
  BY <1>2, <1>3, <1>4 DEF Respond

(***************************************************************************)
(* Every state a trigger can reach is well typed, whatever its schedule,   *)
(* targets and requests.                                                   *)
(***************************************************************************)
THEOREM EventTypes == Spec => []TypeOK
<1>1. Init => TypeOK
  <2> SUFFICES ASSUME Init PROVE TypeOK
    OBVIOUS
  <2>1. flows \in [FlowName -> Flow]
    BY ConstantTypes DEF Init
  <2>2. seen \in [running : BOOLEAN, upstream : Flow]
    BY <2>1, VisibleType DEF Init
  <2>3. clock \in Time /\ disruptions \in 0 .. MaxDisruptions
    BY EventAssumption DEF Init, Time
  <2>4. kind \in Kind /\ policy \in Policy /\ onPhase \in OnPhase
    <3>1. PICK t \in Triggers :
            kind = t.kind /\ policy = t.policy /\ onPhase = t.onPhase
      BY DEF Init
    <3>2. t \in [kind : Kind, policy : Policy, onPhase : OnPhase]
      BY EventAssumption
    <3> QED
      BY <3>1, <3>2
  <2> QED
    BY <2>1, <2>2, <2>3, <2>4, ConstantTypes DEF Init, TypeOK
<1>2. TypeOK /\ [Next]_vars => TypeOK'
  <2> SUFFICES ASSUME TypeOK, [Next]_vars PROVE TypeOK'
    OBVIOUS
  <2>1. CASE Reconcile
    BY <2>1, ReconcileType
  <2>2. ASSUME NEW r \in Request, Respond(r) PROVE TypeOK'
    BY <2>2, RespondType
  <2>3. CASE SyncEvent
    BY <2>3 DEF SyncEvent, TypeOK, spec
  <2>4. CASE SyncFlows
    <3>1. seen' \in [running : BOOLEAN, upstream : Flow]
      BY <2>4, VisibleType DEF SyncFlows, TypeOK
    <3>2. wake' \in BOOLEAN
      BY <2>4 DEF SyncFlows, TypeOK, UpstreamWakes
    <3> QED
      BY <2>4, <3>1, <3>2 DEF SyncFlows, TypeOK, spec
  <2>5. CASE RingAlarm
    BY <2>5 DEF RingAlarm, TypeOK, spec
  <2>6. CASE Resync
    BY <2>6 DEF Resync, TypeOK, spec
  <2>7. CASE CrashOperator
    <3>1. seen' \in [running : BOOLEAN, upstream : Flow]
      BY <2>7, VisibleType DEF CrashOperator, TypeOK
    <3>2. act' \in [Actor -> Local]
      BY <2>7, ConstantTypes DEF CrashOperator
    <3>3. disruptions' \in 0 .. MaxDisruptions
      BY <2>7, DisruptType DEF CrashOperator
    <3> QED
      BY <2>7, <3>1, <3>2, <3>3 DEF CrashOperator, TypeOK, spec
  <2>8. CASE ToggleSuspended
    <3>1. ev' \in Event
      <4> DEFINE a == [ev EXCEPT !.rv = ev.rv + 1]
      <4>1. a \in Event /\ (~ev.suspended) \in BOOLEAN
        BY DEF TypeOK, Event
      <4>2. ASSUME NEW e \in Event, NEW b \in BOOLEAN
            PROVE  [e EXCEPT !.suspended = b] \in Event
        BY DEF Event
      <4>3. ev' = [a EXCEPT !.suspended = ~ev.suspended]
        BY <2>8 DEF ToggleSuspended
      <4> QED
        BY <4>1, <4>2, <4>3
    <3>2. disruptions' \in 0 .. MaxDisruptions
      BY <2>8, DisruptType DEF ToggleSuspended
    <3> QED
      BY <2>8, <3>1, <3>2 DEF ToggleSuspended, TypeOK, spec
  <2>9. CASE StartUpstream
    <3>1. flows' \in [FlowName -> Flow]
      BY <2>9, ConstantTypes DEF StartUpstream, TypeOK, Flow, Phase
    <3> QED
      BY <2>9, <3>1 DEF StartUpstream, TypeOK, spec
  <2>10. CASE Tick
    <3>1. clock' \in Time
      BY <2>10, EventAssumption DEF Tick, TypeOK, Time
    <3> QED
      BY <2>10, <3>1 DEF Tick, TypeOK, spec
  <2>11. ASSUME NEW n \in FlowName, RunFlow(n) PROVE TypeOK'
    <3>1. PICK phase \in Phase :
            flows' = [flows EXCEPT
                        ![n].phase = phase,
                        ![n].completed = IF n = Upstream /\ phase # "Running"
                                         THEN clock ELSE Never]
      BY <2>11 DEF RunFlow, Phase
    <3>2. flows' \in [FlowName -> Flow]
      <4> DEFINE c == IF n = Upstream /\ phase # "Running"
                      THEN clock ELSE Never
                 a == [flows EXCEPT ![n].phase = phase]
      <4>1. c \in Time \union {Never}
        BY DEF TypeOK
      <4> HIDE DEF c
      <4>2. a \in [FlowName -> Flow]
        BY DEF TypeOK, Flow
      <4>3. [a EXCEPT ![n].completed = c] \in [FlowName -> Flow]
        BY <4>1, <4>2 DEF Flow
      <4> QED
        BY <3>1, <4>3 DEF c
    <3> QED
      BY <2>11, <3>2 DEF RunFlow, TypeOK, spec
  <2>12. CASE UNCHANGED vars
    BY <2>12 DEF vars, spec, TypeOK
  <2> QED
    BY <2>1, <2>2, <2>3, <2>4, <2>5, <2>6, <2>7, <2>8, <2>9, <2>10, <2>11,
       <2>12 DEF Next
<1> QED
  BY <1>1, <1>2, PTL DEF Spec
-----------------------------------------------------------------------------
\* The targets that have been dispatched, with the times of the fires.
Sent ==
  {p \in (DOMAIN Targets) \X Time :
     \E n \in Runs : n[1] = Targets[p[1]] /\ flows[n].firedAt = p[2]}

\* The times a status may give: every target was dispatched by that fire.
FiredTimes ==
  {Never} \union {t \in Time : \A k \in DOMAIN Targets : <<k, t>> \in Sent}

\* An actor is at a time, and has dispatched the targets it has gone past.
Progress(a) ==
  act[a].pc = "fire" =>
    /\ act[a].now \in Time
    /\ \A k \in DOMAIN Targets :
         k < act[a].k => <<k, act[a].now>> \in Sent

(***************************************************************************)
(* No copy of the trigger claims a fire that has not dispatched every      *)
(* target, or an actor could write it back: the inductive invariant.       *)
(***************************************************************************)
CopiesHonest ==
  policy = "Allow" =>
    /\ ev.st.last \in FiredTimes
    /\ evSeen.st.last \in FiredTimes
    /\ \A a \in Actor : act[a].ev.st.last \in FiredTimes /\ Progress(a)

(***************************************************************************)
(* A dispatched flow is never deleted, nor is its time of firing changed.  *)
(***************************************************************************)
LEMMA FlowsStay ==
  ASSUME TypeOK, [Next]_vars
  PROVE  \A n \in Runs : n \in Runs' /\ flows'[n].firedAt = flows[n].firedAt
<1> SUFFICES ASSUME NEW n \in Runs
             PROVE  n \in Runs' /\ flows'[n].firedAt = flows[n].firedAt
  OBVIOUS
<1>1. n \in FlowName /\ n \in Dispatched /\ flows[n].phase # "absent"
  BY DEF Runs, FlowName
<1>2. SUFFICES /\ flows'[n].phase # "absent"
               /\ flows'[n].firedAt = flows[n].firedAt
  BY <1>1 DEF Runs
<1>3. CASE UNCHANGED flows
  BY <1>1, <1>3
<1>4. ASSUME NEW a \in Actor, CreateFlow(a) \/ CreateFails(a)
      PROVE  /\ flows'[n].phase # "absent"
             /\ flows'[n].firedAt = flows[n].firedAt
  <2> DEFINE name == <<Targets[act[a].k], clock>>
  <2>1. \/ flows' = flows
        \/ /\ flows[name].phase = "absent"
           /\ flows' = [flows EXCEPT ![name] =
                [NoFlow EXCEPT !.phase = "new", !.firedAt = act[a].now]]
    BY <1>4 DEF CreateFlow, CreateFails
  <2> QED
    BY <1>1, <2>1 DEF TypeOK
<1>5. ASSUME NEW m \in FlowName, RunFlow(m)
      PROVE  /\ flows'[n].phase # "absent"
             /\ flows'[n].firedAt = flows[n].firedAt
  <2>1. PICK phase \in Phase \ {"absent"} :
          flows' = [flows EXCEPT
                      ![m].phase = phase,
                      ![m].completed = IF m = Upstream /\ phase # "Running"
                                       THEN clock ELSE Never]
    BY <1>5 DEF RunFlow, Phase
  <2>2. CASE m = n
    BY <1>1, <2>1, <2>2 DEF TypeOK, Flow
  <2>3. CASE m # n
    BY <1>1, <2>1, <2>3 DEF TypeOK, Flow
  <2> QED
    BY <2>2, <2>3
<1>6. CASE StartUpstream
  BY <1>1, <1>6 DEF StartUpstream, TypeOK
<1>7. CASE Reconcile
  <2>1. CASE CreateFlow(Reconciler) \/ CreateFails(Reconciler)
    BY <1>4, <2>1, ConstantTypes
  <2>2. CASE ~(CreateFlow(Reconciler) \/ CreateFails(Reconciler))
    <3>1. UNCHANGED flows
      BY <1>7, <2>2 DEF Reconcile, ReportSuspended, ReconcileFails,
           ReconcileFires, ReconcileWaits, SaveStatus
    <3> QED
      BY <1>3, <3>1
  <2> QED
    BY <2>1, <2>2
<1>8. ASSUME NEW r \in Request, Respond(r)
      PROVE  /\ flows'[n].phase # "absent"
             /\ flows'[n].firedAt = flows[n].firedAt
  <2>1. CASE CreateFlow(r) \/ CreateFails(r)
    BY <1>4, <2>1 DEF Actor
  <2>2. CASE Serve(r) \/ SaveServed(r)
    BY <1>3, <2>2 DEF Serve, SaveServed
  <2> QED
    BY <1>8, <2>1, <2>2 DEF Respond
<1>9. CASE \/ SyncEvent \/ SyncFlows \/ RingAlarm \/ Resync \/ CrashOperator
           \/ ToggleSuspended \/ Tick
  <2>1. UNCHANGED flows
    BY <1>9 DEF SyncEvent, SyncFlows, RingAlarm, Resync, CrashOperator,
         ToggleSuspended, Tick
  <2> QED
    BY <1>3, <2>1
<1>10. CASE UNCHANGED vars
  BY <1>3, <1>10 DEF vars
<1> QED
  BY <1>5, <1>6, <1>7, <1>8, <1>9, <1>10 DEF Next

(***************************************************************************)
(* So what has been dispatched stays dispatched.                           *)
(***************************************************************************)
LEMMA SentStays ==
  ASSUME TypeOK, [Next]_vars
  PROVE  Sent \subseteq Sent' /\ FiredTimes \subseteq FiredTimes'
<1>1. Sent \subseteq Sent'
  BY FlowsStay DEF Sent
<1> QED
  BY <1>1 DEF FiredTimes

(***************************************************************************)
(* The creation of a flow dispatches the target the actor is at.           *)
(***************************************************************************)
LEMMA CreatedSent ==
  ASSUME TypeOK, NEW a \in Actor, CreateFlow(a), act[a].now \in Time
  PROVE  <<act[a].k, act[a].now>> \in Sent'
<1> DEFINE name == <<Targets[act[a].k], clock>>
<1>1. act[a].k \in DOMAIN Targets
  BY DEF TypeOK, Local
<1>2. name \in Dispatched /\ name \in FlowName /\ name[1] = Targets[act[a].k]
  BY <1>1 DEF Dispatched, FlowName, TypeOK
<1>3. flows' = [flows EXCEPT ![name] =
                  [NoFlow EXCEPT !.phase = "new", !.firedAt = act[a].now]]
  BY DEF CreateFlow
<1>4. flows'[name] = [NoFlow EXCEPT !.phase = "new", !.firedAt = act[a].now]
  BY <1>2, <1>3 DEF TypeOK
<1>5. flows'[name].phase = "new" /\ flows'[name].firedAt = act[a].now
  BY <1>4 DEF NoFlow
<1>6. name \in Runs'
  BY <1>2, <1>5 DEF Runs
<1> QED
  BY <1>1, <1>2, <1>5, <1>6 DEF Sent

(***************************************************************************)
(* The concurrency policy does not change.                                 *)
(***************************************************************************)
LEMMA PolicyStays ==
  ASSUME [Next]_vars
  PROVE  policy' = policy
BY DEF Next, Reconcile, Respond, ReportSuspended, ReconcileFails,
     ReconcileFires, ReconcileWaits, CreateFlow, CreateFails, SaveStatus,
     Serve, SaveServed, SyncEvent, SyncFlows, RingAlarm, Resync,
     CrashOperator, ToggleSuspended, StartUpstream, Tick, RunFlow, vars, spec

\* Actor a is as CopiesHonest wants it.
ActorHonest(a) == act[a].ev.st.last \in FiredTimes /\ Progress(a)

(***************************************************************************)
(* An actor whose state is not changed is still honest.                    *)
(***************************************************************************)
LEMMA ActorKept ==
  ASSUME TypeOK, [Next]_vars, NEW a \in Actor, ActorHonest(a),
         act'[a] = act[a]
  PROVE  ActorHonest(a)'
BY SentStays DEF ActorHonest, Progress

(***************************************************************************)
(* An actor that ends, or crashes, holds no copy of the trigger.           *)
(***************************************************************************)
LEMMA ActorEnds ==
  ASSUME NEW a \in Actor, act'[a] \in {Idle, Done}
  PROVE  ActorHonest(a)'
<1>1. /\ act'[a].pc \in {"idle", "done"}
      /\ act'[a].ev.st.last = Never
  BY DEF Idle, Done, NewEvent, InitialStatus
<1> QED
  BY <1>1 DEF ActorHonest, Progress, FiredTimes

(***************************************************************************)
(* With Allow, an actor that begins to fire has an honest copy and is past *)
(* no target.                                                              *)
(***************************************************************************)
LEMMA ActorStarts ==
  ASSUME TypeOK, [Next]_vars, policy = "Allow",
         evSeen.st.last \in FiredTimes,
         NEW a \in Actor, StartFire(a, evSeen)
  PROVE  /\ ActorHonest(a)'
         /\ \A b \in Actor \ {a} : act'[b] = act[b]
<1>1. act' = [act EXCEPT ![a] =
                [pc |-> "fire", ev |-> evSeen, now |-> clock, k |-> 1]]
  BY DEF StartFire
<1>2. act'[a] = [pc |-> "fire", ev |-> evSeen, now |-> clock, k |-> 1]
  BY <1>1 DEF TypeOK
<1>3. \A k \in DOMAIN Targets : ~(k < 1)
  BY EventAssumption
<1>4. Progress(a)'
  BY <1>2, <1>3 DEF Progress, TypeOK
<1>5. act'[a].ev.st.last \in FiredTimes'
  BY <1>2, SentStays
<1> QED
  BY <1>1, <1>4, <1>5 DEF ActorHonest, TypeOK

(***************************************************************************)
(* An actor that has created a flow is past one target more, and records   *)
(* the fire only after the last.                                           *)
(***************************************************************************)
LEMMA ActorCreates ==
  ASSUME TypeOK, [Next]_vars, NEW a \in Actor, ActorHonest(a),
         CreateFlow(a)
  PROVE  /\ ActorHonest(a)'
         /\ \A b \in Actor \ {a} : act'[b] = act[b]
<1> DEFINE me == act[a]
<1>1. me \in Local /\ me.pc = "fire" /\ me.now \in Time
  BY DEF TypeOK, CreateFlow, ActorHonest, Progress
<1>2. me.k \in DOMAIN Targets /\ me.ev \in Event /\ me.ev.st \in Status
  BY <1>1 DEF Local, Event
<1>3. \A k \in DOMAIN Targets : k <= me.k => <<k, me.now>> \in Sent'
  <2> SUFFICES ASSUME NEW k \in DOMAIN Targets, k <= me.k
               PROVE  <<k, me.now>> \in Sent'
    OBVIOUS
  <2>1. CASE k < me.k
    BY <1>1, <2>1, SentStays DEF ActorHonest, Progress
  <2>2. CASE k = me.k
    BY <1>1, <2>2, CreatedSent
  <2> QED
    BY <1>2, <2>1, <2>2, EventAssumption
<1>4. CASE LastTarget(me.k)
  <2> DEFINE st == Fired(me.ev.st, me.now)
  <2>1. act' = [act EXCEPT ![a] = [me EXCEPT !.pc = "save", !.ev.st = st]]
    BY <1>4 DEF CreateFlow
  <2>2. st.last = me.now
    BY <1>1, <1>2, FiredType
  <2> HIDE DEF st
  <2>3. act'[a] = [me EXCEPT !.pc = "save", !.ev.st = st]
    BY <2>1 DEF TypeOK
  <2>4. act'[a].pc = "save" /\ act'[a].ev.st = st
    BY <1>1, <1>2, <2>3 DEF Local, Event
  <2>5. \A k \in DOMAIN Targets : k <= me.k
    BY <1>4, EventAssumption DEF LastTarget
  <2>6. me.now \in FiredTimes'
    BY <1>1, <1>3, <2>5 DEF FiredTimes
  <2>7. act'[a].ev.st.last = me.now
    BY <2>2, <2>4
  <2>8. ActorHonest(a)'
    BY <2>4, <2>6, <2>7 DEF ActorHonest, Progress
  <2>9. \A b \in Actor \ {a} : act'[b] = act[b]
    BY <2>1 DEF TypeOK
  <2> QED
    BY <2>8, <2>9
<1>5. CASE ~LastTarget(me.k)
  <2>1. act' = [act EXCEPT ![a] = [me EXCEPT !.k = me.k + 1]]
    BY <1>5 DEF CreateFlow
  <2>2. act'[a] = [me EXCEPT !.k = me.k + 1]
    BY <2>1 DEF TypeOK
  <2>3. /\ act'[a].k = me.k + 1
        /\ act'[a].now = me.now
        /\ act'[a].ev = me.ev
    BY <1>1, <2>2 DEF Local
  <2>4. \A k \in DOMAIN Targets : k < me.k + 1 => k <= me.k
    BY <1>2, EventAssumption
  <2>5. Progress(a)'
    BY <1>1, <1>3, <2>3, <2>4 DEF Progress
  <2>6. act'[a].ev.st.last \in FiredTimes'
    BY <2>3, SentStays DEF ActorHonest
  <2>7. \A b \in Actor \ {a} : act'[b] = act[b]
    BY <2>1 DEF TypeOK
  <2> QED
    BY <2>5, <2>6, <2>7 DEF ActorHonest
<1> QED
  BY <1>4, <1>5

(***************************************************************************)
(* Every step keeps the copies honest.                                     *)
(***************************************************************************)
LEMMA CopiesStayHonest ==
  ASSUME TypeOK, CopiesHonest, [Next]_vars
  PROVE  CopiesHonest'
<1> SUFFICES ASSUME policy = "Allow"
             PROVE  /\ ev'.st.last \in FiredTimes'
                    /\ evSeen'.st.last \in FiredTimes'
                    /\ \A a \in Actor : ActorHonest(a)'
  BY PolicyStays DEF CopiesHonest, ActorHonest
<1>1. /\ ev.st.last \in FiredTimes
      /\ evSeen.st.last \in FiredTimes
      /\ \A a \in Actor : ActorHonest(a)
  BY DEF CopiesHonest, ActorHonest
<1>2. FiredTimes \subseteq FiredTimes'
  BY SentStays
<1>3. Reconciler \in Actor
  BY ConstantTypes
\* The three ways in which the copies on the API server and in the cache
\* change, and the one in which those of the actors do.
<1>4. ASSUME ev' = ev \/ ev'.st.last \in FiredTimes
      PROVE  ev'.st.last \in FiredTimes'
  BY <1>1, <1>2, <1>4
<1>5. ASSUME evSeen' \in {evSeen, ev}
      PROVE  evSeen'.st.last \in FiredTimes'
  BY <1>1, <1>2, <1>5
<1>6. ASSUME NEW a \in Actor, ActorHonest(a)',
             \A b \in Actor \ {a} : act'[b] = act[b]
      PROVE  \A b \in Actor : ActorHonest(b)'
  BY <1>1, <1>6, ActorKept
<1>7. ASSUME act' = act
      PROVE  \A b \in Actor : ActorHonest(b)'
  BY <1>1, <1>7, ActorKept
<1>8. ASSUME NEW a \in Actor, CreateFlow(a) \/ CreateFails(a)
      PROVE  \A b \in Actor : ActorHonest(b)'
  <2>1. CASE CreateFlow(a)
    BY <1>1, <1>6, <2>1, ActorCreates
  <2>2. CASE CreateFails(a)
    <3>1. act' = [act EXCEPT ![a] = IF a = Reconciler THEN Idle ELSE Done]
      BY <2>2 DEF CreateFails
    <3>2. act'[a] \in {Idle, Done}
      BY <3>1 DEF TypeOK
    <3>3. \A b \in Actor \ {a} : act'[b] = act[b]
      BY <3>1 DEF TypeOK
    <3> QED
      BY <1>6, <3>2, <3>3, ActorEnds
  <2> QED
    BY <1>8, <2>1, <2>2
<1>9. ASSUME NEW obj \in Event, UpdateSucceeds(obj) \/ UpdateFails(obj),
             obj.st.last \in FiredTimes
      PROVE  ev'.st.last \in FiredTimes'
  <2>1. ev'.st \in {ev.st, obj.st}
    BY <1>9, UpdateType
  <2> QED
    BY <1>1, <1>2, <1>9, <2>1
<1>10. evSeen \in Event /\ evSeen.st \in Status /\ clock \in Time
  BY DEF TypeOK, Event
<1>11. CASE ReportSuspended
  <2> DEFINE obj == [evSeen EXCEPT !.st = [evSeen.st EXCEPT !.at = clock]]
  <2>1. /\ [evSeen.st EXCEPT !.at = clock] \in Status
        /\ [evSeen.st EXCEPT !.at = clock].last = evSeen.st.last
    BY <1>10, ConditionType
  <2>2. obj \in Event /\ obj.st.last = evSeen.st.last
    BY <1>10, <2>1, EventWithStatus
  <2>3. obj = [evSeen EXCEPT !.st.at = clock]
    OBVIOUS
  <2> HIDE DEF obj
  <2>4. UpdateSucceeds(obj) \/ UpdateFails(obj)
    BY <1>11, <2>3 DEF ReportSuspended
  <2>5. act' = act /\ evSeen' = evSeen
    BY <1>11 DEF ReportSuspended
  <2> QED
    BY <1>1, <1>5, <1>7, <1>9, <2>2, <2>4, <2>5
<1>12. CASE ReconcileFires
  <2>1. StartFire(Reconciler, evSeen) /\ ev' = ev /\ evSeen' = evSeen
    BY <1>12 DEF ReconcileFires
  <2> QED
    BY <1>1, <1>3, <1>4, <1>5, <1>6, <2>1, ActorStarts
<1>13. CASE ReconcileWaits
  <2> DEFINE l == [pc |-> "save", ev |-> evSeen, now |-> clock, k |-> 1]
  <2>1. act' = [act EXCEPT ![Reconciler] = l] /\ ev' = ev /\ evSeen' = evSeen
    BY <1>13 DEF ReconcileWaits
  <2>2. act'[Reconciler] = l
    BY <1>3, <2>1 DEF TypeOK
  <2>3. ActorHonest(Reconciler)'
    BY <1>1, <1>2, <2>2 DEF ActorHonest, Progress
  <2>4. \A b \in Actor \ {Reconciler} : act'[b] = act[b]
    BY <2>1 DEF TypeOK
  <2> QED
    BY <1>3, <1>4, <1>5, <1>6, <2>1, <2>3, <2>4
<1>14. CASE SaveStatus
  <2> DEFINE me == act[Reconciler]
             st == [me.ev.st EXCEPT !.at = me.now]
             latest == [evSeen EXCEPT !.st = st]
  <2>1. me.ev.st \in Status /\ me.now \in Time \union {Never}
    BY <1>3 DEF TypeOK, Local, Event
  <2>2. st \in Status /\ st.last = me.ev.st.last
    BY <2>1, ConditionType
  <2>3. me.ev.st.last \in FiredTimes
    BY <1>1, <1>3 DEF ActorHonest
  <2> HIDE DEF st
  <2>4. latest \in Event /\ latest.st.last \in FiredTimes
    BY <1>10, <2>2, <2>3, EventWithStatus
  <2>5. UpdateSucceeds(latest) \/ UpdateFails(latest)
    BY <1>14 DEF SaveStatus, st
  <2> HIDE DEF latest
  <2>6. act' = [act EXCEPT ![Reconciler] = Idle] /\ evSeen' = evSeen
    BY <1>14 DEF SaveStatus
  <2>7. act'[Reconciler] \in {Idle, Done}
    BY <1>3, <2>6 DEF TypeOK
  <2>8. \A b \in Actor \ {Reconciler} : act'[b] = act[b]
    BY <2>6 DEF TypeOK
  <2> QED
    BY <1>3, <1>5, <1>6, <1>9, <2>4, <2>5, <2>6, <2>7, <2>8, ActorEnds
<1>15. ASSUME NEW r \in Request, Serve(r)
       PROVE  /\ ev'.st.last \in FiredTimes'
              /\ evSeen'.st.last \in FiredTimes'
              /\ \A a \in Actor : ActorHonest(a)'
  <2>1. r \in Actor /\ StartFire(r, evSeen) /\ ev' = ev /\ evSeen' = evSeen
    BY <1>15 DEF Serve, Actor
  <2> QED
    BY <1>1, <1>4, <1>5, <1>6, <2>1, ActorStarts
<1>16. ASSUME NEW r \in Request, SaveServed(r)
       PROVE  /\ ev'.st.last \in FiredTimes'
              /\ evSeen'.st.last \in FiredTimes'
              /\ \A a \in Actor : ActorHonest(a)'
  <2> DEFINE obj == act[r].ev
  <2>1. r \in Actor
    BY DEF Actor
  <2>2. obj \in Event /\ obj.st.last \in FiredTimes
    BY <1>1, <2>1 DEF TypeOK, Local, ActorHonest
  <2>3. UpdateSucceeds(obj) \/ UpdateFails(obj)
    BY <1>16 DEF SaveServed
  <2>4. act' = [act EXCEPT ![r] = Done] /\ evSeen' = evSeen
    BY <1>16 DEF SaveServed
  <2>5. act'[r] \in {Idle, Done}
    BY <2>1, <2>4 DEF TypeOK
  <2>6. \A b \in Actor \ {r} : act'[b] = act[b]
    BY <2>4 DEF TypeOK
  <2> QED
    BY <1>5, <1>6, <1>9, <2>1, <2>2, <2>3, <2>4, <2>5, <2>6, ActorEnds
<1>17. CASE CrashOperator
  <2>1. ev' = ev /\ evSeen' = ev
    BY <1>17 DEF CrashOperator
  <2>2. \A a \in Actor : act'[a] \in {Idle, Done}
    BY <1>17 DEF CrashOperator
  <2> QED
    BY <1>4, <1>5, <2>1, <2>2, ActorEnds
<1>18. CASE ToggleSuspended
  <2>1. ev'.st = ev.st
    BY <1>18 DEF ToggleSuspended, TypeOK, Event
  <2>2. evSeen' = evSeen /\ act' = act
    BY <1>18 DEF ToggleSuspended
  <2> QED
    BY <1>1, <1>4, <1>5, <1>7, <2>1, <2>2
<1>19. ASSUME NEW a \in Actor, CreateFlow(a) \/ CreateFails(a)
       PROVE  /\ ev'.st.last \in FiredTimes'
              /\ evSeen'.st.last \in FiredTimes'
              /\ \A b \in Actor : ActorHonest(b)'
  <2>1. ev' = ev /\ evSeen' = evSeen
    BY <1>19 DEF CreateFlow, CreateFails
  <2> QED
    BY <1>4, <1>5, <1>8, <1>19, <2>1
<1>20. ASSUME \/ ReconcileFails \/ SyncEvent \/ SyncFlows \/ RingAlarm
              \/ Resync \/ StartUpstream \/ Tick \/ UNCHANGED vars
              \/ \E n \in FlowName : RunFlow(n)
       PROVE  /\ ev'.st.last \in FiredTimes'
              /\ evSeen'.st.last \in FiredTimes'
              /\ \A b \in Actor : ActorHonest(b)'
  <2>1. ev' = ev /\ evSeen' \in {evSeen, ev} /\ act' = act
    BY <1>20 DEF ReconcileFails, SyncEvent, SyncFlows, RingAlarm, Resync,
         StartUpstream, Tick, vars, RunFlow
  <2> QED
    BY <1>4, <1>5, <1>7, <2>1
<1> QED
  BY <1>3, <1>11, <1>12, <1>13, <1>14, <1>15, <1>16, <1>17, <1>18, <1>19,
     <1>20 DEF Next, Reconcile, Respond, Actor

(***************************************************************************)
(* With any number of targets, requests and disruptions: a trigger whose   *)
(* status gives a time of firing has dispatched every target at that time, *)
(* whoever wrote the status, and whichever creation failed.                *)
(***************************************************************************)
THEOREM EventFiresDispatch == Spec => []FiredMeansDispatched
<1>1. Init => CopiesHonest
  <2> SUFFICES ASSUME Init PROVE CopiesHonest
    OBVIOUS
  <2>1. Never \in FiredTimes
    BY DEF FiredTimes
  <2>2. ev.st.last = Never /\ evSeen.st.last = Never
    BY DEF Init, NewEvent, InitialStatus
  <2>3. \A a \in Actor : act[a] = Idle
    BY DEF Init
  <2>4. Idle.pc = "idle" /\ Idle.ev.st.last = Never
    BY DEF Idle, NewEvent, InitialStatus
  <2> QED
    BY <2>1, <2>2, <2>3, <2>4 DEF CopiesHonest, Progress
<1>2. CopiesHonest => FiredMeansDispatched
  BY DEF CopiesHonest, FiredMeansDispatched, FiredTimes, Sent
<1>3. TypeOK /\ CopiesHonest /\ [Next]_vars => CopiesHonest'
  BY CopiesStayHonest
<1> QED
  BY <1>1, <1>2, <1>3, EventTypes, PTL DEF Spec

-----------------------------------------------------------------------------
(***************************************************************************)
(* What OncePerOccasion is about: no disruptions, no names in use, and no  *)
(* requests that fire for an occasion of their own, nor a trigger on the   *)
(* start of a flow.                                                        *)
(***************************************************************************)
Quiet == disruptions = 0 /\ ~collided /\ kind # "webhook" /\ ~OnStart

Ended(flow) == flow.phase \in {"Succeeded", "Failed"}

\* A completion that is seen is the one of the watched flow, and is past.
CompletionSeen ==
  /\ Ended(seen.upstream) => flows[Upstream] = seen.upstream
  /\ Ended(flows[Upstream]) =>
       flows[Upstream].completed \in Time /\ flows[Upstream].completed <= clock
  /\ ~Ended(flows[Upstream]) => flows[Upstream].completed = Never

\* Every run was fired until time t.
FiredUntil(t) == \A n \in Runs : flows[n].firedAt <= t

\* There is an occasion after time s and not after t.
Between(s, t) == \E o \in Occasions : s < o /\ o <= t

\* Two runs for the same target were fired for different occasions.
Apart(n, m) ==
  (n # m /\ n[1] = m[1] /\ flows[n].firedAt <= flows[m].firedAt) =>
    Between(flows[n].firedAt, flows[m].firedAt)

\* Only the reconciler fires, with a copy of the trigger that is current.
FiresAlone ==
  /\ ev.suspended = FALSE /\ evSeen.suspended = FALSE
  /\ \A r \in Request : act[r].pc = "idle"
  /\ act[Reconciler].pc \in {"fire", "save"} => evSeen = ev

\* Run n is of the fire that the reconciler is at.
OfThisFire(n) ==
  /\ flows[n].firedAt = act[Reconciler].now
  /\ \E j \in DOMAIN Targets : j < act[Reconciler].k /\ n[1] = Targets[j]

(***************************************************************************)
(* The inductive invariant: the status, or the copy that will replace it,  *)
(* has the time of the last fire; and the fire that goes on is for an      *)
(* occasion after that.                                                    *)
(***************************************************************************)
FiresInOrder ==
  /\ act[Reconciler].pc = "idle" => FiredUntil(ev.st.last)
  /\ act[Reconciler].pc = "save" => FiredUntil(act[Reconciler].ev.st.last)
  /\ act[Reconciler].pc = "fire" =>
       /\ Between(ev.st.last, act[Reconciler].now)
       /\ \A n \in Runs : flows[n].firedAt <= ev.st.last \/ OfThisFire(n)

OnceInv ==
  /\ CompletionSeen
  /\ act[Reconciler].pc \in {"idle", "fire", "save"}
  /\ Quiet =>
       FiresAlone /\ FiresInOrder /\ (\A n, m \in Runs : Apart(n, m))

\* No target is listed twice.
DistinctTargets ==
  \A j, k \in DOMAIN Targets : Targets[j] = Targets[k] => j = k

(***************************************************************************)
(* What the invariant compares are numbers.                                *)
(***************************************************************************)
LEMMA EventNumbers ==
  ASSUME TypeOK
  PROVE  /\ clock \in Nat /\ MaxTime \in Nat /\ Lookback \in Nat
         /\ Time \subseteq Int /\ Never \in Int
         /\ \A n \in FlowName : flows[n].firedAt \in Int
         /\ ev.st.last \in Int
         /\ act[Reconciler].ev.st.last \in Int
         /\ act[Reconciler].now \in Int
         /\ act[Reconciler].k \in DOMAIN Targets
         /\ Occasions \subseteq Int
<1>1. /\ MaxTime \in Nat /\ Lookback \in Nat /\ Due \subseteq Time
      /\ Time \subseteq Nat
  BY EventAssumption DEF Time
<1>2. clock \in Nat
  BY <1>1 DEF TypeOK
<1>3. Never \in Int
  BY DEF Never
<1>4. \A n \in FlowName : /\ flows[n].firedAt \in Time \union {Never}
                          /\ flows[n].completed \in Time \union {Never}
  BY DEF TypeOK, Flow
<1>5. ev.st.last \in Time \union {Never}
  BY DEF TypeOK, Event, Status
<1>6. act[Reconciler] \in Local
  BY ConstantTypes DEF TypeOK
<1>7. /\ act[Reconciler].ev.st.last \in Time \union {Never}
      /\ act[Reconciler].now \in Time \union {Never}
      /\ act[Reconciler].k \in DOMAIN Targets
  BY <1>6 DEF Local, Event, Status
<1>8. \A t \in Time \union {Never} : t \in Int
  BY <1>1, <1>3
<1>9. flows[Upstream].completed \in Int
  <2>1. flows[Upstream].completed \in Time \union {Never}
    BY <1>4, ConstantTypes
  <2> QED
    BY <1>8, <2>1
<1>10. Occasions \subseteq Int
  <2>1. Occasions \subseteq Due \union {flows[Upstream].completed}
    BY DEF Occasions
  <2>2. Due \subseteq Int
    BY <1>1
  <2> QED
    BY <1>9, <2>1, <2>2
<1>11. \A n \in FlowName : flows[n].firedAt \in Int
  BY <1>4, <1>8
<1>12. /\ ev.st.last \in Int
       /\ act[Reconciler].ev.st.last \in Int
       /\ act[Reconciler].now \in Int
  BY <1>5, <1>7, <1>8
<1>13. Time \subseteq Int
  BY <1>1
<1> QED
  BY <1>1, <1>2, <1>3, <1>7, <1>10, <1>11, <1>12, <1>13

(***************************************************************************)
(* A flow that is dispatched is not the flow that is watched.              *)
(***************************************************************************)
LEMMA DispatchedApart == Upstream \notin Dispatched
<1> SUFFICES ASSUME Upstream \in Dispatched PROVE FALSE
  OBVIOUS
<1>1. PICK k \in DOMAIN Targets, t \in Time :
        <<"upstream", 0>> = <<Targets[k], t>>
  BY DEF Dispatched, Upstream
<1>2. Targets[k] = "upstream"
  BY <1>1
<1> QED
  BY <1>2, EventAssumption

(***************************************************************************)
(* What a step does to the watched flow, its copy and the clock: a flow    *)
(* that has ended changes no more.                                         *)
(***************************************************************************)
UpstreamStep ==
  /\ kind' = kind /\ onPhase' = onPhase
  /\ clock' = clock \/ clock' = clock + 1
  /\ \/ seen'.upstream = seen.upstream
     \/ seen'.upstream = flows[Upstream] /\ flows' = flows
  /\ \/ flows'[Upstream] = flows[Upstream]
     \/ /\ ~Ended(flows[Upstream])
        /\ seen' = seen
        /\ flows'[Upstream].completed =
             IF Ended(flows'[Upstream]) THEN clock ELSE Never

LEMMA UpstreamSteps ==
  ASSUME TypeOK, [Next]_vars
  PROVE  UpstreamStep
<1>1. ASSUME UNCHANGED <<spec, clock, seen, flows>> PROVE UpstreamStep
  BY <1>1 DEF UpstreamStep, spec
<1>2. ASSUME NEW a \in Actor, CreateFlow(a) \/ CreateFails(a)
      PROVE  UpstreamStep
  <2> DEFINE name == <<Targets[act[a].k], clock>>
  <2>1. /\ UNCHANGED <<kind, onPhase, clock, seen>>
        /\ \/ flows' = flows
           \/ flows' = [flows EXCEPT ![name] =
                [NoFlow EXCEPT !.phase = "new", !.firedAt = act[a].now]]
    BY <1>2 DEF CreateFlow, CreateFails, spec
  <2>2. name # Upstream
    <3>1. act[a].k \in DOMAIN Targets
      BY DEF TypeOK, Local
    <3> QED
      BY <3>1, EventAssumption DEF Upstream
  <2>3. flows'[Upstream] = flows[Upstream]
    BY <2>1, <2>2, ConstantTypes DEF TypeOK
  <2> QED
    BY <2>1, <2>3 DEF UpstreamStep
<1>3. ASSUME NEW n \in FlowName, RunFlow(n) PROVE UpstreamStep
  <2>1. PICK phase \in {"Running", "Succeeded", "Failed"} :
          flows' = [flows EXCEPT
                      ![n].phase = phase,
                      ![n].completed = IF n = Upstream /\ phase # "Running"
                                       THEN clock ELSE Never]
    BY <1>3 DEF RunFlow
  <2>2. /\ UNCHANGED <<kind, onPhase, clock, seen>>
        /\ flows[n].phase \in {"new", "Running"}
    BY <1>3 DEF RunFlow, spec
  <2>3. CASE n = Upstream
    <3> DEFINE c == IF phase # "Running" THEN clock ELSE Never
    <3>1. flows' = [flows EXCEPT ![Upstream].phase = phase,
                                 ![Upstream].completed = c]
      BY <2>1, <2>3
    <3>2. c = IF phase \in {"Succeeded", "Failed"} THEN clock ELSE Never
      OBVIOUS
    <3> HIDE DEF c
    <3>3. flows'[Upstream] = [flows[Upstream] EXCEPT !.phase = phase,
                                                     !.completed = c]
      BY <3>1, ConstantTypes DEF TypeOK
    <3>4. flows'[Upstream].phase = phase /\ flows'[Upstream].completed = c
      BY <3>3, ConstantTypes DEF TypeOK, Flow
    <3> QED
      BY <2>2, <2>3, <3>2, <3>4 DEF UpstreamStep, Ended
  <2>4. CASE n # Upstream
    <3>1. flows'[Upstream] = flows[Upstream]
      BY <2>1, <2>4, ConstantTypes DEF TypeOK
    <3> QED
      BY <2>2, <3>1 DEF UpstreamStep
  <2> QED
    BY <2>3, <2>4
<1>4. CASE StartUpstream
  <2>1. /\ UNCHANGED <<kind, onPhase, clock, seen>>
        /\ flows[Upstream].phase = "absent"
        /\ flows' = [flows EXCEPT ![Upstream] =
                       [NoFlow EXCEPT !.phase = "new"]]
    BY <1>4 DEF StartUpstream, spec
  <2>2. flows'[Upstream] = [NoFlow EXCEPT !.phase = "new"]
    BY <2>1, ConstantTypes DEF TypeOK
  <2>3. /\ flows'[Upstream].phase = "new"
        /\ flows'[Upstream].completed = Never
    BY <2>2 DEF NoFlow
  <2> QED
    BY <2>1, <2>3 DEF UpstreamStep, Ended
<1>5. CASE Reconcile
  <2>1. CASE CreateFlow(Reconciler) \/ CreateFails(Reconciler)
    BY <1>2, <2>1, ConstantTypes
  <2>2. CASE \/ ReportSuspended \/ ReconcileFails \/ ReconcileFires
             \/ ReconcileWaits \/ SaveStatus
    BY <1>1, <2>2 DEF ReportSuspended, ReconcileFails, ReconcileFires,
       ReconcileWaits, SaveStatus, spec
  <2> QED
    BY <1>5, <2>1, <2>2 DEF Reconcile
<1>6. ASSUME NEW r \in Request, Respond(r) PROVE UpstreamStep
  <2>1. CASE CreateFlow(r) \/ CreateFails(r)
    BY <1>2, <2>1 DEF Actor
  <2>2. CASE Serve(r) \/ SaveServed(r)
    BY <1>1, <2>2 DEF Serve, SaveServed, spec
  <2> QED
    BY <1>6, <2>1, <2>2 DEF Respond
<1>7. CASE SyncFlows \/ CrashOperator
  <2>1. UNCHANGED <<kind, onPhase, clock, flows>> /\ seen' = Visible
    BY <1>7 DEF SyncFlows, CrashOperator, spec
  <2>2. seen'.upstream = flows[Upstream]
    BY <2>1 DEF Visible
  <2> QED
    BY <2>1, <2>2 DEF UpstreamStep
<1>8. CASE SyncEvent \/ RingAlarm \/ Resync \/ ToggleSuspended
  BY <1>1, <1>8 DEF SyncEvent, RingAlarm, Resync, ToggleSuspended, spec
<1>9. CASE Tick
  BY <1>9 DEF Tick, UpstreamStep, spec
<1>10. CASE UNCHANGED vars
  BY <1>1, <1>10 DEF vars, spec
<1> QED
  BY <1>3, <1>4, <1>5, <1>6, <1>7, <1>8, <1>9, <1>10 DEF Next

(***************************************************************************)
(* So what was completed stays so, and an occasion stays one.              *)
(***************************************************************************)
LEMMA CompletionStays ==
  ASSUME TypeOK, CompletionSeen, [Next]_vars
  PROVE  CompletionSeen' /\ Occasions \subseteq Occasions'
<1>1. UpstreamStep
  BY UpstreamSteps
<1>2. clock \in Nat /\ clock' \in Nat /\ clock <= clock' /\ clock \in Time
  BY <1>1, EventNumbers DEF UpstreamStep, TypeOK
<1>3. CompletionSeen'
  <2>1. CASE flows'[Upstream] = flows[Upstream]
    <3>1. seen'.upstream \in {seen.upstream, flows[Upstream]}
      BY <1>1 DEF UpstreamStep
    <3>2. flows[Upstream].completed \in Time =>
            flows[Upstream].completed \in Int
      BY EventNumbers
    <3> QED
      BY <1>2, <2>1, <3>1, <3>2 DEF CompletionSeen
  <2>2. CASE flows'[Upstream] # flows[Upstream]
    BY <1>1, <1>2, <2>2 DEF CompletionSeen, UpstreamStep, Ended
  <2> QED
    BY <2>1, <2>2
<1>4. Occasions \subseteq Occasions'
  BY <1>1 DEF UpstreamStep, CompletionSeen, Occasions
<1> QED
  BY <1>3, <1>4

(***************************************************************************)
(* The kinds of steps that lead to a quiet state.                          *)
(***************************************************************************)
\* The trigger, the reconciler and the runs stay as they are.
StepsAside ==
  /\ UNCHANGED <<ev, act>> /\ evSeen' \in {evSeen, ev}
  /\ \A n \in Dispatched : flows'[n].phase # "absent" =>
                             flows[n].phase # "absent"

\* The reconciler begins, with a current copy.
BeginsQuietly ==
  /\ ReconcileFires \/ ReconcileWaits
  /\ evSeen = ev /\ UNCHANGED <<ev, evSeen, flows>>

\* It ends, and its copy replaces the status.
EndsQuietly ==
  /\ act[Reconciler].pc = "save"
  /\ UNCHANGED <<evSeen, flows>>
  /\ act' = [act EXCEPT ![Reconciler] = Idle]
  /\ ev'.suspended = ev.suspended
  /\ ev'.st.last = act[Reconciler].ev.st.last

LEMMA QuietSteps ==
  ASSUME TypeOK, OnceInv, [Next]_vars, Quiet'
  PROVE  /\ Quiet
         /\ \/ StepsAside \/ BeginsQuietly \/ EndsQuietly
            \/ CreateFlow(Reconciler)
<1>1. disruptions \in Nat /\ kind' = kind /\ OnStart' = OnStart
  <2>1. disruptions \in Nat
    BY EventAssumption DEF TypeOK
  <2> QED
    BY <2>1, UpstreamSteps DEF UpstreamStep, OnStart
<1>2. ~Disrupt
  BY <1>1 DEF Disrupt, Quiet
<1>3. kind # "webhook"
  BY <1>1 DEF Quiet
<1>4. ASSUME UNCHANGED <<disruptions, collided>> PROVE Quiet
  BY <1>1, <1>4 DEF Quiet
<1>5. ASSUME Quiet PROVE FiresAlone
  BY <1>5 DEF OnceInv
<1>6. CASE ReportSuspended
  <2>1. UNCHANGED <<disruptions, collided>>
    BY <1>2, <1>6 DEF ReportSuspended, UpdateSucceeds, UpdateFails
  <2> QED
    BY <1>4, <1>5, <1>6, <2>1 DEF ReportSuspended, FiresAlone
<1>7. CASE ReconcileFires \/ ReconcileWaits
  <2>1. evSeen = ev /\ UNCHANGED disruptions
    BY <1>2, <1>7 DEF ReconcileFires, ReconcileWaits, ReadTrigger
  <2> QED
    BY <1>4, <1>7, <2>1 DEF BeginsQuietly, ReconcileFires, ReconcileWaits
<1>8. CASE CreateFlow(Reconciler)
  BY <1>4, <1>8 DEF CreateFlow
<1>9. ASSUME NEW a \in Actor, CreateFails(a) PROVE FALSE
  <2> DEFINE name == <<Targets[act[a].k], clock>>
  <2>1. flows[name].phase # "absent"
    BY <1>2, <1>9 DEF CreateFails
  <2>2. collided'
    BY <1>9, <2>1, Zenon DEF CreateFails
  <2> QED
    BY <2>2 DEF Quiet
<1>10. CASE SaveStatus
  <2> DEFINE me == act[Reconciler]
             st == [me.ev.st EXCEPT !.at = me.now]
             latest == [evSeen EXCEPT !.st = st]
  <2>1. /\ me.pc = "save" /\ UNCHANGED <<evSeen, flows, collided>>
        /\ act' = [act EXCEPT ![Reconciler] = Idle]
        /\ UpdateSucceeds(latest) \/ UpdateFails(latest)
    BY <1>10 DEF SaveStatus
  <2>2. me \in Local
    BY ConstantTypes DEF TypeOK
  <2>3. st \in Status /\ st.last = me.ev.st.last
    <3>1. me.ev.st \in Status /\ me.now \in Time \union {Never}
      BY <2>2 DEF Local, Event
    <3> QED
      BY <3>1, ConditionType
  <2> HIDE DEF st
  <2>4. latest \in Event /\ latest.st = st /\ latest.rv = evSeen.rv
    BY <2>3 DEF TypeOK, Event
  <2> HIDE DEF latest
  <2>5. UNCHANGED disruptions
    BY <1>2, <2>1 DEF UpdateSucceeds, UpdateFails
  <2>6. Quiet
    BY <1>4, <2>1, <2>5
  <2>7. evSeen = ev
    BY <1>5, <2>1, <2>6 DEF FiresAlone
  <2>8. Store(latest)
    BY <1>2, <2>1, <2>4, <2>7 DEF UpdateSucceeds, UpdateFails, Accepted
  <2>9. ev'.suspended = ev.suspended /\ ev'.st = st
    BY <2>4, <2>8 DEF Store, TypeOK, Event
  <2> QED
    BY <2>1, <2>3, <2>6, <2>9 DEF EndsQuietly
<1>11. ASSUME NEW r \in Request, Respond(r) PROVE FALSE
  <2>1. r \in Actor
    BY DEF Actor
  <2>2. ASSUME Serve(r) PROVE FALSE
    BY <1>3, <2>2 DEF Serve
  <2>3. ASSUME CreateFlow(r) PROVE FALSE
    BY <1>4, <1>5, <2>3 DEF CreateFlow, FiresAlone
  <2>4. ASSUME SaveServed(r) PROVE FALSE
    <3>1. UNCHANGED <<disruptions, collided>>
      BY <1>2, <2>4 DEF SaveServed, UpdateSucceeds, UpdateFails
    <3> QED
      BY <1>4, <1>5, <2>4, <3>1 DEF SaveServed, FiresAlone
  <2> QED
    BY <1>9, <1>11, <2>1, <2>2, <2>3, <2>4 DEF Respond
<1>12. CASE ReconcileFails \/ CrashOperator \/ ToggleSuspended
  BY <1>2, <1>12 DEF ReconcileFails, CrashOperator, ToggleSuspended
<1>13. CASE SyncEvent \/ SyncFlows \/ RingAlarm \/ Resync \/ Tick
            \/ UNCHANGED vars
  <2>1. /\ UNCHANGED <<ev, act, flows, disruptions, collided>>
        /\ evSeen' \in {evSeen, ev}
    BY <1>13 DEF SyncEvent, SyncFlows, RingAlarm, Resync, Tick, vars
  <2> QED
    BY <1>4, <2>1 DEF StepsAside
<1>14. CASE StartUpstream
  <2>1. /\ UNCHANGED <<ev, act, evSeen, disruptions, collided>>
        /\ flows' = [flows EXCEPT ![Upstream] =
                       [NoFlow EXCEPT !.phase = "new"]]
    BY <1>14 DEF StartUpstream
  <2>2. \A n \in Dispatched : flows'[n] = flows[n]
    BY <2>1, DispatchedApart DEF TypeOK, FlowName
  <2> QED
    BY <1>4, <2>1, <2>2 DEF StepsAside
<1>15. ASSUME NEW m \in FlowName, RunFlow(m) PROVE Quiet /\ StepsAside
  <2>1. /\ UNCHANGED <<ev, act, evSeen, disruptions, collided>>
        /\ flows[m].phase \in {"new", "Running"}
    BY <1>15 DEF RunFlow
  <2>2. PICK phase : flows' = [flows EXCEPT
                      ![m].phase = phase,
                      ![m].completed = IF m = Upstream /\ phase # "Running"
                                       THEN clock ELSE Never]
    BY <1>15 DEF RunFlow
  <2>3. \A n \in Dispatched : n # m => flows'[n] = flows[n]
    BY <2>2 DEF TypeOK, FlowName
  <2>4. \A n \in Dispatched : flows'[n].phase # "absent" =>
                                flows[n].phase # "absent"
    BY <2>1, <2>3
  <2> QED
    BY <1>4, <2>1, <2>4 DEF StepsAside
<1> QED
  BY <1>6, <1>7, <1>8, <1>9, <1>10, <1>11, <1>12, <1>13, <1>14, <1>15,
     ConstantTypes DEF Next, Reconcile

(***************************************************************************)
(* The reconciler is idle, fires or saves.                                 *)
(***************************************************************************)
LEMMA ReconcilerPlaces ==
  ASSUME TypeOK, [Next]_vars,
         act[Reconciler].pc \in {"idle", "fire", "save"}
  PROVE  act'[Reconciler].pc \in {"idle", "fire", "save"}
<1>0. Reconciler \in Actor /\ Reconciler \notin Request
  BY ConstantTypes, EventAssumption DEF Reconciler
<1>1. CASE act' = act
  BY <1>1
<1>2. ASSUME NEW r \in Actor \ {Reconciler}, NEW l,
             act' = [act EXCEPT ![r] = l]
      PROVE  act'[Reconciler] = act[Reconciler]
  BY <1>0, <1>2 DEF TypeOK
<1>3. ASSUME NEW l, l.pc \in {"idle", "fire", "save"},
             act' = [act EXCEPT ![Reconciler] = l]
      PROVE  act'[Reconciler].pc \in {"idle", "fire", "save"}
  BY <1>0, <1>3 DEF TypeOK
<1>4. Idle.pc = "idle"
  BY DEF Idle
<1>5. CASE Reconcile
  <2>1. CASE ReportSuspended \/ ReconcileFails
    BY <1>1, <2>1 DEF ReportSuspended, ReconcileFails
  <2>2. CASE ReconcileFires
    BY <1>3, <2>2 DEF ReconcileFires, StartFire
  <2>3. CASE ReconcileWaits
    BY <1>3, <2>3 DEF ReconcileWaits
  <2>4. CASE CreateFlow(Reconciler)
    <3> DEFINE me == act[Reconciler]
    <3>1. me \in Local /\ me.pc = "fire"
      BY <1>0, <2>4 DEF TypeOK, CreateFlow
    <3>2. CASE LastTarget(me.k)
      <4> DEFINE l == [me EXCEPT !.pc = "save",
                                 !.ev.st = Fired(me.ev.st, me.now)]
      <4>1. act' = [act EXCEPT ![Reconciler] = l]
        BY <2>4, <3>2 DEF CreateFlow
      <4>2. l.pc = "save"
        BY <3>1 DEF Local
      <4> HIDE DEF l
      <4> QED
        BY <1>3, <4>1, <4>2
    <3>3. CASE ~LastTarget(me.k)
      <4> DEFINE l == [me EXCEPT !.k = me.k + 1]
      <4>1. act' = [act EXCEPT ![Reconciler] = l]
        BY <2>4, <3>3 DEF CreateFlow
      <4>2. l.pc = "fire"
        BY <3>1 DEF Local
      <4> HIDE DEF l
      <4> QED
        BY <1>3, <4>1, <4>2
    <3> QED
      BY <3>2, <3>3
  <2>5. CASE CreateFails(Reconciler)
    BY <1>3, <1>4, <2>5 DEF CreateFails
  <2>6. CASE SaveStatus
    BY <1>3, <1>4, <2>6 DEF SaveStatus
  <2> QED
    BY <1>5, <2>1, <2>2, <2>3, <2>4, <2>5, <2>6 DEF Reconcile
<1>6. ASSUME NEW r \in Request, Respond(r)
      PROVE  act'[Reconciler] = act[Reconciler]
  <2>1. r \in Actor \ {Reconciler}
    BY <1>0 DEF Actor
  <2> QED
    BY <1>2, <1>6, <2>1
       DEF Respond, Serve, StartFire, CreateFlow, CreateFails, SaveServed
<1>7. CASE CrashOperator
  <2>1. act'[Reconciler] = Idle
    BY <1>0, <1>7 DEF CrashOperator
  <2> QED
    BY <1>4, <2>1
<1>8. CASE \/ SyncEvent \/ SyncFlows \/ RingAlarm \/ Resync
           \/ ToggleSuspended \/ StartUpstream \/ Tick \/ UNCHANGED vars
           \/ \E n \in FlowName : RunFlow(n)
  BY <1>1, <1>8 DEF SyncEvent, SyncFlows, RingAlarm, Resync, ToggleSuspended,
     StartUpstream, Tick, RunFlow, vars
<1> QED
  BY <1>5, <1>6, <1>7, <1>8 DEF Next

(***************************************************************************)
(* A fire is for an occasion after the last.                               *)
(***************************************************************************)
LEMMA FiresForAnOccasion ==
  ASSUME TypeOK, CompletionSeen, kind # "webhook", ~OnStart,
         ShouldFire(ev.st.last, clock)
  PROVE  Between(ev.st.last, clock)
<1> DEFINE last == ev.st.last
<1>1. last \in Int /\ clock \in Nat /\ Lookback \in Nat
  BY EventNumbers
<1>2. kind \in {"cron", "pipeline-output"}
  BY EventAssumption DEF TypeOK, Kind
<1>3. CASE kind = "cron"
  <2>1. CronDue(last, clock)
    BY <1>3 DEF ShouldFire
  <2>2. PICK d \in Due : /\ d > IF last > clock - Lookback THEN last
                                ELSE clock - Lookback
                         /\ d <= clock
    BY <2>1 DEF CronDue, Scheduled
  <2>3. d \in Nat
    BY EventAssumption DEF Time
  <2>4. last < d
    BY <1>1, <2>2, <2>3
  <2>5. d \in Occasions
    BY <1>3 DEF Occasions
  <2> QED
    BY <2>2, <2>4, <2>5 DEF Between
<1>4. CASE kind = "pipeline-output"
  <2>1. OutputDue(last, seen.upstream)
    BY <1>4 DEF ShouldFire
  <2>2. Ended(seen.upstream)
    <3>1. seen.upstream.phase = onPhase /\ onPhase # "Running"
      BY <1>4, <2>1 DEF OutputDue, OnStart
    <3>2. seen.upstream.phase \in Phase /\ onPhase \in OnPhase
      BY DEF TypeOK, Flow
    <3> QED
      BY <3>1, <3>2 DEF Phase, OnPhase, Ended
  <2>3. /\ flows[Upstream].phase = onPhase
        /\ flows[Upstream].completed <= clock
        /\ flows[Upstream].completed \in Time
        /\ flows[Upstream].completed # Never
    BY <2>1, <2>2, EventAssumption DEF OutputDue, CompletionSeen, Time, Never
  <2>4. flows[Upstream].completed > last
    BY <2>1, <2>2, <2>3 DEF OutputDue, CompletionSeen
  <2>5. PICK o \in Int : o = flows[Upstream].completed
    BY <2>3, EventNumbers
  <2>6. o \in Occasions
    BY <1>4, <2>3, <2>5 DEF Occasions
  <2>7. last < o /\ o <= clock
    BY <1>1, <2>3, <2>4, <2>5
  <2> QED
    BY <2>6, <2>7 DEF Between
<1> QED
  BY <1>2, <1>3, <1>4

(***************************************************************************)
(* A step that creates no flow leaves the runs apart, and not later.       *)
(***************************************************************************)
LEMMA NoNewRuns ==
  ASSUME TypeOK, CompletionSeen, [Next]_vars,
         \A n \in Dispatched : flows'[n].phase # "absent" =>
                                 flows[n].phase # "absent"
  PROVE  /\ Runs' = Runs
         /\ \A n \in Runs : flows'[n].firedAt = flows[n].firedAt
         /\ \A n, m \in Runs : Apart(n, m) => Apart(n, m)'
<1>1. Runs' = Runs /\ \A n \in Runs : flows'[n].firedAt = flows[n].firedAt
  BY FlowsStay DEF Runs
<1>2. ASSUME NEW n \in Runs, NEW m \in Runs, Apart(n, m)
      PROVE  Apart(n, m)'
  <2> SUFFICES ASSUME n # m, n[1] = m[1],
                      flows'[n].firedAt <= flows'[m].firedAt
               PROVE  \E o \in Occasions' : /\ flows'[n].firedAt < o
                                           /\ o <= flows'[m].firedAt
    BY DEF Apart, Between
  <2>1. PICK s, t : s = flows[n].firedAt /\ t = flows[m].firedAt
    OBVIOUS
  <2>2. flows'[n].firedAt = s /\ flows'[m].firedAt = t
    BY <1>1, <2>1
  <2>3. Between(s, t)
    BY <1>2, <2>1, <2>2 DEF Apart
  <2>4. \E o \in Occasions' : s < o /\ o <= t
    BY <2>3, CompletionStays DEF Between
  <2> QED
    BY <2>2, <2>4
<1> QED
  BY <1>1, <1>2

(***************************************************************************)
(* Each kind of quiet step keeps the invariant.                            *)
(***************************************************************************)
QuietInv == FiresAlone /\ FiresInOrder /\ (\A n, m \in Runs : Apart(n, m))

LEMMA AsideKeeps ==
  ASSUME TypeOK, CompletionSeen, QuietInv, [Next]_vars, StepsAside
  PROVE  QuietInv'
<1>1. /\ Runs' = Runs
      /\ \A n \in Runs : flows'[n].firedAt = flows[n].firedAt
      /\ \A n, m \in Runs : Apart(n, m) => Apart(n, m)'
  BY NoNewRuns DEF StepsAside
<1>2. UNCHANGED <<ev, act>> /\ evSeen' \in {evSeen, ev}
  BY DEF StepsAside
<1>3. FiresAlone'
  BY <1>2 DEF QuietInv, FiresAlone
<1>4. Between(ev.st.last, act[Reconciler].now)
        => Between(ev.st.last, act[Reconciler].now)'
  BY <1>2, CompletionStays DEF Between
<1>5. FiresInOrder'
  BY <1>1, <1>2, <1>4 DEF QuietInv, FiresInOrder, FiredUntil, OfThisFire
<1> QED
  BY <1>1, <1>3, <1>5 DEF QuietInv

LEMMA EndKeeps ==
  ASSUME TypeOK, CompletionSeen, QuietInv, [Next]_vars, EndsQuietly
  PROVE  QuietInv'
<1>1. /\ Runs' = Runs
      /\ \A n \in Runs : flows'[n].firedAt = flows[n].firedAt
      /\ \A n, m \in Runs : Apart(n, m) => Apart(n, m)'
  BY NoNewRuns DEF EndsQuietly
<1>2. act' = [act EXCEPT ![Reconciler] = Idle] /\ Idle.pc = "idle"
  BY DEF EndsQuietly, Idle
<1>3. act'[Reconciler].pc = "idle"
  BY <1>2, ConstantTypes DEF TypeOK
<1>4. \A r \in Request : act'[r].pc = "idle"
  BY <1>2 DEF QuietInv, FiresAlone, TypeOK, Actor
<1>5. FiresAlone'
  BY <1>3, <1>4 DEF QuietInv, FiresAlone, EndsQuietly
<1>6. FiredUntil(ev.st.last)'
  BY <1>1 DEF QuietInv, FiresInOrder, EndsQuietly, FiredUntil
<1>7. FiresInOrder'
  BY <1>3, <1>6 DEF FiresInOrder
<1> QED
  BY <1>1, <1>5, <1>7 DEF QuietInv

LEMMA BeginKeeps ==
  ASSUME TypeOK, CompletionSeen, QuietInv, [Next]_vars, BeginsQuietly,
         kind # "webhook", ~OnStart
  PROVE  QuietInv'
<1>0. Reconciler \in Actor /\ Reconciler \notin Request
  BY ConstantTypes, EventAssumption DEF Reconciler
<1>1. /\ Runs' = Runs
      /\ \A n \in Runs : flows'[n].firedAt = flows[n].firedAt
      /\ \A n, m \in Runs : Apart(n, m) => Apart(n, m)'
  BY NoNewRuns DEF BeginsQuietly
<1>2. /\ evSeen = ev /\ UNCHANGED <<ev, evSeen>>
      /\ act[Reconciler].pc = "idle"
  BY DEF BeginsQuietly, ReconcileFires, ReconcileWaits, Begin
<1>3. FiredUntil(ev.st.last)
  BY <1>2 DEF QuietInv, FiresInOrder
<1>4. ASSUME NEW l, act' = [act EXCEPT ![Reconciler] = l]
      PROVE  FiresAlone' /\ act'[Reconciler] = l
  <2>1. act'[Reconciler] = l
    BY <1>0, <1>4 DEF TypeOK
  <2>2. \A r \in Request : act'[r] = act[r]
    BY <1>0, <1>4 DEF TypeOK, Actor
  <2> QED
    BY <1>2, <2>1, <2>2 DEF QuietInv, FiresAlone
<1>5. \A n \in Runs : flows[n].firedAt \in Int
  BY EventNumbers DEF Runs, FlowName
<1>6. ev.st.last \in Int /\ clock \in Int
  BY EventNumbers
<1>7. CASE ReconcileFires
  <2> DEFINE skip == policy = "Forbid" /\ hasRunningFlow
             e == IF skip THEN [evSeen EXCEPT !.st = Fired(evSeen.st, clock)]
                  ELSE evSeen
             l == [pc |-> IF skip THEN "save" ELSE "fire", ev |-> e,
                   now |-> clock, k |-> 1]
  <2>1. Between(ev.st.last, clock)
    BY <1>2, <1>7, FiresForAnOccasion DEF ReconcileFires
  <2>2. act' = [act EXCEPT ![Reconciler] = l]
    BY <1>7 DEF ReconcileFires, StartFire
  <2>3. /\ l.now = clock
        /\ l.pc = IF skip THEN "save" ELSE "fire"
        /\ l.ev = e
    OBVIOUS
  <2>4. skip => e.st.last = clock
    <3>1. evSeen.st \in Status /\ clock \in Time \union {Never}
      BY DEF TypeOK, Event
    <3>2. Fired(evSeen.st, clock) \in Status
          /\ Fired(evSeen.st, clock).last = clock
      BY <3>1, FiredType
    <3>3. [evSeen EXCEPT !.st = Fired(evSeen.st, clock)].st
            = Fired(evSeen.st, clock)
      BY <3>2, EventWithStatus DEF TypeOK
    <3> QED
      BY <3>2, <3>3
  <2> HIDE DEF l, e, skip
  <2>5. FiresAlone' /\ act'[Reconciler] = l
    BY <1>4, <2>2
  <2>6. CASE skip
    <3>1. \A n \in Runs : flows[n].firedAt <= clock
      <4>1. PICK o \in Int : ev.st.last < o /\ o <= clock
        BY <2>1, EventNumbers DEF Between
      <4> QED
        BY <1>3, <1>5, <1>6, <4>1 DEF FiredUntil
    <3>2. act'[Reconciler].pc = "save" /\ act'[Reconciler].ev.st.last = clock
      BY <2>3, <2>4, <2>5, <2>6
    <3>3. FiresInOrder'
      BY <1>1, <3>1, <3>2 DEF FiresInOrder, FiredUntil
    <3> QED
      BY <1>1, <2>5, <3>3 DEF QuietInv
  <2>7. CASE ~skip
    <3>1. act'[Reconciler].pc = "fire" /\ act'[Reconciler].now = clock
      BY <2>3, <2>5, <2>7
    <3>2. \E o \in Occasions' : ev'.st.last < o /\ o <= clock
      BY <1>2, <2>1, CompletionStays DEF Between
    <3>3. Between(ev.st.last, act[Reconciler].now)'
      BY <3>1, <3>2 DEF Between
    <3>4. FiresInOrder'
      BY <1>1, <1>2, <1>3, <3>1, <3>3 DEF FiresInOrder, FiredUntil
    <3> QED
      BY <1>1, <2>5, <3>4 DEF QuietInv
  <2> QED
    BY <2>6, <2>7
<1>8. CASE ReconcileWaits
  <2> DEFINE l == [pc |-> "save", ev |-> evSeen, now |-> clock, k |-> 1]
  <2>1. act' = [act EXCEPT ![Reconciler] = l]
    BY <1>8 DEF ReconcileWaits
  <2>2. l.pc = "save" /\ l.ev = ev
    BY <1>2
  <2> HIDE DEF l
  <2>3. FiresAlone' /\ act'[Reconciler] = l
    BY <1>4, <2>1
  <2>4. act'[Reconciler].pc = "save" /\ act'[Reconciler].ev = ev
    BY <2>2, <2>3
  <2>5. FiresInOrder'
    BY <1>1, <1>3, <2>4 DEF FiresInOrder, FiredUntil
  <2> QED
    BY <1>1, <2>3, <2>5 DEF QuietInv
<1> QED
  BY <1>7, <1>8 DEF BeginsQuietly

LEMMA CreateKeeps ==
  ASSUME TypeOK, CompletionSeen, QuietInv, [Next]_vars,
         CreateFlow(Reconciler), DistinctTargets
  PROVE  QuietInv'
<1> DEFINE me == act[Reconciler]
           name == <<Targets[me.k], clock>>
<1>0. Reconciler \in Actor /\ Reconciler \notin Request
  BY ConstantTypes, EventAssumption DEF Reconciler
<1>1. /\ me \in Local /\ me.pc = "fire" /\ me.k \in DOMAIN Targets
      /\ me.k \in Nat
      /\ me.now \in Int /\ ev.st.last \in Int
      /\ \A n \in Runs : flows[n].firedAt \in Int
  BY <1>0, EventNumbers, EventAssumption
     DEF TypeOK, CreateFlow, Runs, FlowName
<1>2. /\ flows[name].phase = "absent"
      /\ flows' = [flows EXCEPT ![name] =
                     [NoFlow EXCEPT !.phase = "new", !.firedAt = me.now]]
      /\ UNCHANGED <<ev, evSeen>>
  BY DEF CreateFlow
<1>3. name \in Dispatched /\ name \in FlowName /\ name[1] = Targets[me.k]
  BY <1>1 DEF Dispatched, FlowName, TypeOK
<1>4. /\ flows'[name].phase = "new" /\ flows'[name].firedAt = me.now
      /\ \A n \in Dispatched \ {name} : flows'[n] = flows[n]
  <2>1. flows'[name] = [NoFlow EXCEPT !.phase = "new", !.firedAt = me.now]
    BY <1>2, <1>3 DEF TypeOK
  <2>2. \A n \in Dispatched \ {name} : flows'[n] = flows[n]
    BY <1>2 DEF TypeOK, FlowName
  <2> QED
    BY <2>1, <2>2 DEF NoFlow
<1>5. Runs' = Runs \union {name} /\ name \notin Runs
  BY <1>2, <1>3, <1>4 DEF Runs
<1>6. \A n \in Runs : flows'[n].firedAt = flows[n].firedAt
  BY FlowsStay
<1> HIDE DEF name
<1>7. PICK last \in Int, now \in Int : last = ev.st.last /\ now = me.now
  BY <1>1
<1>8. PICK o \in Occasions' : o \in Int /\ last < o /\ o <= now
  <2>1. Between(last, now)
    BY <1>1, <1>7 DEF QuietInv, FiresInOrder
  <2>2. Occasions \subseteq Int
    BY EventNumbers
  <2> QED
    BY <2>1, <2>2, CompletionStays DEF Between
<1>9. \A n \in Runs : flows[n].firedAt <= last \/ OfThisFire(n)
  BY <1>1, <1>7 DEF QuietInv, FiresInOrder
<1>10. \A n \in Runs' : flows'[n].firedAt <= now
  <2>1. \A n \in Runs : flows[n].firedAt <= now
    BY <1>1, <1>7, <1>8, <1>9 DEF OfThisFire
  <2>2. now <= now
    OBVIOUS
  <2> QED
    BY <1>4, <1>5, <1>6, <1>7, <2>1, <2>2
<1>11. ASSUME NEW n \in Runs, n[1] = name[1]
       PROVE  flows[n].firedAt <= last
  <2> SUFFICES ASSUME OfThisFire(n) PROVE FALSE
    BY <1>9
  <2>1. PICK j \in DOMAIN Targets : j < me.k /\ n[1] = Targets[j]
    BY DEF OfThisFire
  <2>2. j = me.k
    BY <1>1, <1>3, <1>11, <2>1 DEF DistinctTargets
  <2> QED
    BY <1>1, <2>1, <2>2
<1>12. ASSUME NEW n \in Runs', NEW m \in Runs' PROVE Apart(n, m)'
  <2> SUFFICES ASSUME n # m, n[1] = m[1],
                      flows'[n].firedAt <= flows'[m].firedAt
               PROVE  \E p \in Occasions' : /\ flows'[n].firedAt < p
                                            /\ p <= flows'[m].firedAt
    BY DEF Apart, Between
  <2>1. CASE n = name
    <3>1. m \in Runs
      BY <1>5, <2>1
    <3>2. PICK t \in Int : t = flows[m].firedAt
      BY <1>1, <3>1
    <3>3. t <= last
      BY <1>11, <2>1, <3>1, <3>2
    <3>4. now <= t
      BY <1>4, <1>6, <1>7, <2>1, <3>1, <3>2
    <3> QED
      BY <1>8, <3>3, <3>4
  <2>2. CASE m = name
    <3>1. n \in Runs
      BY <1>5, <2>2
    <3>2. PICK t \in Int : t = flows[n].firedAt
      BY <1>1, <3>1
    <3>3. t <= last
      BY <1>11, <2>2, <3>1, <3>2
    <3>4. flows'[n].firedAt = t /\ flows'[m].firedAt = now
      BY <1>4, <1>6, <1>7, <2>2, <3>1, <3>2
    <3>5. t < o
      BY <1>8, <3>3
    <3> QED
      BY <1>8, <3>4, <3>5
  <2>3. CASE n # name /\ m # name
    <3>1. n \in Runs /\ m \in Runs
      BY <1>5, <2>3
    <3>2. PICK p \in Occasions : flows[n].firedAt < p /\ p <= flows[m].firedAt
      BY <1>6, <3>1 DEF QuietInv, Apart, Between
    <3> QED
      BY <1>6, <3>1, <3>2, CompletionStays
  <2> QED
    BY <2>1, <2>2, <2>3
<1>13. ASSUME NEW l, act' = [act EXCEPT ![Reconciler] = l]
       PROVE  act'[Reconciler] = l /\ FiresAlone'
  <2>1. act'[Reconciler] = l
    BY <1>0, <1>13 DEF TypeOK
  <2>2. \A r \in Request : act'[r] = act[r]
    BY <1>0, <1>13 DEF TypeOK, Actor
  <2> QED
    BY <1>1, <1>2, <2>1, <2>2 DEF QuietInv, FiresAlone
<1>14. CASE LastTarget(me.k)
  <2> DEFINE st == Fired(me.ev.st, me.now)
             l == [me EXCEPT !.pc = "save", !.ev.st = st]
  <2>1. act' = [act EXCEPT ![Reconciler] = l]
    BY <1>14 DEF CreateFlow
  <2>2. st \in Status /\ st.last = me.now
    <3>1. me.ev.st \in Status /\ me.now \in Time \union {Never}
      BY <1>1 DEF Local, Event
    <3> QED
      BY <3>1, FiredType
  <2> HIDE DEF st
  <2>3. l.pc = "save" /\ l.ev.st = st
    BY <1>1 DEF Local, Event
  <2> HIDE DEF l
  <2>4. act'[Reconciler] = l /\ FiresAlone'
    BY <1>13, <2>1
  <2>5. act'[Reconciler].pc = "save" /\ act'[Reconciler].ev.st.last = now
    BY <1>7, <2>2, <2>3, <2>4
  <2>6. FiresInOrder'
    BY <1>10, <2>5 DEF FiresInOrder, FiredUntil
  <2> QED
    BY <1>12, <2>4, <2>6 DEF QuietInv
<1>15. CASE ~LastTarget(me.k)
  <2> DEFINE l == [me EXCEPT !.k = me.k + 1]
  <2>1. act' = [act EXCEPT ![Reconciler] = l]
    BY <1>15 DEF CreateFlow
  <2>2. l.pc = "fire" /\ l.now = now /\ l.k = me.k + 1
    BY <1>1, <1>7 DEF Local
  <2> HIDE DEF l
  <2>3. act'[Reconciler] = l /\ FiresAlone'
    BY <1>13, <2>1
  <2>4. /\ act'[Reconciler].pc = "fire" /\ act'[Reconciler].now = now
        /\ act'[Reconciler].k = me.k + 1
    BY <2>2, <2>3
  <2>5. Between(ev.st.last, act[Reconciler].now)'
    BY <1>2, <1>7, <1>8, <2>4 DEF Between
  <2>6. \A n \in Runs' : flows'[n].firedAt <= last \/ OfThisFire(n)'
    <3>1. ASSUME NEW n \in Runs, OfThisFire(n) PROVE OfThisFire(n)'
      <4>1. PICK j \in DOMAIN Targets : j < me.k /\ n[1] = Targets[j]
        BY <3>1 DEF OfThisFire
      <4>2. j < me.k + 1
        BY <1>1, <4>1, EventAssumption
      <4> QED
        BY <1>6, <1>7, <2>4, <3>1, <4>1, <4>2 DEF OfThisFire
    <3>2. ASSUME NEW n \in Runs', n = name PROVE OfThisFire(n)'
      <4>1. me.k < me.k + 1
        BY <1>1
      <4> QED
        BY <1>1, <1>3, <1>4, <1>7, <2>4, <3>2, <4>1 DEF OfThisFire
    <3> QED
      BY <1>5, <1>6, <1>9, <3>1, <3>2
  <2>7. FiresInOrder'
    BY <1>2, <1>7, <2>4, <2>5, <2>6 DEF FiresInOrder
  <2> QED
    BY <1>12, <2>3, <2>7 DEF QuietInv
<1> QED
  BY <1>14, <1>15

(***************************************************************************)
(* OncePerOccasion, of mostRecentSchedule and reconcilePipelineOutput: for *)
(* any schedule and any targets, without disruptions and names in use, and *)
(* unless the trigger is on the start of a flow (whose runs repeat), two   *)
(* runs of a target were fired for different occasions.  The targets are   *)
(* distinct: a template that is listed twice is dispatched twice by one    *)
(* fire, when the second creation comes a second after the first.          *)
(***************************************************************************)
THEOREM EventFiresOnce ==
  ASSUME DistinctTargets
  PROVE  Spec => []OncePerOccasion
<1>1. Init => OnceInv
  <2> SUFFICES ASSUME Init PROVE OnceInv
    OBVIOUS
  <2>1. /\ \A n \in FlowName : flows[n] = NoFlow
        /\ ev = NewEvent /\ evSeen = NewEvent
        /\ \A a \in Actor : act[a] = Idle
        /\ seen = Visible
    BY DEF Init
  <2>2. Runs = {}
    BY <2>1 DEF Runs, FlowName, NoFlow
  <2>3. CompletionSeen
    BY <2>1, ConstantTypes DEF CompletionSeen, Visible, NoFlow, Ended
  <2>4. Idle.pc = "idle" /\ NewEvent.suspended = FALSE
    BY DEF Idle, NewEvent
  <2>5. FiresAlone
    BY <2>1, <2>4 DEF FiresAlone, Actor
  <2>6. act[Reconciler].pc = "idle"
    BY <2>1, <2>4, ConstantTypes
  <2>7. FiresInOrder
    BY <2>2, <2>6 DEF FiresInOrder, FiredUntil
  <2> QED
    BY <2>2, <2>3, <2>5, <2>6, <2>7 DEF OnceInv
<1>2. TypeOK /\ OnceInv /\ [Next]_vars => OnceInv'
  <2> SUFFICES ASSUME TypeOK, OnceInv, [Next]_vars PROVE OnceInv'
    OBVIOUS
  <2>1. CompletionSeen /\ CompletionSeen'
    BY CompletionStays DEF OnceInv
  <2>2. act'[Reconciler].pc \in {"idle", "fire", "save"}
    BY ReconcilerPlaces DEF OnceInv
  <2>3. ASSUME Quiet' PROVE QuietInv'
    <3>1. /\ Quiet
          /\ \/ StepsAside \/ BeginsQuietly \/ EndsQuietly
             \/ CreateFlow(Reconciler)
      BY <2>3, QuietSteps
    <3>2. QuietInv /\ kind # "webhook" /\ ~OnStart
      BY <3>1 DEF OnceInv, QuietInv, Quiet
    <3> QED
      BY <2>1, <3>1, <3>2, AsideKeeps, BeginKeeps, EndKeeps, CreateKeeps
  <2> QED
    BY <2>1, <2>2, <2>3 DEF OnceInv, QuietInv
<1>3. OnceInv => OncePerOccasion
  BY DEF OnceInv, OncePerOccasion, Quiet, Apart, Between
<1> QED
  BY <1>1, <1>2, <1>3, EventTypes, PTL DEF Spec
=============================================================================
