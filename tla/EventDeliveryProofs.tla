------------------------- MODULE EventDeliveryProofs -------------------------
(***************************************************************************)
(* For any set of controllers and events and any number of failed enqueues *)
(* and crashes: a slot of a trigger is used once, and an event stamped as  *)
(* dispatched was put on the queue.                                        *)
(***************************************************************************)
EXTENDS EventDelivery, TLAPS

TrigType == [next : {"null", "future", "due"}, active : BOOLEAN, lock : Cron \cup {None}]
RowType  == [kind : {None, "cron", "webhook", "manual"}, stamped : BOOLEAN,
             failed : BOOLEAN, old : BOOLEAN, lock : Controllers \cup {None}]
CtlType  == [pc : Places, todo : SUBSET Events, done : SUBSET Events]
WebType  == [pc : {"idle", "inserted", "enqueued", "refused", "silent"},
             event : Events \cup {None}, acked : BOOLEAN]

LEMMA TypeOKDef ==
  TypeOK <=> /\ trig \in TrigType /\ owner \in {"served", "blocked"} /\ active \in BOOLEAN
             /\ event \in [Events -> RowType] /\ job \subseteq Events
             /\ ctl \in [Cron -> CtlType] /\ web \in WebType /\ faults \in 0..MaxFaults
             /\ queued \subseteq Events /\ ran \subseteq Events /\ swept \subseteq Events
BY DEF TypeOK, TrigType, RowType, CtlType, WebType

\* Nothing has happened: no event, no job, no claim.
LEMMA EventInit == Init => EventInv
<1> SUFFICES ASSUME Init PROVE EventInv
  OBVIOUS
<1>1. TypeOK
  <2>1. trig \in TrigType
    BY DEF Init, TrigType
  <2>2. event \in [Events -> RowType]
    BY DEF Init, RowType, NoEvent
  <2>3. ctl \in [Cron -> CtlType]
    BY DEF Init, CtlType, Idle, Places
  <2>4. web \in WebType
    BY DEF Init, WebType
  <2>5. QED
    BY <2>1, <2>2, <2>3, <2>4, EventAssumption, TypeOKDef DEF Init
<1>2. ClaimHoldsLock
  BY DEF Init, ClaimHoldsLock, At, Idle
<1>3. DoneWasQueued
  BY DEF Init, DoneWasQueued, At, Idle
<1>4. StampedWasQueued
  BY DEF Init, StampedWasQueued, NoEvent
<1>5. QED
  BY <1>1, <1>2, <1>3, <1>4 DEF EventInv

-----------------------------------------------------------------------------
(* Types, one step per variable *)

\* The trigger's row.
LEMMA TrigStep == EventInv /\ [Next]_vars => trig' \in TrigType
<1> SUFFICES ASSUME EventInv, [Next]_vars PROVE trig' \in TrigType
  OBVIOUS
<1>0. trig \in TrigType
  BY TypeOKDef DEF EventInv
<1>1. CASE trig' = trig
  BY <1>0, <1>1
<1>2. CASE SlotComesDue
  BY <1>0, <1>2 DEF SlotComesDue, TrigType
<1>3. ASSUME NEW c \in Cron, CronStep(c) PROVE trig' \in TrigType
  <2>1. CASE ClaimTrigger(c)
    BY <1>0, <2>1 DEF ClaimTrigger, TrigType
  <2>2. ASSUME NEW e \in Events, ProducerTick(c, e) PROVE trig' \in TrigType
    BY <1>0, <2>2 DEF ProducerTick, Fire, Advance, TrigType
  <2>3. CASE Deactivate(c)
    BY <1>0, <2>3 DEF Deactivate, TrigType
  <2>4. CASE Abort(c)
    BY <1>0, <2>4 DEF Abort, TrigType
  <2>5. QED
    BY <1>1, <1>3, <2>1, <2>2, <2>3, <2>4 DEF CronStep, EnqueueOne, EnqueueFails
<1>4. ASSUME NEW e \in Events, GatewayTick(e) PROVE trig' \in TrigType
  BY <1>0, <1>4 DEF GatewayTick, Fire, Advance, TrigType
<1>5. ASSUME NEW c \in Cron, RecoveryStep(c) PROVE trig' = trig
  BY <1>5 DEF RecoveryStep, SweepSelect, SweepStamp, DrainSelect, DrainOne, DrainFails, DrainCommit
<1>6. ASSUME NEW e \in Events, ManualRun(e) \/ RunJob(e) \/ GraceEnds(e) PROVE trig' = trig
  BY <1>6 DEF ManualRun, RunJob, GraceEnds
<1>7. CASE WebhookStep \/ Pause
  BY <1>1, <1>7 DEF WebhookStep, WebhookInsert, WebhookReplay, WebhookEnqueue, WebhookStamp,
     WebhookFails, WebhookCrash, Pause
<1>8. CASE UNCHANGED vars
  BY <1>1, <1>8 DEF vars
<1>9. QED
  BY <1>1, <1>2, <1>3, <1>4, <1>5, <1>6, <1>7, <1>8 DEF Next

\* The events' rows.
LEMMA RowsStep == EventInv /\ [Next]_vars => event' \in [Events -> RowType]
<1> SUFFICES ASSUME EventInv, [Next]_vars PROVE event' \in [Events -> RowType]
  OBVIOUS
<1>0. event \in [Events -> RowType] /\ ctl \in [Cron -> CtlType] /\ web \in WebType
  BY TypeOKDef DEF EventInv
<1>1. CASE event' = event
  BY <1>0, <1>1
<1>i. ASSUME NEW e \in Events, NEW k \in {"cron", "webhook", "manual"}, Insert(e, k)
      PROVE  event' \in [Events -> RowType]
  <2>1. [NoEvent EXCEPT !.kind = k] \in RowType
    BY DEF NoEvent, RowType
  <2>2. QED
    BY <1>0, <1>i, <2>1 DEF Insert
<1>2. ASSUME NEW c \in Cron, CronStep(c) PROVE event' \in [Events -> RowType]
  <2>1. ASSUME NEW e \in Events, ProducerTick(c, e) PROVE event' \in [Events -> RowType]
    <3>1. [NoEvent EXCEPT !.kind = "cron", !.stamped = TRUE, !.failed = TRUE] \in RowType
      BY DEF NoEvent, RowType
    <3>2. QED
      BY <1>0, <1>1, <1>i, <2>1, <3>1 DEF ProducerTick, Fire
  <2>2. CASE Abort(c)
    <3>1. \A e \in Events : event[e] \in RowType /\ [event[e] EXCEPT !.lock = None] \in RowType
      BY <1>0 DEF RowType
    <3>2. QED
      BY <2>2, <3>1 DEF Abort
  <2>3. QED
    BY <1>1, <1>2, <2>1, <2>2 DEF CronStep, EnqueueOne, EnqueueFails, ClaimTrigger, Deactivate
<1>3. ASSUME NEW e \in Events, GatewayTick(e) \/ ManualRun(e) \/ RunJob(e) \/ GraceEnds(e)
      PROVE  event' \in [Events -> RowType]
  <2>1. [event[e] EXCEPT !.old = TRUE] \in RowType
    BY <1>0 DEF RowType
  <2>2. QED
    BY <1>0, <1>1, <1>i, <1>3, <2>1 DEF GatewayTick, Fire, ManualRun, RunJob, GraceEnds
<1>4. ASSUME NEW c \in Cron, RecoveryStep(c) PROVE event' \in [Events -> RowType]
  <2>1. CASE SweepStamp(c)
    <3>1. \A e \in Events : event[e] \in RowType /\ [event[e] EXCEPT !.stamped = TRUE] \in RowType
      BY <1>0 DEF RowType
    <3>2. QED
      BY <2>1, <3>1 DEF SweepStamp
  <2>2. CASE DrainSelect(c)
    <3>1. c \in Controllers
      BY <2>2 DEF DrainSelect
    <3>2. \A e \in Events : event[e] \in RowType /\ [event[e] EXCEPT !.lock = c] \in RowType
      BY <1>0, <3>1 DEF RowType
    <3>3. QED
      BY <2>2, <3>2 DEF DrainSelect
  <2>3. CASE DrainCommit(c)
    <3>1. \A e \in Events : \A s, f \in BOOLEAN : event[e] \in RowType
             /\ [event[e] EXCEPT !.lock = None, !.stamped = s, !.failed = f] \in RowType
      BY <1>0 DEF RowType
    <3>2. \A e \in Events : (e \in ctl[c].done) \in BOOLEAN /\ (e \notin ctl[c].done) \in BOOLEAN
      OBVIOUS
    <3>3. \A e \in Events : event[e] \in RowType
             /\ [event[e] EXCEPT !.lock = None, !.stamped = e \in ctl[c].done,
                                 !.failed = e \notin ctl[c].done] \in RowType
      BY <3>1, <3>2
    <3>4. QED
      BY <2>3, <3>3 DEF DrainCommit
  <2>4. QED
    BY <1>1, <1>4, <2>1, <2>2, <2>3 DEF RecoveryStep, SweepSelect, DrainOne, DrainFails
<1>5. CASE WebhookStep
  <2>0. \A e \in Events : /\ [event[e] EXCEPT !.stamped = TRUE] \in RowType
                          /\ [event[e] EXCEPT !.failed = TRUE] \in RowType
    BY <1>0 DEF RowType
  <2>1. CASE WebhookStamp
    <3>1. web.event \in Events
      BY <2>1 DEF WebhookStamp, EventInv, DoneWasQueued
    <3>2. QED
      BY <1>0, <2>0, <2>1, <3>1 DEF WebhookStamp
  <2>2. CASE WebhookFails
    <3>1. web.event \in Events
      BY <2>2 DEF WebhookFails, EventInv, DoneWasQueued
    <3>2. QED
      BY <1>0, <2>0, <2>2, <3>1 DEF WebhookFails
  <2>3. QED
    BY <1>1, <1>i, <1>5, <2>1, <2>2 DEF WebhookStep, WebhookInsert, WebhookReplay,
       WebhookEnqueue, WebhookCrash
<1>6. CASE SlotComesDue \/ Pause \/ UNCHANGED vars
  BY <1>1, <1>6 DEF SlotComesDue, Pause, vars
<1>7. QED
  BY <1>2, <1>3, <1>4, <1>5, <1>6 DEF Next

\* The producers and sweepers.
LEMMA CtlStep == EventInv /\ [Next]_vars => ctl' \in [Cron -> CtlType]
<1> SUFFICES ASSUME EventInv, [Next]_vars PROVE ctl' \in [Cron -> CtlType]
  OBVIOUS
<1>0. ctl \in [Cron -> CtlType]
  BY TypeOKDef DEF EventInv
<1>1. CASE ctl' = ctl
  BY <1>0, <1>1
<1>a. ASSUME NEW c \in Cron, NEW E \in SUBSET Events, Advance(c, E) PROVE ctl' \in [Cron -> CtlType]
  BY <1>0, <1>a DEF Advance, CtlType, Places
<1>2. ASSUME NEW c \in Cron, CronStep(c) PROVE ctl' \in [Cron -> CtlType]
  <2>1. CASE ClaimTrigger(c)
    BY <1>0, <2>1 DEF ClaimTrigger, CtlType, Places
  <2>2. ASSUME NEW e \in Events, ProducerTick(c, e) PROVE ctl' \in [Cron -> CtlType]
    BY <1>a, <2>2 DEF ProducerTick, Fire
  <2>3. ASSUME NEW e \in Events, EnqueueOne(c, e) PROVE ctl' \in [Cron -> CtlType]
    BY <1>0, <2>3 DEF EnqueueOne, CtlType, Places
  <2>4. ASSUME NEW e \in Events, EnqueueFails(c, e) PROVE ctl' \in [Cron -> CtlType]
    BY <1>0, <2>4 DEF EnqueueFails, CtlType, Places
  <2>5. CASE Deactivate(c) \/ Abort(c)
    <3>1. Idle \in CtlType /\ [Idle EXCEPT !.pc = "elected"] \in CtlType
      BY DEF Idle, CtlType, Places
    <3>2. QED
      BY <1>0, <2>5, <3>1 DEF Deactivate, Abort
  <2>6. QED
    BY <1>2, <2>1, <2>2, <2>3, <2>4, <2>5 DEF CronStep
<1>3. ASSUME NEW e \in Events, GatewayTick(e) \/ ManualRun(e) \/ RunJob(e) \/ GraceEnds(e)
      PROVE  ctl' \in [Cron -> CtlType]
  BY <1>1, <1>a, <1>3 DEF GatewayTick, Fire, ManualRun, RunJob, GraceEnds, Cron
<1>4. ASSUME NEW c \in Cron, RecoveryStep(c) PROVE ctl' \in [Cron -> CtlType]
  <2>1. CASE SweepSelect(c)
    <3>1. PICK E \in SUBSET Events :
            ctl' = [ctl EXCEPT ![c].pc = IF E = {} THEN "idle" ELSE "stamp", ![c].todo = E]
      BY <2>1 DEF SweepSelect
    <3>2. QED
      BY <1>0, <3>1 DEF CtlType, Places
  <2>2. CASE SweepStamp(c)
    BY <1>0, <2>2 DEF SweepStamp, CtlType, Places
  <2>3. CASE DrainSelect(c)
    <3>1. PICK E \in SUBSET Events :
            ctl' = [ctl EXCEPT ![c].pc = "drain", ![c].todo = E, ![c].done = {}]
      BY <2>3 DEF DrainSelect
    <3>2. QED
      BY <1>0, <3>1 DEF CtlType, Places
  <2>4. ASSUME NEW e \in Events, DrainOne(c, e) \/ DrainFails(c, e) PROVE ctl' \in [Cron -> CtlType]
    BY <1>0, <2>4 DEF DrainOne, DrainFails, CtlType
  <2>5. CASE DrainCommit(c)
    BY <1>0, <2>5 DEF DrainCommit, CtlType, Idle, Places
  <2>6. QED
    BY <1>4, <2>1, <2>2, <2>3, <2>4, <2>5 DEF RecoveryStep
<1>5. CASE WebhookStep \/ SlotComesDue \/ Pause \/ UNCHANGED vars
  BY <1>1, <1>5 DEF WebhookStep, WebhookInsert, WebhookReplay, WebhookEnqueue, WebhookStamp,
     WebhookFails, WebhookCrash, SlotComesDue, Pause, vars
<1>6. QED
  BY <1>2, <1>3, <1>4, <1>5 DEF Next

\* The webhook's caller and handler, the queue and the counters.
LEMMA WebStep ==
  EventInv /\ [Next]_vars =>
    /\ web' \in WebType /\ owner' = owner /\ active' \in BOOLEAN /\ faults' \in 0..MaxFaults
    /\ job' \subseteq Events /\ queued' \subseteq Events /\ ran' \subseteq Events
    /\ swept' \subseteq Events /\ queued \subseteq queued' /\ swept \subseteq swept'
<1> DEFINE Goal == /\ web' \in WebType /\ owner' = owner /\ active' \in BOOLEAN
                   /\ faults' \in 0..MaxFaults
                   /\ job' \subseteq Events /\ queued' \subseteq Events /\ ran' \subseteq Events
                   /\ swept' \subseteq Events /\ queued \subseteq queued' /\ swept \subseteq swept'
<1> SUFFICES ASSUME EventInv, [Next]_vars PROVE Goal
  OBVIOUS
<1>0. /\ web \in WebType /\ active \in BOOLEAN /\ faults \in 0..MaxFaults /\ job \subseteq Events
      /\ queued \subseteq Events /\ ran \subseteq Events /\ swept \subseteq Events
      /\ ctl \in [Cron -> CtlType]
  BY TypeOKDef DEF EventInv
<1>u. ASSUME UNCHANGED <<web, owner, active, ran>>,
             faults' = faults \/ (faults < MaxFaults /\ faults' = faults + 1),
             NEW E \in SUBSET Events, job' = job \cup E, queued' = queued \cup E,
             swept' \subseteq Events, swept \subseteq swept'
      PROVE  Goal
  <2>1. faults' \in 0..MaxFaults
    BY <1>0, <1>u, EventAssumption
  <2>2. QED
    BY <1>0, <1>u, <2>1
<1>p. ASSUME (job' = job /\ queued' = queued) \/ \E e \in Events : Put({e})
      PROVE  \E E \in SUBSET Events : job' = job \cup E /\ queued' = queued \cup E
  <2>1. CASE job' = job /\ queued' = queued
    <3>1. job' = job \cup {} /\ queued' = queued \cup {}
      BY <2>1
    <3>2. QED
      BY <3>1
  <2>2. ASSUME NEW e \in Events, Put({e})
        PROVE  \E E \in SUBSET Events : job' = job \cup E /\ queued' = queued \cup E
    <3>1. {e} \in SUBSET Events
      OBVIOUS
    <3>2. QED
      BY <2>2, <3>1 DEF Put
  <2>3. QED
    BY <1>p, <2>1, <2>2
<1>1. ASSUME NEW c \in Cron, CronStep(c) PROVE Goal
  <2>0. (job' = job /\ queued' = queued) \/ \E e \in Events : Put({e})
    BY <1>1 DEF CronStep, ClaimTrigger, ProducerTick, Fire, Advance, EnqueueOne, EnqueueFails,
       Deactivate, Abort, seen
  <2>1. PICK E \in SUBSET Events : job' = job \cup E /\ queued' = queued \cup E
    BY <1>p, <2>0
  <2>2. /\ UNCHANGED <<web, owner, active, ran, swept>>
        /\ faults' = faults \/ (faults < MaxFaults /\ faults' = faults + 1)
    BY <1>1 DEF CronStep, ClaimTrigger, ProducerTick, Fire, Advance, EnqueueOne, EnqueueFails,
       Deactivate, Abort, seen
  <2>3. QED
    BY <1>0, <1>u, <2>1, <2>2
<1>2. ASSUME NEW c \in Cron, RecoveryStep(c) PROVE Goal
  <2>0. (job' = job /\ queued' = queued) \/ \E e \in Events : Put({e})
    BY <1>2 DEF RecoveryStep, SweepSelect, SweepStamp, DrainSelect, DrainOne, DrainFails,
       DrainCommit, seen
  <2>1. PICK E \in SUBSET Events : job' = job \cup E /\ queued' = queued \cup E
    BY <1>p, <2>0
  <2>2. /\ UNCHANGED <<web, owner, active, ran>>
        /\ faults' = faults \/ (faults < MaxFaults /\ faults' = faults + 1)
    BY <1>2 DEF RecoveryStep, SweepSelect, SweepStamp, DrainSelect, DrainOne, DrainFails,
       DrainCommit, seen
  <2>3. swept' \subseteq Events /\ swept \subseteq swept'
    BY <1>0, <1>2 DEF RecoveryStep, SweepSelect, SweepStamp, DrainSelect, DrainOne, DrainFails,
       DrainCommit, seen, CtlType
  <2>4. QED
    BY <1>u, <2>1, <2>2, <2>3
<1>3. ASSUME NEW e \in Events, GatewayTick(e) \/ ManualRun(e) \/ RunJob(e) \/ GraceEnds(e) PROVE Goal
  BY <1>0, <1>3, EventAssumption DEF GatewayTick, Fire, Advance, ManualRun, RunJob, GraceEnds, seen
<1>4. CASE WebhookStep
  <2>1. ASSUME NEW e \in Events, WebhookInsert(e) PROVE Goal
    BY <1>0, <2>1 DEF WebhookInsert, WebType, seen
  <2>2. CASE WebhookReplay
    BY <1>0, <2>2 DEF WebhookReplay, WebType, seen
  <2>3. CASE WebhookEnqueue
    BY <1>0, <2>3 DEF WebhookEnqueue, WebType, Put, EventInv, DoneWasQueued
  <2>4. CASE WebhookStamp
    BY <1>0, <2>4 DEF WebhookStamp, WebType, seen
  <2>5. CASE WebhookFails
    BY <1>0, <2>5, EventAssumption DEF WebhookFails, WebType, Put, EventInv, DoneWasQueued
  <2>6. CASE WebhookCrash
    BY <1>0, <2>6, EventAssumption DEF WebhookCrash, WebType, seen
  <2>7. QED
    BY <1>4, <2>1, <2>2, <2>3, <2>4, <2>5, <2>6 DEF WebhookStep
<1>5. CASE SlotComesDue \/ Pause \/ UNCHANGED vars
  BY <1>0, <1>5 DEF SlotComesDue, Pause, vars, seen
<1>6. QED
  BY <1>1, <1>2, <1>3, <1>4, <1>5 DEF Next

LEMMA EventTypeStep == EventInv /\ [Next]_vars => TypeOK'
<1> SUFFICES ASSUME EventInv, [Next]_vars PROVE TypeOK'
  OBVIOUS
<1>1. owner \in {"served", "blocked"}
  BY DEF EventInv, TypeOK
<1>2. QED
  BY <1>1, TrigStep, RowsStep, CtlStep, WebStep DEF TypeOK, TrigType, RowType, CtlType, WebType

-----------------------------------------------------------------------------
(* The claims *)

\* The row lock admits one claim at a time, and only its tick moves the trigger.
LEMMA ClaimStep == EventInv /\ [Next]_vars => ClaimHoldsLock'
<1> SUFFICES ASSUME EventInv, [Next]_vars PROVE ClaimHoldsLock'
  OBVIOUS
<1>0. /\ trig \in TrigType /\ ctl \in [Cron -> CtlType]
      /\ \A c \in Cron : c # None
      /\ \A c \in Cron : At(c, "claimed") => trig.lock = c /\ trig.next # "future"
  BY TypeOKDef, EventAssumption DEF EventInv, Cron, Gateway, ClaimHoldsLock
<1>1. ASSUME trig' = trig,
             \A c \in Cron : ctl'[c].pc = "claimed" => ctl[c].pc = "claimed"
      PROVE  ClaimHoldsLock'
  BY <1>0, <1>1 DEF ClaimHoldsLock, At
<1>2. ASSUME NEW c \in Cron, At(c, "claimed"), ctl'[c].pc # "claimed",
             \A d \in Cron \ {c} : ctl'[d] = ctl[d]
      PROVE  ClaimHoldsLock'
  BY <1>0, <1>2 DEF ClaimHoldsLock, At
<1>3. CASE SlotComesDue
  BY <1>0, <1>3 DEF SlotComesDue, ClaimHoldsLock, At
<1>4. ASSUME NEW c \in Cron, NEW E \in SUBSET Events, Advance(c, E) PROVE ClaimHoldsLock'
  BY <1>0, <1>2, <1>4 DEF Advance, CtlType
<1>5. ASSUME NEW c \in Cron, CronStep(c) PROVE ClaimHoldsLock'
  <2>1. CASE ClaimTrigger(c)
    BY <1>0, <2>1 DEF ClaimTrigger, ClaimHoldsLock, At, TrigType, CtlType
  <2>2. ASSUME NEW e \in Events, ProducerTick(c, e) PROVE ClaimHoldsLock'
    BY <1>4, <2>2 DEF ProducerTick, Fire
  <2>3. ASSUME NEW e \in Events, EnqueueOne(c, e) \/ EnqueueFails(c, e) PROVE ClaimHoldsLock'
    BY <1>0, <1>1, <2>3 DEF EnqueueOne, EnqueueFails, At, CtlType
  <2>4. CASE Deactivate(c)
    BY <1>0, <1>2, <2>4 DEF Deactivate, Idle
  <2>5. CASE Abort(c)
    <3>1. ctl'[c].pc # "claimed" /\ \A d \in Cron \ {c} : ctl'[d] = ctl[d]
      BY <1>0, <2>5 DEF Abort, Idle
    <3>2. CASE At(c, "claimed")
      BY <1>2, <3>1, <3>2
    <3>3. CASE ~At(c, "claimed")
      <4>1. \A d \in Cron \ {c} : At(d, "claimed") => trig'.lock = d /\ trig'.next # "future"
        BY <1>0, <2>5 DEF Abort
      <4>2. QED
        BY <3>1, <4>1 DEF ClaimHoldsLock, At
    <3>4. QED
      BY <3>2, <3>3
  <2>6. QED
    BY <1>5, <2>1, <2>2, <2>3, <2>4, <2>5 DEF CronStep
<1>6. ASSUME NEW c \in Cron, RecoveryStep(c) PROVE ClaimHoldsLock'
  <2>1. trig' = trig
    BY <1>6 DEF RecoveryStep, SweepSelect, SweepStamp, DrainSelect, DrainOne, DrainFails, DrainCommit
  <2>2. \A d \in Cron : ctl'[d].pc = "claimed" => ctl[d].pc = "claimed"
    <3>1. CASE SweepSelect(c)
      <4>1. PICK E : ctl' = [ctl EXCEPT ![c].pc = IF E = {} THEN "idle" ELSE "stamp",
                                        ![c].todo = E]
        BY <3>1 DEF SweepSelect
      <4>2. QED
        BY <1>0, <4>1 DEF CtlType
    <3>2. CASE DrainSelect(c)
      <4>1. PICK E : ctl' = [ctl EXCEPT ![c].pc = "drain", ![c].todo = E, ![c].done = {}]
        BY <3>2 DEF DrainSelect
      <4>2. ctl'[c].pc = "drain" /\ \A d \in Cron \ {c} : ctl'[d] = ctl[d]
        BY <1>0, <4>1 DEF CtlType
      <4>3. QED
        BY <4>2
    <3>3. CASE SweepStamp(c) \/ DrainCommit(c)
      <4>1. ctl' = [ctl EXCEPT ![c].pc = "enqueue"] \/ ctl' = [ctl EXCEPT ![c] = Idle]
        BY <3>3 DEF SweepStamp, DrainCommit
      <4>2. QED
        BY <1>0, <4>1 DEF CtlType, Idle
    <3>4. ASSUME NEW e \in Events, DrainOne(c, e) \/ DrainFails(c, e)
          PROVE  \A d \in Cron : ctl'[d].pc = ctl[d].pc
      BY <1>0, <3>4 DEF DrainOne, DrainFails, CtlType
    <3>5. QED
      BY <1>6, <3>1, <3>2, <3>3, <3>4 DEF RecoveryStep
  <2>3. QED
    BY <1>1, <2>1, <2>2
<1>7. ASSUME NEW e \in Events, GatewayTick(e) \/ ManualRun(e) \/ RunJob(e) \/ GraceEnds(e)
      PROVE  ClaimHoldsLock'
  BY <1>1, <1>4, <1>7 DEF GatewayTick, Fire, ManualRun, RunJob, GraceEnds, Cron
<1>8. CASE WebhookStep \/ Pause \/ UNCHANGED vars
  BY <1>1, <1>8 DEF WebhookStep, WebhookInsert, WebhookReplay, WebhookEnqueue, WebhookStamp,
     WebhookFails, WebhookCrash, Pause, vars
<1>9. QED
  BY <1>3, <1>5, <1>6, <1>7, <1>8 DEF Next

-----------------------------------------------------------------------------
(* The stamps *)

\* Who will stamp an event has put its job.
LEMMA DoneStep == EventInv /\ [Next]_vars => DoneWasQueued'
<1> SUFFICES ASSUME EventInv, [Next]_vars PROVE DoneWasQueued'
  OBVIOUS
<1>0. /\ ctl \in [Cron -> CtlType] /\ web \in WebType
      /\ \A c \in Cron : At(c, "drain") => ctl[c].done \subseteq queued
      /\ queued \subseteq queued'
  BY TypeOKDef, WebStep DEF EventInv, DoneWasQueued
<1>1. ASSUME \A c \in Cron : ctl'[c].pc = "drain" => ctl'[c].done \subseteq queued',
             web' = web
      PROVE  DoneWasQueued'
  BY <1>0, <1>1 DEF EventInv, DoneWasQueued, At
<1>c. ASSUME NEW c \in Cron, ctl'[c].pc = "drain" => ctl'[c].done \subseteq queued',
             \A d \in Cron \ {c} : ctl'[d] = ctl[d], web' = web
      PROVE  DoneWasQueued'
  BY <1>0, <1>1, <1>c DEF At
<1>2. ASSUME NEW c \in Cron, NEW E, Advance(c, E) PROVE DoneWasQueued'
  BY <1>0, <1>c, <1>2 DEF Advance, CtlType
<1>3. ASSUME NEW c \in Cron, CronStep(c) PROVE DoneWasQueued'
  <2>1. ASSUME NEW e \in Events, ProducerTick(c, e) PROVE DoneWasQueued'
    BY <1>2, <2>1 DEF ProducerTick, Fire
  <2>2. CASE ClaimTrigger(c)
    BY <1>0, <1>c, <2>2 DEF ClaimTrigger, CtlType
  <2>3. ASSUME NEW e \in Events, EnqueueOne(c, e) \/ EnqueueFails(c, e) PROVE DoneWasQueued'
    BY <1>0, <1>c, <2>3 DEF EnqueueOne, EnqueueFails, At, CtlType
  <2>4. CASE Deactivate(c) \/ Abort(c)
    BY <1>0, <1>c, <2>4 DEF Deactivate, Abort, Idle
  <2>5. QED
    BY <1>3, <2>1, <2>2, <2>3, <2>4 DEF CronStep
<1>4. ASSUME NEW c \in Cron, RecoveryStep(c) PROVE DoneWasQueued'
  <2>1. CASE SweepSelect(c)
    <3>1. PICK E : ctl' = [ctl EXCEPT ![c].pc = IF E = {} THEN "idle" ELSE "stamp",
                                      ![c].todo = E]
      BY <2>1 DEF SweepSelect
    <3>2. ctl'[c].pc # "drain" /\ \A d \in Cron \ {c} : ctl'[d] = ctl[d]
      BY <1>0, <3>1 DEF CtlType
    <3>3. QED
      BY <1>c, <2>1, <3>2 DEF SweepSelect
  <2>2. CASE SweepStamp(c)
    BY <1>0, <1>c, <2>2 DEF SweepStamp, CtlType
  <2>3. CASE DrainSelect(c)
    BY <1>0, <1>c, <2>3 DEF DrainSelect, CtlType
  <2>4. ASSUME NEW e \in Events, DrainOne(c, e) \/ DrainFails(c, e) PROVE DoneWasQueued'
    <3>1. /\ ctl'[c].done \subseteq ctl[c].done \cup {e}
          /\ \A d \in Cron \ {c} : ctl'[d] = ctl[d]
          /\ web' = web /\ At(c, "drain")
      BY <1>0, <2>4 DEF DrainOne, DrainFails, CtlType
    <3>2. DrainOne(c, e) => e \in queued'
      BY DEF DrainOne, Put
    <3>3. DrainFails(c, e) => ctl'[c].done = ctl[c].done
      BY <1>0 DEF DrainFails, CtlType
    <3>4. QED
      BY <1>0, <1>c, <2>4, <3>1, <3>2, <3>3
  <2>5. CASE DrainCommit(c)
    BY <1>0, <1>c, <2>5 DEF DrainCommit, Idle
  <2>6. QED
    BY <1>4, <2>1, <2>2, <2>3, <2>4, <2>5 DEF RecoveryStep
<1>5. ASSUME NEW e \in Events, GatewayTick(e) \/ ManualRun(e) \/ RunJob(e) \/ GraceEnds(e)
      PROVE  DoneWasQueued'
  BY <1>0, <1>1, <1>2, <1>5 DEF GatewayTick, Fire, ManualRun, RunJob, GraceEnds, Cron, At
<1>6. CASE WebhookStep
  <2>1. ctl' = ctl
    BY <1>6 DEF WebhookStep, WebhookInsert, WebhookReplay, WebhookEnqueue, WebhookStamp,
       WebhookFails, WebhookCrash
  <2>2. /\ web'.pc \in {"inserted", "enqueued"} => web'.event \in Events
        /\ web'.pc = "enqueued" => web'.event \in queued'
    BY <1>0, <1>6 DEF WebhookStep, WebhookInsert, WebhookReplay, WebhookEnqueue, WebhookStamp,
       WebhookFails, WebhookCrash, WebType, Put, EventInv, DoneWasQueued
  <2>3. QED
    BY <1>0, <2>1, <2>2 DEF DoneWasQueued, At
<1>7. CASE SlotComesDue \/ Pause \/ UNCHANGED vars
  BY <1>0, <1>1, <1>7 DEF SlotComesDue, Pause, vars, At
<1>8. QED
  BY <1>3, <1>4, <1>5, <1>6, <1>7 DEF Next

\* A stamp is written only for an event whose job was put, by sweep_on_acquire, or
\* together with the failure.
LEMMA StampStep == EventInv /\ [Next]_vars => StampedWasQueued'
<1> SUFFICES ASSUME EventInv, [Next]_vars PROVE StampedWasQueued'
  OBVIOUS
<1>0. /\ event \in [Events -> RowType] /\ ctl \in [Cron -> CtlType] /\ web \in WebType
      /\ queued \subseteq queued' /\ swept \subseteq swept'
      /\ \A e \in Events : event[e].stamped /\ ~event[e].failed => e \in queued \cup swept
  BY TypeOKDef, WebStep DEF EventInv, StampedWasQueued
<1>1. ASSUME \A e \in Events : /\ event'[e].stamped /\ ~event'[e].failed
                               => \/ event[e].stamped /\ ~event[e].failed
                                  \/ e \in queued' \cup swept'
      PROVE  StampedWasQueued'
  BY <1>0, <1>1 DEF StampedWasQueued
<1>2. CASE event' = event
  BY <1>1, <1>2
<1>i. ASSUME NEW e \in Events, NEW k, Insert(e, k) PROVE StampedWasQueued'
  <2>1. ~event'[e].stamped /\ \A f \in Events \ {e} : event'[f] = event[f]
    BY <1>0, <1>i DEF Insert, NoEvent
  <2>2. QED
    BY <1>1, <2>1
<1>3. ASSUME NEW c \in Cron, CronStep(c) PROVE StampedWasQueued'
  <2>1. ASSUME NEW e \in Events, ProducerTick(c, e) PROVE StampedWasQueued'
    <3>1. CASE event' = [event EXCEPT ![e] = [NoEvent EXCEPT !.kind = "cron",
                                                !.stamped = TRUE, !.failed = TRUE]]
      <4>1. event'[e].failed /\ \A f \in Events \ {e} : event'[f] = event[f]
        BY <1>0, <3>1 DEF NoEvent
      <4>2. QED
        BY <1>1, <4>1
    <3>2. QED
      BY <1>2, <1>i, <2>1, <3>1 DEF ProducerTick, Fire
  <2>2. CASE Abort(c)
    <3>1. \A e \in Events : event'[e].stamped = event[e].stamped /\ event'[e].failed = event[e].failed
      BY <1>0, <2>2 DEF Abort, RowType
    <3>2. QED
      BY <1>1, <3>1
  <2>3. QED
    BY <1>2, <1>3, <2>1, <2>2 DEF CronStep, ClaimTrigger, EnqueueOne, EnqueueFails, Deactivate
<1>4. ASSUME NEW c \in Cron, RecoveryStep(c) PROVE StampedWasQueued'
  <2>1. CASE SweepStamp(c)
    <3>1. \A e \in Events : event'[e].failed = event[e].failed
             /\ (event'[e].stamped => event[e].stamped \/ e \in swept')
      BY <1>0, <2>1 DEF SweepStamp, RowType
    <3>2. QED
      BY <1>1, <3>1
  <2>2. CASE DrainSelect(c)
    <3>1. \A e \in Events : event'[e].stamped = event[e].stamped /\ event'[e].failed = event[e].failed
      BY <1>0, <2>2 DEF DrainSelect, RowType
    <3>2. QED
      BY <1>1, <3>1
  <2>3. CASE DrainCommit(c)
    <3>1. ctl[c].done \subseteq queued /\ queued' = queued
      BY <2>3 DEF DrainCommit, EventInv, DoneWasQueued, seen
    <3>2. \A e \in Events : event'[e] = event[e] \/ event'[e].stamped = (e \in ctl[c].done)
      BY <1>0, <2>3 DEF DrainCommit, RowType
    <3>3. QED
      BY <1>1, <3>1, <3>2
  <2>4. QED
    BY <1>2, <1>4, <2>1, <2>2, <2>3 DEF RecoveryStep, SweepSelect, DrainOne, DrainFails
<1>5. ASSUME NEW e \in Events, GatewayTick(e) \/ ManualRun(e) \/ RunJob(e) \/ GraceEnds(e)
      PROVE  StampedWasQueued'
  <2>1. CASE GraceEnds(e)
    <3>1. \A f \in Events : event'[f].stamped = event[f].stamped /\ event'[f].failed = event[f].failed
      BY <1>0, <2>1 DEF GraceEnds, RowType
    <3>2. QED
      BY <1>1, <3>1
  <2>2. QED
    BY <1>2, <1>i, <1>5, <2>1 DEF GatewayTick, Fire, ManualRun, RunJob
<1>6. CASE WebhookStep
  <2>1. CASE WebhookStamp
    <3>1. web.event \in queued /\ web.event \in Events /\ queued' = queued
      BY <2>1 DEF WebhookStamp, EventInv, DoneWasQueued, seen
    <3>2. \A f \in Events \ {web.event} : event'[f] = event[f]
      BY <1>0, <2>1, <3>1 DEF WebhookStamp
    <3>3. QED
      BY <1>1, <3>1, <3>2
  <2>2. CASE WebhookFails
    <3>1. web.event \in Events
      BY <2>2 DEF WebhookFails, EventInv, DoneWasQueued
    <3>2. event'[web.event].failed /\ \A f \in Events \ {web.event} : event'[f] = event[f]
      BY <1>0, <2>2, <3>1 DEF WebhookFails, RowType
    <3>3. QED
      BY <1>1, <3>2
  <2>3. QED
    BY <1>2, <1>i, <1>6, <2>1, <2>2 DEF WebhookStep, WebhookInsert, WebhookReplay,
       WebhookEnqueue, WebhookCrash
<1>7. CASE SlotComesDue \/ Pause \/ UNCHANGED vars
  BY <1>2, <1>7 DEF SlotComesDue, Pause, vars
<1>8. QED
  BY <1>3, <1>4, <1>5, <1>6, <1>7 DEF Next

-----------------------------------------------------------------------------
(* The theorems *)

\* The inductive invariant holds in every reachable state.
THEOREM EventInvariant == Spec => []EventInv
<1>1. EventInv /\ [Next]_vars => EventInv'
  BY EventTypeStep, ClaimStep, DoneStep, StampStep DEF EventInv
<1>2. QED
  BY <1>1, EventInit, PTL DEF Spec

\* Every variable keeps its type.
THEOREM EventTypeCorrect == Spec => []TypeOK
<1>1. EventInv => TypeOK
  BY DEF EventInv
<1>2. QED
  BY <1>1, EventInvariant, PTL

\* An event that is stamped and not failed was put on the queue, or falls to the
\* stamp of sweep_on_acquire (mark_dispatched, process_trigger_events_batch).
THEOREM StampsAreEarned == Spec => []StampedWasQueued
<1>1. EventInv => StampedWasQueued
  BY DEF EventInv
<1>2. QED
  BY <1>1, EventInvariant, PTL

\* The leader's producer and the gateway's scheduler never fire the same slot
\* (SKIP LOCKED in tick and cron_tick).
THEOREM SlotsUsedOnce == Spec => SlotUsedOnce
<1> DEFINE Once == \A e \in Events : event[e].kind = None /\ event'[e].kind = "cron"
                      => trig.next # "future"
<1>1. EventInv /\ [Next]_vars => [Once]_vars
  <2> SUFFICES ASSUME EventInv, Next, NEW e \in Events,
                      event[e].kind = None, event'[e].kind = "cron"
               PROVE  trig.next # "future"
    OBVIOUS
  <2>0. event \in [Events -> RowType] /\ None # "cron"
    BY TypeOKDef, EventAssumption DEF EventInv
  <2>a. ASSUME NEW c \in Cron, NEW E, Advance(c, E) PROVE trig.next # "future"
    BY <2>a DEF Advance, EventInv, ClaimHoldsLock
  <2>1. ASSUME NEW c \in Cron, CronStep(c) PROVE trig.next # "future"
    <3>1. ASSUME NEW f \in Events, ProducerTick(c, f) PROVE trig.next # "future"
      BY <2>a, <3>1 DEF ProducerTick, Fire
    <3>2. CASE Abort(c)
      BY <2>0, <3>2 DEF Abort, RowType
    <3>3. QED
      BY <2>0, <2>1, <3>1, <3>2 DEF CronStep, ClaimTrigger, EnqueueOne, EnqueueFails, Deactivate
  <2>2. ASSUME NEW c \in Cron, RecoveryStep(c) PROVE FALSE
    <3>1. CASE SweepStamp(c)
      BY <2>0, <3>1 DEF SweepStamp, RowType
    <3>2. CASE DrainSelect(c)
      BY <2>0, <3>2 DEF DrainSelect, RowType
    <3>3. CASE DrainCommit(c)
      <4>1. \A s, f : [event[e] EXCEPT !.lock = None, !.stamped = s, !.failed = f].kind = None
        BY <2>0 DEF RowType
      <4>2. QED
        BY <2>0, <3>3, <4>1 DEF DrainCommit
    <3>4. QED
      BY <2>0, <2>2, <3>1, <3>2, <3>3 DEF RecoveryStep, SweepSelect, DrainOne, DrainFails
  <2>3. ASSUME NEW f \in Events, GatewayTick(f) PROVE trig.next # "future"
    BY <2>a, <2>3 DEF GatewayTick, Fire, Cron
  <2>4. ASSUME NEW f \in Events, ManualRun(f) \/ RunJob(f) \/ GraceEnds(f) PROVE FALSE
    BY <2>0, <2>4 DEF ManualRun, RunJob, GraceEnds, Insert, NoEvent, RowType
  <2>5. CASE WebhookStep
    <3>1. ASSUME NEW f \in Events, WebhookInsert(f) PROVE FALSE
      BY <2>0, <3>1 DEF WebhookInsert, Insert, NoEvent
    <3>2. CASE WebhookStamp
      BY <2>0, <3>2 DEF WebhookStamp, RowType
    <3>3. CASE WebhookFails
      BY <2>0, <3>3 DEF WebhookFails, RowType
    <3>4. QED
      BY <2>0, <2>5, <3>1, <3>2, <3>3 DEF WebhookStep, WebhookReplay, WebhookEnqueue, WebhookCrash
  <2>6. QED
    BY <2>0, <2>1, <2>2, <2>3, <2>4, <2>5 DEF Next, SlotComesDue, Pause
<1>2. QED
  BY <1>1, EventInvariant, PTL DEF Spec, SlotUsedOnce
=============================================================================
