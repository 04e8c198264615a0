---------------------------- MODULE EventDelivery ----------------------------
(***************************************************************************)
(* From a trigger to a dispatch: the automation_events rows of one         *)
(* automation, the producers that insert them (the leader's cron producer, *)
(* the gateway's cron scheduler, the webhook and manual-run handlers), the *)
(* ARQ jobs that carry them to the dispatcher, and the two sweeps that     *)
(* recover events whose job was lost.                                      *)
(*                                                                         *)
(* A producer commits its event before it enqueues the job, so a crash or  *)
(* a Redis error leaves an event without a job.  Row locks are modelled:   *)
(* the drain keeps its events locked until it commits, a cron tick its     *)
(* trigger.                                                                *)
(***************************************************************************)
EXTENDS Naturals, FiniteSets

CONSTANTS Controllers,  \* controller processes that come to lead
          Events,       \* ids for automation_events rows
          None,
          MaxFaults     \* bound on failed enqueues and crashes

ASSUME EventAssumption == /\ None \notin Events
                          /\ None \notin Controllers
                          /\ None \notin {"gateway", "cron", "webhook", "manual"}
                          /\ MaxFaults \in Nat

Gateway == "gateway"
Cron    == Controllers \cup {Gateway}   \* who runs cron ticks

VARIABLES
  trig,     \* the automation_triggers row: next_run_at, is_active, row lock
  owner,    \* "served", or suspended or deleted: "blocked"
  active,   \* automation_definitions.is_active
  event,    \* the rows: their kind (None: no row), columns, age and row lock
  job,      \* events whose ARQ job waits for a worker
  ctl,      \* each producer and sweeper: where it is, events left to enqueue
  web,      \* the caller of the webhook and the handler of its request
  faults,
  \* observation only
  queued,   \* events whose job was put at least once
  ran,      \* events that reached the dispatcher
  swept     \* events stamped by sweep_on_acquire

vars == <<trig, owner, active, event, job, ctl, web, faults, queued, ran, swept>>
seen == <<queued, ran, swept>>

NoEvent == [kind |-> None, stamped |-> FALSE, failed |-> FALSE, old |-> FALSE, lock |-> None]
Idle    == [pc |-> "idle", todo |-> {}, done |-> {}]

Exists(e)  == event[e].kind # None
Pending(e) == Exists(e) /\ ~event[e].stamped /\ ~event[e].failed
Fresh(e)   == event[e].kind = None
\* Bound: there is an id for one more event, besides the one kept for the tick
\* that has claimed the trigger.
Room == Cardinality({e \in Events : Fresh(e)}) > (IF trig.lock = None THEN 0 ELSE 1)

Init ==
  /\ trig   \in [next : {"null", "future"}, active : {TRUE}, lock : {None}]
  /\ owner  \in {"served", "blocked"}
  /\ active = TRUE
  /\ event  = [e \in Events |-> NoEvent]
  /\ job    = {}
  /\ ctl    = [c \in Cron |-> IF c = Gateway THEN Idle ELSE [Idle EXCEPT !.pc = "elected"]]
  /\ web    = [pc |-> "idle", event |-> None, acked |-> FALSE]
  /\ faults = 0
  /\ queued = {} /\ ran = {} /\ swept = {}

At(c, pc) == ctl[c].pc = pc

Insert(e, kind) ==
  event' = [event EXCEPT ![e] = [NoEvent EXCEPT !.kind = kind]]

\* enqueue_job(..., _job_id = event id): one job per event waits at a time.
Put(E) ==
  /\ job'    = job \cup E
  /\ queued' = queued \cup E

-----------------------------------------------------------------------------
(* Cron: cron_producer.tick and scheduler.cron_tick *)

\* Wall-clock time reaches next_run_at.
SlotComesDue ==
  /\ trig.next = "future"
  /\ trig.lock = None
  /\ trig'  = [trig EXCEPT !.next = "due"]
  /\ UNCHANGED <<owner, active, event, job, ctl, web, faults, seen>>

\* Mistake: the claim ignores a lock another tick holds.
ClaimAnyway(c) ==
  /\ At(c, "idle")
  /\ trig.active /\ active
  /\ trig.next \in {"null", "due"}
  /\ Room
  /\ trig' = [trig EXCEPT !.lock = c]
  /\ ctl'  = [ctl EXCEPT ![c].pc = "claimed"]
  /\ UNCHANGED <<owner, active, event, job, web, faults, seen>>

\* SELECT ... FOR UPDATE SKIP LOCKED of a due trigger. The controller has
\* verified its term and keeps the lease row locked (ControllerLease, CronFenced).
ClaimTrigger(c) ==
  /\ At(c, "idle")
  /\ trig.active /\ active
  /\ trig.next \in {"null", "due"}
  /\ trig.lock = None
  /\ Room
  /\ trig' = [trig EXCEPT !.lock = c]
  /\ ctl'  = [ctl EXCEPT ![c].pc = "claimed"]
  /\ UNCHANGED <<owner, active, event, job, web, faults, seen>>

\* Commit of a tick that leaves the trigger at the next slot.
Advance(c, todo) ==
  /\ At(c, "claimed")
  /\ trig' = [trig EXCEPT !.next = "future", !.lock = None]
  /\ ctl'  = [ctl EXCEPT ![c].pc = IF todo = {} THEN "idle" ELSE "enqueue", ![c].todo = todo]
  /\ UNCHANGED <<owner, active, job, web, faults, queued, ran, swept>>

\* The trigger fires: an event, to be enqueued after the commit.
Fire(c, e) ==
  /\ Fresh(e)
  /\ Insert(e, "cron")
  /\ Advance(c, {e})

\* The controller's producer: a trigger without a slot gets one and does not
\* fire; for a blocked owner the event is born failed.
ProducerTick(c, e) ==
  /\ c \in Controllers
  /\ \/ trig.next = "null" /\ Advance(c, {}) /\ UNCHANGED event
     \/ trig.next = "due" /\ owner = "served" /\ Fire(c, e)
     \/ /\ trig.next = "due" /\ owner = "blocked"
        /\ Fresh(e)
        /\ event' = [event EXCEPT ![e] = [NoEvent EXCEPT !.kind = "cron",
                                            !.stamped = TRUE, !.failed = TRUE]]
        /\ Advance(c, {})

\* The gateway's scheduler fires whatever it claimed.
GatewayTick(e) == Fire(Gateway, e)

\* No expression, bad timezone or malformed cron: the trigger is deactivated.
Deactivate(c) ==
  /\ At(c, "claimed")
  /\ trig' = [trig EXCEPT !.active = FALSE, !.lock = None]
  /\ ctl'  = [ctl EXCEPT ![c] = Idle]
  /\ UNCHANGED <<owner, active, event, job, web, faults, seen>>

\* After the commit, of a tick or of the sweep on acquire: one job per event.
EnqueueOne(c, e) ==
  /\ At(c, "enqueue")
  /\ e \in ctl[c].todo
  /\ Put({e})
  /\ ctl' = [ctl EXCEPT ![c].todo = @ \ {e}, ![c].pc = IF ctl[c].todo = {e} THEN "idle" ELSE @]
  /\ UNCHANGED <<trig, owner, active, event, web, faults, ran, swept>>

\* The enqueue raises: logged, the loop goes on.
EnqueueFails(c, e) ==
  /\ faults < MaxFaults
  /\ At(c, "enqueue")
  /\ e \in ctl[c].todo
  /\ faults' = faults + 1
  /\ ctl' = [ctl EXCEPT ![c].todo = @ \ {e}, ![c].pc = IF ctl[c].todo = {e} THEN "idle" ELSE @]
  /\ UNCHANGED <<trig, owner, active, event, job, web, seen>>

-----------------------------------------------------------------------------
(* Recovery: sweep_on_acquire.sweep_once, process_trigger_events_batch *)

\* Promotion: of the events past the grace time, those older than 60 s are
\* read, without a lock.
SweepSelect(c) ==
  /\ c \in Controllers
  /\ At(c, "elected")
  /\ \E stale \in SUBSET {e \in Events : Pending(e) /\ event[e].old} :
       ctl' = [ctl EXCEPT ![c].pc = IF stale = {} THEN "idle" ELSE "stamp", ![c].todo = stale]
  /\ UNCHANGED <<trig, owner, active, event, job, web, faults, seen>>

\* They are stamped dispatched, once no other transaction locks them, and
\* committed; the enqueue comes after (EnqueueOne).
SweepStamp(c) ==
  /\ At(c, "stamp")
  /\ \A e \in ctl[c].todo : event[e].lock = None
  /\ event' = [e \in Events |-> IF e \in ctl[c].todo THEN [event[e] EXCEPT !.stamped = TRUE]
                                ELSE event[e]]
  /\ swept' = swept \cup {e \in ctl[c].todo : ~event[e].stamped}
  /\ ctl' = [ctl EXCEPT ![c].pc = "enqueue"]
  /\ UNCHANGED <<trig, owner, active, job, web, faults, queued, ran>>

\* Mistake: the gateway drains as well, outside of any lease.
DrainSelectAnywhere(c) ==
  /\ At(c, "idle")
  /\ LET orphans == {e \in Events : Pending(e) /\ event[e].old /\ event[e].lock = None} IN
       /\ orphans # {}
       /\ event' = [e \in Events |-> IF e \in orphans THEN [event[e] EXCEPT !.lock = c] ELSE event[e]]
       /\ ctl' = [ctl EXCEPT ![c].pc = "drain", ![c].todo = orphans, ![c].done = {}]
  /\ UNCHANGED <<trig, owner, active, job, web, faults, seen>>

\* Mistake: the drain skips events that cron inserted.
DrainSelectHandlersOnly(c) ==
  /\ c \in Controllers
  /\ At(c, "idle")
  /\ LET orphans == {e \in Events : Pending(e) /\ event[e].old /\ event[e].lock = None
                                     /\ event[e].kind # "cron"} IN
       /\ orphans # {}
       /\ event' = [e \in Events |-> IF e \in orphans THEN [event[e] EXCEPT !.lock = c] ELSE event[e]]
       /\ ctl' = [ctl EXCEPT ![c].pc = "drain", ![c].todo = orphans, ![c].done = {}]
  /\ UNCHANGED <<trig, owner, active, job, web, faults, seen>>

\* drain_once: orphans past the grace time, FOR UPDATE SKIP LOCKED.
DrainSelect(c) ==
  /\ c \in Controllers
  /\ At(c, "idle")
  /\ LET orphans == {e \in Events : Pending(e) /\ event[e].old /\ event[e].lock = None} IN
       /\ orphans # {}
       /\ event' = [e \in Events |-> IF e \in orphans THEN [event[e] EXCEPT !.lock = c] ELSE event[e]]
       /\ ctl' = [ctl EXCEPT ![c].pc = "drain", ![c].todo = orphans, ![c].done = {}]
  /\ UNCHANGED <<trig, owner, active, job, web, faults, seen>>

\* Mistake: the stamp is written although the enqueue raised.
DrainOneIgnoringErrors(c, e) ==
  /\ At(c, "drain")
  /\ e \in ctl[c].todo
  /\ active
  /\ Put({})
  /\ ctl' = [ctl EXCEPT ![c].todo = @ \ {e}, ![c].done = @ \cup {e}]
  /\ UNCHANGED <<trig, owner, active, event, web, faults, ran, swept>>

\* One event under its savepoint: the job is put, then the row is stamped.
DrainOne(c, e) ==
  /\ At(c, "drain")
  /\ e \in ctl[c].todo
  /\ active
  /\ Put({e})
  /\ ctl' = [ctl EXCEPT ![c].todo = @ \ {e}, ![c].done = @ \cup {e}]
  /\ UNCHANGED <<trig, owner, active, event, web, faults, ran, swept>>

\* The automation is paused, or the enqueue raises (the job may have been put):
\* the row will be marked failed.
DrainFails(c, e) ==
  /\ At(c, "drain")
  /\ e \in ctl[c].todo
  /\ \/ ~active /\ UNCHANGED <<faults, job, queued>>
     \/ /\ active /\ faults < MaxFaults /\ faults' = faults + 1
        /\ \/ UNCHANGED <<job, queued>>
           \/ Put({e})
  /\ ctl' = [ctl EXCEPT ![c].todo = @ \ {e}]
  /\ UNCHANGED <<trig, owner, active, event, web, ran, swept>>

\* db.commit at the end of the batch.
DrainCommit(c) ==
  /\ At(c, "drain")
  /\ ctl[c].todo = {}
  /\ event' = [e \in Events |->
       IF event[e].lock # c THEN event[e]
       ELSE [event[e] EXCEPT !.lock = None, !.stamped = e \in ctl[c].done,
                             !.failed = e \notin ctl[c].done]]
  /\ ctl' = [ctl EXCEPT ![c] = Idle]
  /\ UNCHANGED <<trig, owner, active, job, web, faults, seen>>

\* The process dies, or the step of its loop raises, at any point: its
\* transaction rolls back, its list of events to enqueue is gone. A controller
\* that comes to lead again sweeps first.
Abort(c) ==
  /\ faults < MaxFaults
  /\ ~At(c, "idle")
  /\ faults' = faults + 1
  /\ trig'  = IF trig.lock = c THEN [trig EXCEPT !.lock = None] ELSE trig
  /\ event' = [e \in Events |-> IF event[e].lock = c THEN [event[e] EXCEPT !.lock = None]
                                 ELSE event[e]]
  /\ \/ ctl' = [ctl EXCEPT ![c] = Idle]
     \/ c # Gateway /\ ctl' = [ctl EXCEPT ![c] = [Idle EXCEPT !.pc = "elected"]]
  /\ UNCHANGED <<owner, active, job, web, seen>>

-----------------------------------------------------------------------------
(* Handlers: _ingest_signed_webhook and run_automation *)

\* The first request of a delivery: the event is committed.
WebhookInsert(e) ==
  /\ web.pc = "idle" /\ web.event = None
  /\ active
  /\ Room /\ Fresh(e)
  /\ Insert(e, "webhook")
  /\ web' = [web EXCEPT !.pc = "inserted", !.event = e]
  /\ UNCHANGED <<trig, owner, active, job, ctl, faults, seen>>

\* The caller sends the delivery again: the idempotency key collides and the
\* request is answered 202 with status "replay".
WebhookReplay ==
  /\ web.pc \in {"refused", "silent"}
  /\ active
  /\ web' = [web EXCEPT !.pc = "idle", !.acked = TRUE]
  /\ UNCHANGED <<trig, owner, active, event, job, ctl, faults, seen>>

WebhookEnqueue ==
  /\ web.pc = "inserted"
  /\ Put({web.event})
  /\ web' = [web EXCEPT !.pc = "enqueued"]
  /\ UNCHANGED <<trig, owner, active, event, ctl, faults, ran, swept>>

\* mark_dispatched and its commit, behind the drain's row lock; 202.
WebhookStamp ==
  /\ web.pc = "enqueued"
  /\ event[web.event].lock = None
  /\ event' = [event EXCEPT ![web.event].stamped = TRUE]
  /\ web' = [web EXCEPT !.pc = "idle", !.acked = TRUE]
  /\ UNCHANGED <<trig, owner, active, job, ctl, faults, seen>>

\* No pool, or the enqueue raises (the job may have been put): mark_failed,
\* 500.
WebhookFails ==
  /\ faults < MaxFaults
  /\ web.pc = "inserted"
  /\ event[web.event].lock = None
  /\ faults' = faults + 1
  /\ event' = [event EXCEPT ![web.event].failed = TRUE]
  /\ web' = [web EXCEPT !.pc = "refused"]
  /\ \/ UNCHANGED <<job, queued>>
     \/ Put({web.event})
  /\ UNCHANGED <<trig, owner, active, ctl, ran, swept>>

\* The handler dies: the caller gets no answer.
WebhookCrash ==
  /\ faults < MaxFaults
  /\ web.pc \in {"inserted", "enqueued"}
  /\ faults' = faults + 1
  /\ web' = [web EXCEPT !.pc = "silent"]
  /\ UNCHANGED <<trig, owner, active, event, job, ctl, seen>>

\* run_automation: the event is committed and dispatched inline, or the handler
\* dies in between.
ManualRun(e) ==
  /\ active
  /\ Room /\ Fresh(e)
  /\ Insert(e, "manual")
  /\ \/ ran' = ran \cup {e} /\ UNCHANGED faults
     \/ faults < MaxFaults /\ faults' = faults + 1 /\ UNCHANGED ran
  /\ UNCHANGED <<trig, owner, active, job, ctl, web, queued, swept>>

-----------------------------------------------------------------------------
(* The queue and the surroundings *)

\* A worker runs dispatch_automation_task: the run row is created, or found
\* (AutomationRun), which makes a second job of an event harmless.
RunJob(e) ==
  /\ e \in job
  /\ job' = job \ {e}
  /\ ran' = ran \cup {e}
  /\ UNCHANGED <<trig, owner, active, event, ctl, web, faults, queued, swept>>

\* received_at falls behind the grace time of the drain.
GraceEnds(e) ==
  /\ Pending(e)
  /\ ~event[e].old
  /\ event' = [event EXCEPT ![e].old = TRUE]
  /\ UNCHANGED <<trig, owner, active, job, ctl, web, faults, seen>>

\* The automation is paused.
Pause ==
  /\ active
  /\ active' = FALSE
  /\ UNCHANGED <<trig, owner, event, job, ctl, web, faults, seen>>

CronStep(c) ==
  \/ ClaimTrigger(c)
  \/ \E e \in Events : ProducerTick(c, e) \/ EnqueueOne(c, e) \/ EnqueueFails(c, e)
  \/ Deactivate(c)
  \/ Abort(c)

RecoveryStep(c) ==
  \/ SweepSelect(c)
  \/ SweepStamp(c)
  \/ DrainSelect(c)
  \/ \E e \in Events : DrainOne(c, e) \/ DrainFails(c, e)
  \/ DrainCommit(c)

WebhookStep ==
  \/ \E e \in Events : WebhookInsert(e)
  \/ WebhookReplay
  \/ WebhookEnqueue
  \/ WebhookStamp
  \/ WebhookFails
  \/ WebhookCrash

Next ==
  \/ SlotComesDue
  \/ \E c \in Cron : CronStep(c) \/ RecoveryStep(c)
  \/ \E e \in Events : GatewayTick(e) \/ ManualRun(e) \/ RunJob(e) \/ GraceEnds(e)
  \/ WebhookStep
  \/ Pause

\* The leader's loops keep ticking and finish what they started, time passes,
\* workers take jobs. Triggers, callers and users owe nothing.
Fairness ==
  /\ \A c \in Controllers :
       /\ WF_vars(SweepSelect(c) \/ SweepStamp(c) \/ DrainCommit(c))
       /\ WF_vars(\E e \in Events : ProducerTick(c, e) \/ EnqueueOne(c, e) \/ EnqueueFails(c, e))
       /\ WF_vars(\E e \in Events : DrainOne(c, e) \/ DrainFails(c, e))
       /\ SF_vars(DrainSelect(c))
  /\ \A e \in Events : WF_vars(RunJob(e)) /\ WF_vars(GraceEnds(e))

Spec == Init /\ [][Next]_vars

FairSpec == Spec /\ Fairness
-----------------------------------------------------------------------------
(* Properties *)

Places == {"idle", "elected", "claimed", "enqueue", "stamp", "drain"}

\* Every variable has its type.
TypeOK ==
  /\ trig \in [next : {"null", "future", "due"}, active : BOOLEAN, lock : Cron \cup {None}]
  /\ owner \in {"served", "blocked"}
  /\ active \in BOOLEAN
  /\ event \in [Events -> [kind : {None, "cron", "webhook", "manual"}, stamped : BOOLEAN,
                           failed : BOOLEAN, old : BOOLEAN,
                           lock : Controllers \cup {None}]]
  /\ job \subseteq Events
  /\ ctl \in [Cron -> [pc : Places, todo : SUBSET Events, done : SUBSET Events]]
  /\ web \in [pc : {"idle", "inserted", "enqueued", "refused", "silent"},
              event : Events \cup {None}, acked : BOOLEAN]
  /\ faults \in 0..MaxFaults
  /\ queued \subseteq Events /\ ran \subseteq Events /\ swept \subseteq Events

\* A slot of a trigger is used up once: although the leader and the gateway tick
\* on the same triggers, no tick inserts an event for a trigger that another tick
\* has moved on to its next slot (SKIP LOCKED in tick and cron_tick).
SlotUsedOnce ==
  [][\A e \in Events : event[e].kind = None /\ event'[e].kind = "cron"
        => trig.next # "future"]_vars

\* A dispatched_at stamp is a promise that the job exists or existed: an event
\* that is stamped and not failed was put on the queue, whoever stamped it and
\* whatever crashed in between; only the stamps of sweep_on_acquire come before
\* the enqueue (mark_dispatched after enqueue_job in the webhook handler and in
\* process_trigger_events_batch).
StampedWasQueued ==
  \A e \in Events : event[e].stamped /\ ~event[e].failed => e \in queued \cup swept

\* No event is forgotten: each one that is committed is dispatched or ends up
\* marked failed, after any crash between commit and enqueue, unless it falls
\* to the stamp of sweep_on_acquire (missed_event_drain, cron_producer step 3).
EventsSettle ==
  \A e \in Events : Exists(e) ~> (e \in ran \/ event[e].failed \/ e \in swept)

\* "so the caller's retry loop converges" (app_triggers.py): a delivery that was
\* answered 202 is dispatched.
AckedDelivered == web.acked ~> (web.event \in ran)

\* "a user the platform has decided to stop serving must not accrue compute or
\* spend through cron automations" (cron_producer.py): no cron event is put on
\* the queue by a tick that claimed its trigger after the owner was blocked.
BlockedOwnerNotFired ==
  [][\A e \in Events : event[e].kind = None /\ event'[e].kind = "cron" /\ owner = "blocked"
        => event'[e].failed]_vars

-----------------------------------------------------------------------------
(* The inductive invariant behind them *)

\* A tick that has claimed the trigger keeps its row locked, so that the slot it
\* found is still the trigger's when it fires.
ClaimHoldsLock ==
  \A c \in Cron : At(c, "claimed") => trig.lock = c /\ trig.next # "future"

\* The drain and the webhook handler put the job of an event before they stamp it.
DoneWasQueued ==
  /\ \A c \in Cron : At(c, "drain") => ctl[c].done \subseteq queued
  /\ web.pc \in {"inserted", "enqueued"} => web.event \in Events
  /\ web.pc = "enqueued" => web.event \in queued

EventInv == TypeOK /\ ClaimHoldsLock /\ DoneWasQueued /\ StampedWasQueued
=============================================================================
