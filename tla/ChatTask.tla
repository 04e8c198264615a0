------------------------------ MODULE ChatTask ------------------------------
(***************************************************************************)
(* Agent tasks of one chat: the endpoint that admits and enqueues them,    *)
(* the worker that runs them under the chat's lock (a Redis key with a     *)
(* 30 s TTL and a heartbeat), the cancellation flags (keys with a 600 s    *)
(* TTL), and the endpoints that cancel a task or clear a lock left behind. *)
(* Redis runs each command or Lua script atomically; between two of them   *)
(* anything may happen.                                                    *)
(***************************************************************************)
EXTENDS Naturals, FiniteSets

CONSTANTS Task,       \* messages sent to the chat, by task id
          None,
          Cap,        \* user_max_concurrent_agents
          MaxTries,   \* worker_max_tries
          MaxFaults,  \* bound on Redis and database errors, stalls, crashes
          MaxRequests \* bound on calls of the endpoints that clear the lock

ASSUME ChatNoneAssumption == None \notin Task
ASSUME ChatBoundsAssumption ==
  Cap \in Nat /\ MaxTries \in Nat /\ MaxFaults \in Nat /\ MaxRequests \in Nat

VARIABLES lock,      \* tesslate:chat:lock:{chat}: the task, None without a key
          flag,      \* tasks with a key tesslate:agent:cancel:{task}
          status,    \* Chat.status
          pc,        \* where each task is
          hb,        \* its heartbeat: off, on, or lock found lost
          outcome,   \* how the loop of this attempt was left: ended (by itself
                     \* or an exception), stopped (cancelled or out of time), ...
          tries,     \* attempts begun
          slots,     \* tasks in tesslate:agent:active:user
          req,       \* a request clearing the lock: the task it found cancelled
                     \* (None: it did not look), the holder it read
          requests, faults,
          harmed,    \* tasks a fault kept from doing what they must (observer)
          runner     \* the last task to enter with status running, None when that
                     \* is over or it left the status to others (observer)

vars == <<lock, flag, status, pc, hb, outcome, tries, slots, req, requests, faults, harmed,
          runner>>
sendVars == <<lock, flag, status, hb, outcome, tries, req, requests, runner>>
workVars == <<slots, req, requests>>

\* Before the loop: nothing has read Chat.status yet, or the task has.
Early == {"locked", "noted"}
\* From the commit of Chat.status = "running" to that of the final one.
Looping == {"prepared", "running", "checked", "finalizing"}
Working == Early \cup Looping \cup {"ending"}
Executing(t) == pc[t] \in Working \cup {"leaving"}

TypeOK ==
  /\ lock \in Task \cup {None}
  /\ flag \subseteq Task /\ slots \subseteq Task
  /\ harmed \subseteq Task /\ runner \in Task \cup {None}
  /\ status \in {"active", "running", "completed"}
  /\ pc \in [Task -> Working \cup {"new", "admitted", "queued", "leaving", "done"}]
  /\ hb \in [Task -> {"off", "on", "lost"}]
  /\ outcome \in [Task -> {"none", "ended", "stopped", "interrupted", "superseded"}]
  /\ tries \in [Task -> 0..MaxTries]
  /\ req \in [at : {"idle", "seen", "force", "flag", "delete"},
              saw : Task \cup {None}, who : Task \cup {None}]
  /\ requests \in 0..MaxRequests
  /\ faults \in 0..MaxFaults

NoRequest == [at |-> "idle", saw |-> None, who |-> None]

Init ==
  /\ lock = None /\ flag = {} /\ status = "active"
  /\ pc = [t \in Task |-> "new"]
  /\ hb = [t \in Task |-> "off"]
  /\ outcome = [t \in Task |-> "none"]
  /\ tries = [t \in Task |-> 0]
  /\ slots = {} /\ req = NoRequest
  /\ requests = 0 /\ faults = 0 /\ harmed = {}
  /\ runner = None

At(t, here, there) == pc[t] = here /\ pc' = [pc EXCEPT ![t] = there]

NoFault == UNCHANGED <<faults, harmed>>
Fault == faults < MaxFaults /\ faults' = faults + 1 /\ UNCHANGED harmed
Harm(t) == faults < MaxFaults /\ faults' = faults + 1 /\ harmed' = harmed \cup {t}

----------------------------------------------------------------------------
(* The endpoint: check_and_reserve_slot, then the queue.                   *)

\* The count is under the limit, or cannot be read, which counts as zero.
CheckCap(t) ==
  /\ At(t, "new", "admitted")
  /\ IF Cardinality(slots) < Cap THEN NoFault ELSE Fault
  /\ UNCHANGED <<sendVars, slots>>

\* CapacityExceeded: the limit, or the rate of the last ten seconds (not modelled).
Refuse(t) ==
  /\ At(t, "new", "done")
  /\ NoFault
  /\ UNCHANGED <<sendVars, slots>>

\* ZADD, then the queue.  Without the ZADD the task goes on without a slot; the
\* slot of a task that could not be enqueued stays until it ages out.
Reserve(t) ==
  /\ \/ At(t, "admitted", "queued") /\ slots' = slots \cup {t} /\ NoFault
     \/ At(t, "admitted", "queued") /\ UNCHANGED slots /\ Fault
     \/ At(t, "admitted", "done") /\ slots' = slots \cup {t} /\ Harm(t)
  /\ UNCHANGED sendVars

\* A slot older than worker_job_timeout + 120 s: its task is over or, which counts
\* as a fault, still waits in the queue (that it ends a little later, while the
\* job runs, makes no difference).
AgeOut(t) ==
  /\ t \in slots
  /\ pc[t] \in {"queued", "done"}
  /\ slots' = slots \ {t}
  /\ IF pc[t] = "queued" THEN Fault ELSE NoFault
  /\ UNCHANGED <<sendVars, pc>>

----------------------------------------------------------------------------
(* The worker: execute_agent_task.                                         *)

\* Mistake: a task whose holder does not answer is taken for a zombie.
FreeForAll(t) == TRUE

\* _ACQUIRE_OR_TAKEOVER_SCRIPT: no key, t's own, or a cancelled holder's.
Free(t) == lock \in {None, t} \cup flag

Begin(t) == tries[t] < MaxTries /\ tries' = [tries EXCEPT ![t] = @ + 1]

AcquireLock(t) ==
  /\ At(t, "queued", "locked")
  /\ Begin(t)
  /\ Free(t)
  /\ lock' = t
  /\ hb' = [hb EXCEPT ![t] = "on"]
  /\ NoFault
  /\ UNCHANGED <<flag, status, outcome, workVars, runner>>

\* The project is gone, a live task has the lock, or Redis fails, after the
\* script's effect or before: the task returns, and does not release.
NotAcquired(t) ==
  /\ At(t, "queued", "leaving")
  /\ Begin(t)
  /\ \/ UNCHANGED lock /\ NoFault
     \/ Free(t) /\ lock' = t /\ Harm(t)
  /\ UNCHANGED <<flag, status, hb, outcome, workVars, runner>>

\* Messages and checkpoint are in place, and the row of the chat is read as running.
LoadChat(t) ==
  /\ At(t, "locked", "noted")
  /\ status = "running"
  /\ NoFault
  /\ UNCHANGED <<lock, flag, status, hb, outcome, tries, workVars, runner>>

\* While the chat shows running, it is for task t.
ShownFor(t) == runner' = IF status' = "running" THEN t ELSE None

\* Chat.status = "running" is committed, whatever the status has become since the
\* row was read.  A row that was read as running is not changed in the session,
\* and no UPDATE is sent.
Prepare(t) ==
  /\ \/ At(t, "locked", "prepared") /\ status' = "running"
     \/ At(t, "noted", "prepared") /\ UNCHANGED status
  /\ ShownFor(t)
  /\ NoFault
  /\ UNCHANGED <<lock, flag, hb, outcome, tries, workVars>>

\* Adapter and mentions are in place: the loop's try begins.
EnterLoop(t) ==
  /\ At(t, "prepared", "running")
  /\ NoFault
  /\ UNCHANGED <<lock, flag, status, hb, outcome, tries, workVars, runner>>

\* No agent found: an early return.
NoAgent(t) ==
  /\ At(t, "locked", "ending")
  /\ NoFault
  /\ UNCHANGED <<lock, flag, status, hb, outcome, tries, workVars, runner>>

\* The error handler, when it can use the session, resets Chat.status.
ResetStatus(t) ==
  IF status = "running" /\ outcome[t] # "superseded" THEN "active" ELSE status

\* An exception before the loop.
PrepareFails(t) ==
  /\ \E here \in Early : At(t, here, "ending")
  /\ status' \in {status, ResetStatus(t)}
  /\ ShownFor(runner)
  /\ NoFault
  /\ UNCHANGED <<lock, flag, hb, outcome, tries, workVars>>

\* The agent runs out of time, found by an event after which the task was not
\* cancelled; it ends after such an event, or an exception leaves the loop at any time.
AgentEnds(t) ==
  /\ At(t, "running", "finalizing")
  /\ \E o \in {"ended", "stopped"} :
       /\ o = "stopped" => t \notin flag
       /\ outcome' = [outcome EXCEPT ![t] = o]
  /\ NoFault
  /\ UNCHANGED <<lock, flag, status, hb, tries, workVars, runner>>

\* is_cancelled between two events.
SeesCancelled(t) ==
  /\ At(t, "running", "checked")
  /\ t \in flag
  /\ NoFault
  /\ UNCHANGED <<lock, flag, status, hb, outcome, tries, workVars, runner>>

\* Task t leaves the status to others.
LeftBy(t) == IF runner = t THEN None ELSE runner

\* get_chat_lock: another task has it, which Chat.status is left to, or not (or
\* it cannot be read).
ReadsHolder(t) ==
  /\ At(t, "checked", "finalizing")
  /\ \/ /\ lock \notin {None, t}
        /\ outcome' = [outcome EXCEPT ![t] = "superseded"]
        /\ runner' = LeftBy(t)
        /\ NoFault
     \/ /\ outcome' = [outcome EXCEPT ![t] = "stopped"]
        /\ IF lock \in {None, t} THEN NoFault ELSE Fault
        /\ UNCHANGED runner
  /\ UNCHANGED <<lock, flag, status, hb, tries, workVars>>

\* CancelledError: the job's timeout, or the worker shuts down.  Only inside the
\* loop's try does a finally still write Chat.status; the error handler is for
\* exceptions of other kinds.
Interrupt(t) ==
  /\ \/ /\ \E here \in Early \cup {"ending"} : At(t, here, "ending")
        /\ UNCHANGED runner
     \/ /\ \E here \in {"running", "checked"} : At(t, here, "finalizing")
        /\ UNCHANGED runner
     \/ /\ \E here \in {"prepared", "finalizing"} : At(t, here, "ending")
        /\ runner' = LeftBy(t)
  /\ outcome' = [outcome EXCEPT ![t] = "interrupted"]
  /\ NoFault
  /\ UNCHANGED <<lock, flag, status, hb, tries, workVars>>

\* Mistake: a cancelled task leaves the status alone too.
FinalStatusCancelled(t) ==
  IF outcome[t] \in {"superseded", "stopped"} THEN status ELSE "completed"

\* Not written by a task whose lock was stolen.
FinalStatus(t) ==
  CASE outcome[t] = "superseded" -> status
    [] outcome[t] = "stopped"    -> "active"
    [] OTHER                     -> "completed"

\* What the outcome still decides after the final commit: whether the lock is
\* given back, and whether ARQ runs the job again.
Lasting(o) == IF o \in {"interrupted", "superseded"} THEN o ELSE "none"

\* The loop's finally: one commit, or none of it and the error handler.
Finalize(t) ==
  /\ At(t, "finalizing", "ending")
  /\ \/ status' = FinalStatus(t) /\ NoFault
     \/ status' \in {status, ResetStatus(t)} /\ Harm(t)
  /\ ShownFor(runner)
  /\ outcome' = [outcome EXCEPT ![t] = Lasting(@)]
  /\ UNCHANGED <<lock, flag, hb, tries, workVars>>

\* Mistake: lock_acquired is forgotten by every cancelled task.
ReleasedUnlessCancelled(t) ==
  IF lock = t /\ t \notin flag /\ outcome[t] # "superseded" THEN None ELSE lock

\* Mistake: DEL without the script's comparison.
ReleasedBlindly(t) == IF outcome[t] # "superseded" THEN None ELSE lock

\* _RELEASE_LOCK_SCRIPT, unless the lock was stolen.
Released(t) == IF lock = t /\ outcome[t] # "superseded" THEN None ELSE lock

\* The outer finally: the heartbeat is cancelled, the lock given back.
ReleaseLock(t) ==
  /\ At(t, "ending", "leaving")
  /\ hb' = [hb EXCEPT ![t] = "off"]
  /\ \/ lock' = Released(t) /\ NoFault
     \/ UNCHANGED lock /\ Harm(t)
  /\ UNCHANGED <<flag, status, outcome, tries, workVars, runner>>

\* The attempt is over, and with it its local variables.
Forgets(t) == outcome' = [outcome EXCEPT ![t] = "none"]

\* release_slot; ARQ runs a job again that a shutdown interrupted.
ReleaseSlot(t) ==
  /\ \/ At(t, "leaving", "done")
     \/ At(t, "leaving", "queued") /\ outcome[t] = "interrupted" /\ tries[t] < MaxTries
  /\ Forgets(t)
  /\ \/ slots' = slots \ {t} /\ NoFault
     \/ UNCHANGED slots /\ Harm(t)
  /\ UNCHANGED <<lock, flag, status, hb, tries, req, requests, runner>>

\* CancelledError while the outer finally waits for Redis: the rest of it, the
\* release of the slot at least, is left out.
CleanupInterrupted(t) ==
  /\ \/ pc[t] = "ending" /\ lock' \in {lock, Released(t)}
     \/ pc[t] = "leaving" /\ UNCHANGED lock
  /\ pc' = [pc EXCEPT ![t] = IF tries[t] < MaxTries THEN "queued" ELSE "done"]
  /\ hb' = [hb EXCEPT ![t] = "off"]
  /\ Forgets(t)
  /\ Harm(t)
  /\ UNCHANGED <<flag, status, tries, workVars, runner>>

\* The worker dies; ARQ runs the job again while it has tries left.
Crash(t) ==
  /\ Executing(t)
  /\ pc' = [pc EXCEPT ![t] = IF tries[t] < MaxTries THEN "queued" ELSE "done"]
  /\ hb' = [hb EXCEPT ![t] = "off"]
  /\ Forgets(t)
  /\ Harm(t)
  /\ UNCHANGED <<lock, flag, status, tries, workVars, runner>>

----------------------------------------------------------------------------
(* _heartbeat_lock, every ten seconds.  One that succeeds changes nothing  *)
(* but the TTL.                                                            *)

Extend(t) ==
  /\ hb[t] = "on"
  /\ hb' = [hb EXCEPT ![t] = "lost"]
  /\ IF lock = t THEN Fault ELSE NoFault
  /\ UNCHANGED <<lock, flag, status, pc, outcome, tries, workVars, runner>>

\* Mistake: the heartbeat just ends.
SignalledNot(t) == flag

Signalled(t) == flag \cup {t}

\* request_cancellation, which swallows a Redis error; the heartbeat ends.
SignalLost(t) ==
  /\ hb[t] = "lost"
  /\ hb' = [hb EXCEPT ![t] = "off"]
  /\ \/ flag' = Signalled(t) /\ NoFault
     \/ UNCHANGED flag /\ Harm(t)
  /\ UNCHANGED <<lock, status, pc, outcome, tries, workVars, runner>>

\* The key's TTL.  With the heartbeat alive only a stall of 30 s lets it pass.
LockExpires ==
  /\ lock # None
  /\ IF hb[lock] = "on" THEN Fault ELSE NoFault
  /\ lock' = None
  /\ UNCHANGED <<flag, status, pc, hb, outcome, tries, workVars, runner>>

\* The flag's TTL is the job's timeout, so it outlives the attempt it is to stop.
FlagExpires(t) ==
  /\ t \in flag /\ ~Executing(t)
  /\ flag' = flag \ {t}
  /\ NoFault
  /\ UNCHANGED <<lock, status, pc, hb, outcome, tries, workVars, runner>>

----------------------------------------------------------------------------
(* The endpoints of the client.                                            *)

reqVars == <<status, pc, hb, outcome, tries, slots, faults, harmed, runner>>

\* cancel_agent_task, for a task id the client was told.
Cancel(t) ==
  /\ pc[t] = "queued" \/ Executing(t)
  /\ t \notin flag
  /\ flag' = flag \cup {t}
  /\ UNCHANGED <<lock, req, requests, reqVars>>

\* get_active_agent_task and get_active_tasks_in_project: whose lock is it ...
HealRead ==
  /\ req.at = "idle" /\ requests < MaxRequests
  /\ lock # None
  /\ req' = [at |-> "seen", saw |-> lock, who |-> None]
  /\ requests' = requests + 1
  /\ UNCHANGED <<lock, flag, reqVars>>

\* ... and is that task cancelled?
HealCheck ==
  /\ req.at = "seen"
  /\ req' = IF req.saw \in flag THEN [req EXCEPT !.at = "force"] ELSE NoRequest
  /\ UNCHANGED <<lock, flag, requests, reqVars>>

\* force_cancel_agent.
ForceCancel ==
  /\ req.at = "idle" /\ requests < MaxRequests
  /\ req' = [NoRequest EXCEPT !.at = "force"]
  /\ requests' = requests + 1
  /\ UNCHANGED <<lock, flag, reqVars>>

Deleting == [NoRequest EXCEPT !.at = "delete"]

\* force_release_chat_lock: GET, ...
ForceRead ==
  /\ req.at = "force"
  /\ req' = IF lock = None THEN Deleting ELSE [req EXCEPT !.at = "flag", !.who = lock]
  /\ UNCHANGED <<lock, flag, requests, reqVars>>

\* ... SETEX of its holder's flag, ...
ForceFlag ==
  /\ req.at = "flag"
  /\ flag' = flag \cup {req.who}
  /\ req' = Deleting
  /\ UNCHANGED <<lock, requests, reqVars>>

\* ... and DEL, whoever holds it by now.
ForceDelete ==
  /\ req.at = "delete"
  /\ lock' = None
  /\ req' = NoRequest
  /\ UNCHANGED <<flag, requests, reqVars>>

----------------------------------------------------------------------------

Send(t) == CheckCap(t) \/ Refuse(t) \/ Reserve(t)
Heartbeat(t) == Extend(t) \/ SignalLost(t)
CancelSeen(t) == SeesCancelled(t) \/ ReadsHolder(t)

Next ==
  \/ \E t \in Task :
       \/ Send(t) \/ AgeOut(t) \/ AcquireLock(t) \/ NotAcquired(t)
       \/ NoAgent(t) \/ LoadChat(t) \/ Prepare(t) \/ PrepareFails(t) \/ EnterLoop(t)
       \/ AgentEnds(t) \/ CancelSeen(t) \/ Interrupt(t) \/ Finalize(t)
       \/ ReleaseLock(t) \/ ReleaseSlot(t) \/ CleanupInterrupted(t) \/ Crash(t)
       \/ Heartbeat(t) \/ Cancel(t) \/ FlagExpires(t)
  \/ LockExpires
  \/ HealRead \/ HealCheck \/ ForceCancel \/ ForceRead \/ ForceFlag \/ ForceDelete

Spec == Init /\ [][Next]_vars

\* The heartbeat runs every ten seconds, and the agent's loop, once begun, keeps
\* producing events.  That the agent ends is not assumed.
FairSpec ==
  /\ Spec
  /\ \A t \in Task :
       /\ WF_vars(Heartbeat(t) /\ UNCHANGED faults)
       /\ WF_vars(CancelSeen(t))

----------------------------------------------------------------------------
(* Properties.                                                             *)

BeforeEnd == Early \cup {"prepared", "running"}

\* A task without its chat's lock is being stopped: it is flagged, or its
\* heartbeat is still there to find out (_heartbeat_lock, is_cancelled).
Watched ==
  \A t \in Task : pc[t] \in BeforeEnd /\ lock # t /\ t \notin harmed
                    => t \in flag \/ hb[t] \in {"on", "lost"}

\* A task that is over has given back the lock and its slot, whichever way it
\* ended, retries included; only a fault of its own, or a cancellation that hits
\* the cleanup itself, leaves them to their TTL (execute_agent_task, the outer finally).
GivenBack ==
  \A t \in Task : pc[t] = "done" /\ t \notin harmed => lock # t /\ t \notin slots

\* The chat shows running only while the last task that entered with it is still
\* to write the final status, or because that very task left it so: to the one
\* that took its lock, to a cancellation outside the loop's try, or to a fault.
\* Every other end takes the status back, and no task that lags behind brings it
\* back (execute_agent_task, the loop's finally and the error handler).
RunningHasCause ==
  status = "running" => runner = None \/ pc[runner] \in Looping \/ runner \in harmed

\* A task that works and was not cancelled loses the lock by no other task's
\* step: neither to an acquire nor to a late release, only to its own release,
\* a request that clears the lock, or a stall (the three Lua scripts).
LockKept ==
  [][\A t \in Task :
       lock = t /\ pc[t] \in Working /\ t \notin flag /\ hb[t] = "on" /\ lock' # t
         => pc[t] = "ending" \/ req.at = "delete" \/ faults' > faults]_vars

\* A task that runs without its chat's lock stops, however the lock was lost
\* (_heartbeat_lock: "so the agent loop stops at the next iteration check").
LoserStops ==
  \A t \in Task : (pc[t] = "running" /\ lock # t) ~> (pc[t] # "running" \/ t \in harmed)

\* Clearing the lock of a cancelled task cancels that task and no other
\* (get_active_agent_task: self-heal zombie locks).
HealsWhatItSaw ==
  req.at = "flag" /\ req.saw # None => req.who = req.saw

\* The chat of a task that runs with the lock has status running
\* (execute_agent_task: we must not flip it back).
OwnerShownRunning ==
  \A t \in Task : pc[t] = "running" /\ lock = t => status = "running"

\* Once no task works, the chat is not left at running (execute_agent_task:
\* "Finalize stale in_progress placeholder message and reset chat status").
ChatSettles ==
  status = "running" /\ harmed = {} => \E t \in Task : Executing(t)

\* A task that leaves the status to the one that took its lock leaves it to a task
\* that will write it (execute_agent_task: "the new task owns DB/stream state now").
HandoverTaken ==
  \A t \in Task : pc[t] = "finalizing" /\ outcome[t] = "superseded" /\ status = "running"
                    => \E u \in Task \ {t} : pc[u] \in Early \cup Looping

\* No more than Cap tasks have a slot (check_and_reserve_slot: atomically).
CapRespected == Cardinality(slots) <= Cap

----------------------------------------------------------------------------
(* The inductive invariant behind Watched, GivenBack and RunningHasCause.  *)

\* From the acquire on there is a heartbeat, until it has raised the flag.
StoppedOrBeating ==
  \A t \in Task : pc[t] \in BeforeEnd /\ t \notin harmed
                    => t \in flag \/ hb[t] \in {"on", "lost"}

\* The key names a task that will release it: a task found superseded was not
\* the holder, and cannot become it any more.
HolderReleases ==
  \A t \in Task : lock = t /\ t \notin harmed
                    => pc[t] \in Working /\ outcome[t] # "superseded"

\* A slot is taken when the message is admitted, not before.
SlotsOfAdmitted ==
  \A t \in Task : pc[t] \in {"new", "admitted"} => t \notin slots

\* An attempt begins without the outcome of an earlier one.
AttemptIsFresh ==
  \A t \in Task : pc[t] \in {"new", "admitted", "queued"} => outcome[t] = "none"

\* A task on its way to the final commit without writing the status has said so.
SupersededLeft ==
  \A t \in Task : pc[t] = "finalizing" /\ outcome[t] = "superseded" => runner # t

\* A request is about to flag the holder it read.
FlagsSomebody == req.at = "flag" => req.who \in Task

ChatInv ==
  /\ TypeOK /\ FlagsSomebody
  /\ StoppedOrBeating /\ HolderReleases /\ SlotsOfAdmitted
  /\ AttemptIsFresh /\ SupersededLeft
  /\ GivenBack /\ RunningHasCause
=============================================================================
