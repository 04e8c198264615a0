--------------------------- MODULE AutomationRun ---------------------------
(***************************************************************************)
(* The life of one automation_runs row, the run of one (automation, event) *)
(* pair: dispatch_automation, the agent task it hands work to, the         *)
(* approval pause and its resume, and the controller's two sweeps over     *)
(* running rows and open approval requests.                                *)
(*                                                                         *)
(* Every step is one database commit; what a step has read may be stale    *)
(* when the next one writes, as the code takes no row locks here.  Jobs    *)
(* come from ARQ, which hands a job to another worker when the first dies, *)
(* also when it dies after its last commit.  Time is abstracted:           *)
(* run.beat = "stale" is "heartbeat_at is older than _STALE_SECONDS", and  *)
(* an open request may be found past expires_at at any moment.             *)
(***************************************************************************)
EXTENDS Naturals, FiniteSets

CONSTANTS Job,            \* slots for ARQ jobs that exist at the same time
          Request,        \* approval requests the run may raise
          User,           \* users answering approval cards
          None,
          MaxRetries,     \* _MAX_RETRIES of the heartbeat sweep
          MaxDefers,      \* MAX_DEFER_ATTEMPTS of approval_pressure
          MaxDeliveries,  \* bound on dispatch jobs enqueued for the event
          MaxFaults       \* bound on dead workers, lost enqueues, late beats

ASSUME RunNoneAssumption == None \notin Request
ASSUME RunBoundsAssumption ==
  /\ MaxRetries \in Nat
  /\ MaxDefers \in Nat
  /\ MaxDeliveries \in Nat
  /\ MaxFaults \in Nat

VARIABLES run,         \* the automation_runs row; gate: a tool gate set its status
          job,         \* the ARQ jobs: what they do and where they are
          request,     \* the automation_approval_requests rows
          answer,      \* what each user's respond call has loaded
          beatSweep,   \* where sweep_stale_running is
          timeouts,    \* requests sweep_expired_approvals has read
          completed,   \* some execution of the action ran to its end (observer)
          reresolved,  \* some request was resolved a second time (observer)
          deliveries,  \* dispatch jobs enqueued for the event so far
          faults       \* faults so far

vars == <<run, job, request, answer, beatSweep, timeouts, completed, reresolved,
          deliveries, faults>>

----------------------------------------------------------------------------
Terminal  == {"succeeded", "failed", "expired", "cancelled"}
Inflight  == {"running", "preflight"}
Retryable == {"paused", "expired", "cancelled", "failed_preflight"}

\* _AUTOMATION_RUN_NON_TERMINAL, and the guard of the dispatcher's success.
NonTerminal == {"queued", "preflight", "running"}

Status == Terminal \cup Inflight \cup {"absent", "queued", "failed_preflight",
                                       "waiting_approval"}

Kind == {"dispatch", "resume", "agent"}

\* "ack": the task has returned and ARQ has not recorded it yet.
At == {"free", "start", "requeue", "preflight", "allocate", "executing",
       "handoff", "resume", "resuming", "loop", "ack"}

Choice == {"allow", "deny", "cancel_run"}

NoAnswer == [at |-> "idle", request |-> None, choice |-> "allow", saw |-> "absent"]

TypeOK ==
  /\ run \in [status : Status, retry : Nat, beat : {"fresh", "stale"}, gate : BOOLEAN]
  /\ job \in [Job -> [kind : Kind, at : At]]
  /\ request \in [Request -> {"none", "open", "resolved"}]
  /\ answer \in [User -> [at : {"idle", "loaded", "enqueue"},
                          request : Request \cup {None},
                          choice : Choice, saw : Status]]
  /\ beatSweep \in [at : {"idle", "loaded", "enqueue"}, retry : Nat]
  /\ timeouts \subseteq Request
  /\ completed \in BOOLEAN
  /\ reresolved \in BOOLEAN
  /\ deliveries \in 0..MaxDeliveries
  /\ faults \in 0..MaxFaults

Init ==
  /\ run = [status |-> "absent", retry |-> 0, beat |-> "fresh", gate |-> FALSE]
  /\ job = [j \in Job |-> [kind |-> "dispatch", at |-> "free"]]
  /\ request = [r \in Request |-> "none"]
  /\ answer = [u \in User |-> NoAnswer]
  /\ beatSweep = [at |-> "idle", retry |-> 0]
  /\ timeouts = {}
  /\ completed = FALSE
  /\ reresolved = FALSE
  /\ deliveries = 0
  /\ faults = 0

----------------------------------------------------------------------------
(* Helpers.                                                                *)

Fault == faults < MaxFaults /\ faults' = faults + 1

\* A status write that also stamps heartbeat_at, as all but the sweeps' do.
Stamped(s) == [run EXCEPT !.status = s, !.beat = "fresh", !.gate = FALSE]

\* The same with retry_count = retry_count + 1 in the UPDATE.
Retried(s) == [Stamped(s) EXCEPT !.retry = @ + 1]

\* A terminal write with WHERE status IN ('queued','preflight','running').
Guarded(s) == IF run.status \in NonTerminal THEN Stamped(s) ELSE run

Open == {r \in Request : request[r] = "open"}

Free(n) == job[n].at = "free"

\* Job j moves on.
Goes(j, at) == [job EXCEPT ![j].at = at]

\* Job j moves on and has put a new job of this kind into slot n.
GoesEnqueueing(j, at, n, kind) ==
  [job EXCEPT ![j].at = at, ![n] = [kind |-> kind, at |-> "start"]]

jobStep == <<request, answer, beatSweep, timeouts, reresolved, deliveries, faults>>

----------------------------------------------------------------------------
(* ARQ.                                                                    *)

\* The event is dispatched: by the cron or gateway producer, and again by
\* sweeps and drains that do not know whether the first one arrived.
Deliver(n) ==
  /\ deliveries < MaxDeliveries
  /\ Free(n)
  /\ deliveries' = deliveries + 1
  /\ job' = [job EXCEPT ![n] = [kind |-> "dispatch", at |-> "start"]]
  /\ UNCHANGED <<run, request, answer, beatSweep, timeouts, completed, reresolved, faults>>

\* ARQ records the job as done.
Ack(j) ==
  /\ job[j].at = "ack"
  /\ job' = Goes(j, "free")
  /\ UNCHANGED <<run, jobStep, completed>>

\* The worker dies: the job starts over.  Or the task raises: it is done.
Abort(j) ==
  /\ job[j].at \notin {"free", "start"}
  /\ Fault
  /\ \E at \in {"start", "ack"} : job' = Goes(j, at)
  /\ UNCHANGED <<run, request, answer, beatSweep, timeouts, completed, reresolved,
                 deliveries>>

----------------------------------------------------------------------------
(* dispatch_automation.                                                    *)

\* _upsert_run: the insert wins, or the row that is there is returned.
Upserted == IF run.status = "absent" THEN Stamped("queued") ELSE run

\* The branch table: terminal rows are looked at first, so that of the
\* retryable ones only failed_preflight and paused are retried.
Upsert(j) ==
  /\ job[j] = [kind |-> "dispatch", at |-> "start"]
  /\ run' = Upserted
  /\ \/ run.status = "absent" /\ job' = Goes(j, "preflight")
     \/ run.status \in Retryable \ Terminal /\ job' = Goes(j, "requeue")
     \/ run.status \notin {"absent"} \cup (Retryable \ Terminal) /\ job' = Goes(j, "ack")
  /\ UNCHANGED <<jobStep, completed>>

\* The retry branch writes by id, whatever the row has become.
Requeue(j) ==
  /\ job[j].at = "requeue"
  /\ run' = Retried("queued")
  /\ job' = Goes(j, "preflight")
  /\ UNCHANGED <<jobStep, completed>>

\* Contract, parent contract and workspace are in order.
Preflight(j) ==
  /\ job[j].at = "preflight"
  /\ run' = Stamped("preflight")
  /\ job' = Goes(j, "allocate")
  /\ UNCHANGED <<jobStep, completed>>

\* _mark_failed_preflight: contract, workspace, actions or budget are not.
FailPreflight(j) ==
  /\ job[j].at \in {"preflight", "allocate"}
  /\ run' = Stamped("failed_preflight")
  /\ job' = Goes(j, "ack")
  /\ UNCHANGED <<jobStep, completed>>

\* The budget is allocated and the action starts.
Run(j) ==
  /\ job[j].at = "allocate"
  /\ run' = Stamped("running")
  /\ job' = Goes(j, "executing")
  /\ UNCHANGED <<jobStep, completed>>

\* app.invoke, gateway.send, a Tier-1 pod: done and delivered in this job.
Succeed(j) ==
  /\ job[j].at = "executing"
  /\ run' = Guarded("succeeded")
  /\ completed' = TRUE
  /\ job' = Goes(j, "ack")
  /\ UNCHANGED jobStep

\* _finalize_failure: the action or its delivery raised, the latter possibly
\* after an agent task was enqueued.
Fail(j) ==
  /\ job[j].at \in {"executing", "handoff", "resuming"}
  /\ run' = Stamped("failed")
  /\ job' = Goes(j, "ack")
  /\ UNCHANGED <<jobStep, completed>>

\* agent.run: execute_agent_task is enqueued ...
HandOff(j, n) ==
  /\ job[j].at = "executing"
  /\ Free(n)
  /\ job' = GoesEnqueueing(j, "handoff", n, "agent")
  /\ UNCHANGED <<run, jobStep, completed>>

\* Mistake: the hand-off is taken for the end of the run.
HandedOffSucceeded(j) ==
  /\ job[j].at = "handoff"
  /\ run' = Guarded("succeeded")
  /\ job' = Goes(j, "ack")
  /\ UNCHANGED <<jobStep, completed>>

\* ... and the receipt is stored; the status stays what it is.
HandedOff(j) ==
  /\ job[j].at = "handoff"
  /\ run' = [run EXCEPT !.beat = "fresh"]
  /\ job' = Goes(j, "ack")
  /\ UNCHANGED <<jobStep, completed>>

\* Mistake: the pause forgets to add the approval request.
CheckpointAndPauseSilently(j, r) ==
  /\ job[j].at \in {"executing", "resuming"}
  /\ request[r] = "none"
  /\ run' = Stamped("waiting_approval")
  /\ job' = Goes(j, "ack")
  /\ UNCHANGED <<jobStep, completed>>

\* A contract breach: request, checkpoint and status in one commit.
CheckpointAndPause(j, r) ==
  /\ job[j].at \in {"executing", "resuming"}
  /\ request[r] = "none"
  /\ request' = [request EXCEPT ![r] = "open"]
  /\ run' = Stamped("waiting_approval")
  /\ job' = Goes(j, "ack")
  /\ UNCHANGED <<answer, beatSweep, timeouts, completed, reresolved, deliveries, faults>>

\* The checkpoint cannot be built and the pressure cap is reached: a deferred
\* dispatch is enqueued and the run goes back to the queue.  (With a slot, or
\* after the last attempt, the run fails: Fail.)
DeferUnderPressure(j, n) ==
  /\ job[j].at = "executing"
  /\ run.retry < MaxDefers
  /\ Free(n)
  /\ run' = Retried("queued")
  /\ job' = GoesEnqueueing(j, "ack", n, "dispatch")
  /\ UNCHANGED <<jobStep, completed>>

----------------------------------------------------------------------------
(* execute_agent_task, the tail of an agent.run.                           *)

StartAgent(j) ==
  /\ job[j] = [kind |-> "agent", at |-> "start"]
  /\ job' = Goes(j, "loop")
  /\ UNCHANGED <<run, jobStep, completed>>

\* The project is gone or the chat is busy: the task returns and the row is
\* left as it is.
SkipAgent(j) ==
  /\ job[j] = [kind |-> "agent", at |-> "start"]
  /\ job' = Goes(j, "ack")
  /\ UNCHANGED <<run, jobStep, completed>>

\* _heartbeat_automation_run.
Heartbeat(j) ==
  /\ job[j].at = "loop"
  /\ run.status = "running" /\ run.beat = "stale"
  /\ run' = [run EXCEPT !.beat = "fresh"]
  /\ UNCHANGED <<job, jobStep, completed>>

\* _finalize_automation_run when the agent has ended.
FinalizeAgent(j, s) ==
  /\ job[j].at = "loop"
  /\ run' = Guarded(s)
  /\ completed' = (completed \/ s = "succeeded")
  /\ job' = Goes(j, "ack")
  /\ UNCHANGED jobStep

\* ApprovalRequired: a gated tool stops the agent, and the same guarded write
\* makes the run wait.  No approval request is added.
GateAgent(j) ==
  /\ job[j].at = "loop"
  /\ run' = IF run.status \in NonTerminal
              THEN [Stamped("waiting_approval") EXCEPT !.gate = TRUE] ELSE run
  /\ job' = Goes(j, "ack")
  /\ UNCHANGED <<jobStep, completed>>

----------------------------------------------------------------------------
(* respond_to_approval and resume_automation_run.                          *)

\* The request is loaded with resolved_at NULL (otherwise: 409) ...
LoadRequest(u, r, c) ==
  /\ answer[u].at = "idle"
  /\ request[r] = "open"
  /\ answer' = [answer EXCEPT ![u] = [at |-> "loaded", request |-> r,
                                      choice |-> c, saw |-> run.status]]
  /\ UNCHANGED <<run, job, request, beatSweep, timeouts, completed, reresolved,
                 deliveries, faults>>

Answered(c) == CASE c = "allow" -> "queued"
                 [] c = "deny" -> "failed"
                 [] c = "cancel_run" -> "cancelled"

\* ... and resolved, with the new status unless it is the one that was loaded.
Resolve(u) ==
  LET r == answer[u].request
      s == Answered(answer[u].choice)
  IN  /\ answer[u].at = "loaded"
      /\ request' = [request EXCEPT ![r] = "resolved"]
      /\ reresolved' = (reresolved \/ request[r] = "resolved")
      /\ run' = IF s = answer[u].saw THEN [run EXCEPT !.beat = "fresh"] ELSE Stamped(s)
      /\ answer' = [answer EXCEPT ![u] = IF s = "queued"
                                           THEN [@ EXCEPT !.at = "enqueue"] ELSE NoAnswer]
      /\ UNCHANGED <<job, beatSweep, timeouts, completed, deliveries, faults>>

EnqueueResume(u, n) ==
  /\ answer[u].at = "enqueue"
  /\ Free(n)
  /\ job' = [job EXCEPT ![n] = [kind |-> "resume", at |-> "start"]]
  /\ answer' = [answer EXCEPT ![u] = NoAnswer]
  /\ UNCHANGED <<run, request, beatSweep, timeouts, completed, reresolved,
                 deliveries, faults>>

\* The enqueue fails: logged.
LoseResume(u) ==
  /\ answer[u].at = "enqueue"
  /\ Fault
  /\ answer' = [answer EXCEPT ![u] = NoAnswer]
  /\ UNCHANGED <<run, job, request, beatSweep, timeouts, completed, reresolved,
                 deliveries>>

\* resume_run: only a waiting, queued or paused run is resumed.
LoadResume(j) ==
  /\ job[j] = [kind |-> "resume", at |-> "start"]
  /\ job' = Goes(j, IF run.status \in {"waiting_approval", "queued", "paused"}
                      THEN "resume" ELSE "ack")
  /\ UNCHANGED <<run, jobStep, completed>>

Resume(j) ==
  /\ job[j].at = "resume"
  /\ run' = Stamped("running")
  /\ job' = Goes(j, "resuming")
  /\ UNCHANGED <<jobStep, completed>>

\* The definition or its actions are gone: _finalize_failure.
FailResume(j) ==
  /\ job[j].at = "resume"
  /\ run' = Stamped("failed")
  /\ job' = Goes(j, "ack")
  /\ UNCHANGED <<jobStep, completed>>

\* redispatch: the success is written by id.
SucceedResumed(j) ==
  /\ job[j].at = "resuming"
  /\ run' = Stamped("succeeded")
  /\ completed' = TRUE
  /\ job' = Goes(j, "ack")
  /\ UNCHANGED jobStep

\* agent_continue, restart_from_checkpoint: the agent task takes over.
ResumeAgent(j, n) ==
  /\ job[j].at = "resuming"
  /\ Free(n)
  /\ job' = GoesEnqueueing(j, "ack", n, "agent")
  /\ UNCHANGED <<run, jobStep, completed>>

----------------------------------------------------------------------------
(* The controller's sweeps (its lease: see ControllerLease).               *)

Looping == \E j \in Job : job[j].at = "loop"

\* Ninety seconds pass without a heartbeat: only an agent loop sends any.
GoStale ==
  /\ run.status = "running" /\ run.beat = "fresh"
  /\ IF Looping THEN Fault ELSE UNCHANGED faults
  /\ run' = [run EXCEPT !.beat = "stale"]
  /\ UNCHANGED <<job, request, answer, beatSweep, timeouts, completed, reresolved,
                 deliveries>>

\* sweep_stale_running reads the row ...
SweepRead ==
  /\ beatSweep.at = "idle"
  /\ run.status = "running" /\ run.beat = "stale"
  /\ beatSweep' = [at |-> "loaded", retry |-> run.retry]
  /\ UNCHANGED <<run, job, request, answer, timeouts, completed, reresolved,
                 deliveries, faults>>

\* Mistake: a run whose retries are used up is left alone.
SweptForgettingExhausted(n) ==
  IF n <= MaxRetries THEN [run EXCEPT !.status = "expired", !.retry = n] ELSE run

\* Mistake: the expired row gets a status the model does not know.
SweptTimedOut(n) ==
  [run EXCEPT !.status = IF n <= MaxRetries THEN "timed_out" ELSE "failed", !.retry = n]

Swept(n) ==
  [run EXCEPT !.status = IF n <= MaxRetries THEN "expired" ELSE "failed", !.retry = n]

\* ... and writes it by id, with the retry count it had read.
SweepWrite ==
  LET n == beatSweep.retry + 1
  IN  /\ beatSweep.at = "loaded"
      /\ run' = Swept(n)
      /\ beatSweep' = [at |-> IF n <= MaxRetries THEN "enqueue" ELSE "idle", retry |-> 0]
      /\ UNCHANGED <<job, request, answer, timeouts, completed, reresolved,
                     deliveries, faults>>

\* After the commit the retry is enqueued under the run's id.
SweepEnqueue(n) ==
  /\ beatSweep.at = "enqueue"
  /\ Free(n)
  /\ job' = [job EXCEPT ![n] = [kind |-> "dispatch", at |-> "start"]]
  /\ beatSweep' = [beatSweep EXCEPT !.at = "idle"]
  /\ UNCHANGED <<run, request, answer, timeouts, completed, reresolved,
                 deliveries, faults>>

\* That enqueue fails: logged.
SweepEnqueueLost ==
  /\ beatSweep.at = "enqueue"
  /\ Fault
  /\ beatSweep' = [beatSweep EXCEPT !.at = "idle"]
  /\ UNCHANGED <<run, job, request, answer, timeouts, completed, reresolved, deliveries>>

\* sweep_expired_approvals reads the open requests past expires_at ...
TimeoutRead ==
  /\ timeouts = {}
  /\ \E S \in SUBSET Open : S # {} /\ timeouts' = S
  /\ UNCHANGED <<run, job, request, answer, beatSweep, completed, reresolved,
                 deliveries, faults>>

\* Mistake: the sweep resolves the requests and forgets their run.
TimeoutWriteRequestsOnly ==
  /\ timeouts # {}
  /\ request' = [r \in Request |-> IF r \in timeouts THEN "resolved" ELSE request[r]]
  /\ reresolved' = (reresolved \/ \E r \in timeouts : request[r] = "resolved")
  /\ timeouts' = {}
  /\ UNCHANGED <<run, job, answer, beatSweep, completed, deliveries, faults>>

\* ... and resolves them and fails the run by id.
TimeoutWrite ==
  /\ timeouts # {}
  /\ request' = [r \in Request |-> IF r \in timeouts THEN "resolved" ELSE request[r]]
  /\ reresolved' = (reresolved \/ \E r \in timeouts : request[r] = "resolved")
  /\ run' = [run EXCEPT !.status = "failed"]
  /\ timeouts' = {}
  /\ UNCHANGED <<job, answer, beatSweep, completed, deliveries, faults>>

----------------------------------------------------------------------------
Dispatch(j) ==
  \/ Upsert(j) \/ Requeue(j) \/ Preflight(j) \/ FailPreflight(j) \/ Run(j)
  \/ Succeed(j) \/ Fail(j) \/ HandedOff(j)
  \/ \E r \in Request : CheckpointAndPause(j, r)
  \/ \E n \in Job : HandOff(j, n) \/ DeferUnderPressure(j, n)

AgentTask(j) ==
  \/ StartAgent(j) \/ SkipAgent(j) \/ Heartbeat(j) \/ GateAgent(j)
  \/ \E s \in {"succeeded", "failed", "cancelled"} : FinalizeAgent(j, s)

ResumeTask(j) ==
  \/ LoadResume(j) \/ Resume(j) \/ FailResume(j) \/ SucceedResumed(j)
  \/ \E n \in Job : ResumeAgent(j, n)

Respond(u) ==
  \/ \E r \in Request, c \in Choice : LoadRequest(u, r, c)
  \/ Resolve(u) \/ LoseResume(u)
  \/ \E n \in Job : EnqueueResume(u, n)

Sweep ==
  \/ GoStale \/ SweepRead \/ SweepWrite \/ SweepEnqueueLost
  \/ TimeoutRead \/ TimeoutWrite
  \/ \E n \in Job : SweepEnqueue(n)

Next ==
  \/ \E j \in Job : Deliver(j) \/ Ack(j) \/ Abort(j) \/ Dispatch(j)
                      \/ AgentTask(j) \/ ResumeTask(j)
  \/ \E u \in User : Respond(u)
  \/ Sweep

Spec == Init /\ [][Next]_vars

----------------------------------------------------------------------------
(* Fairness: workers finish the jobs they have (worker_job_timeout), ARQ   *)
(* hands out queued jobs, the leader's sweeps keep running (see            *)
(* FailoverCompletes of ControllerLease).  Nothing is owed by users, by    *)
(* the event's producers, or by faults.                                    *)

Fairness ==
  /\ \A j \in Job :
       /\ WF_vars(Ack(j))
       /\ WF_vars(Dispatch(j))
       /\ WF_vars(StartAgent(j) \/ \E s \in {"succeeded", "failed"} : FinalizeAgent(j, s))
       /\ WF_vars(ResumeTask(j) \/ Fail(j))
  /\ \A u \in User : WF_vars(Resolve(u)) /\ WF_vars(\E n \in Job : EnqueueResume(u, n))
  /\ WF_vars(GoStale /\ ~Looping) /\ WF_vars(SweepRead) /\ WF_vars(SweepWrite)
  /\ WF_vars(\E n \in Job : SweepEnqueue(n))
  /\ WF_vars(TimeoutRead) /\ WF_vars(TimeoutWrite)

FairSpec == Spec /\ Fairness

----------------------------------------------------------------------------
(* Properties.                                                             *)

\* The run waits for the answer to a contract breach, not to a tool gate.
WaitsForAnswer == run.status = "waiting_approval" /\ ~run.gate

\* A run that waits after a contract breach has an open request: there is always
\* a card to answer or to time out, however answers, timeouts, duplicate jobs,
\* tool gates and repeated pauses overlap (_checkpoint_and_pause adds the request
\* in the commit that sets the status; both resolvers leave the status in theirs).
\* A tool gate adds none: GateHasRequest.
WaitingHasRequest == WaitsForAnswer => Open # {}

\* Why: while the run waits, some open request was loaded by nobody before the
\* run began to wait, so whoever resolves it also writes the status.  A user
\* who loaded it while the run was queued would, with "allow", leave the status
\* alone; but then the run had to leave and re-enter waiting_approval since,
\* and that added another request.
FreshRequest(r) ==
  /\ request[r] = "open"
  /\ \A u \in User : answer[u].at = "loaded" /\ answer[u].request = r
                       => answer[u].saw = "waiting_approval"
WaitingHasFreshRequest ==
  WaitsForAnswer => \E r \in Request : FreshRequest(r)

\* Only requests that exist are loaded.
LoadedExist ==
  \A u \in User : answer[u].at = "loaded" =>
     answer[u].request \in Request /\ request[answer[u].request] # "none"

\* A run is recorded as succeeded only if some execution of its action came
\* to its end: handing work to the agent worker is not success
\* (dispatch_automation's async hand-off branch).
SucceededMeansCompleted == run.status = "succeeded" => completed

\* The inductive invariant of the specification.
RunInv ==
  /\ TypeOK
  /\ LoadedExist
  /\ WaitingHasFreshRequest
  /\ SucceededMeansCompleted

\* A run does not stay running for ever, whichever worker dies or returns
\* without a word (sweep_stale_running).
RunningEnds == (run.status = "running") ~> (run.status # "running")

\* A run does not wait for the answer to a contract breach for ever
\* (sweep_expired_approvals).
WaitingEnds == WaitsForAnswer ~> (run.status # "waiting_approval")

\* What execute_agent_task says of a run that a tool gate stopped: it is handed
\* "off to the approval queue", so there is a request that somebody can answer
\* or the timeout sweep can meet.
GateHasRequest == run.status = "waiting_approval" /\ run.gate => Open # {}

\* What heartbeat_sweep says: a row with an old heartbeat "is by definition
\* orphaned", so no worker executes a run while the sweep expires it.
SweepsOrphans ==
  [][run.status = "running" /\ run'.status = "expired"
       => \A j \in Job : job[j].at \notin {"executing", "resuming", "loop"}]_vars

\* What heartbeat_sweep says: the re-enqueued worker flips an expired run back
\* to queued.
ExpiredRetried == (run.status = "expired") ~> (run.status # "expired")

\* What _handle_checkpoint_pressure_fallback says of the run it leaves queued:
\* "the next dispatch picks it up after the backoff window".
QueuedEnds == (run.status = "queued") ~> (run.status # "queued")

\* What respond_to_approval says: a request is resolved once, the second
\* caller gets a 409.
ResolvedOnce == ~reresolved

\* What dispatch_automation says: "we never re-execute work that's already in
\* flight".
SingleExecution ==
  \A i, j \in Job :
     /\ job[i].at \in {"executing", "loop"}
     /\ job[j].at \in {"executing", "loop"}
     => i = j
=============================================================================
