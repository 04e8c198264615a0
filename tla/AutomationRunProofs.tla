------------------------ MODULE AutomationRunProofs ------------------------
(***************************************************************************)
(* For any number of jobs, requests and users and any bounds: a run that   *)
(* waits for the answer to a contract breach has an open request, and a    *)
(* run that is recorded as succeeded was executed to its end.              *)
(***************************************************************************)
EXTENDS AutomationRun, TLAPS

\* The types of the row and of the job table.
RowType == [status : Status, retry : Nat, beat : {"fresh", "stale"}, gate : BOOLEAN]
JobType == [Job -> [kind : Kind, at : At]]

\* The state before the event is dispatched satisfies the invariant.
LEMMA RunInitInv == Init => RunInv
<1> SUFFICES ASSUME Init PROVE RunInv
  OBVIOUS
<1>1. run \in [status : Status, retry : Nat, beat : {"fresh", "stale"}, gate : BOOLEAN]
  BY DEF Init, Status
<1>2. job \in [Job -> [kind : Kind, at : At]]
  BY DEF Init, Kind, At
<1>3. answer \in [User -> [at : {"idle", "loaded", "enqueue"},
                           request : Request \cup {None},
                           choice : Choice, saw : Status]]
  BY DEF Init, NoAnswer, Choice, Status
<1>4. completed \in BOOLEAN /\ reresolved \in BOOLEAN
  BY DEF Init
<1>5. deliveries \in 0..MaxDeliveries /\ faults \in 0..MaxFaults
  BY RunBoundsAssumption DEF Init
<1>6. TypeOK
  BY <1>1, <1>2, <1>3, <1>4, <1>5 DEF Init, TypeOK
<1>7. LoadedExist
  BY DEF Init, LoadedExist, NoAnswer
<1>8. QED
  BY <1>6, <1>7
     DEF Init, RunInv, WaitsForAnswer, WaitingHasFreshRequest, SucceededMeansCompleted

\* What the row-writing helpers of the dispatcher return.
LEMMA RowWrites ==
  ASSUME run \in RowType, NEW s \in Status
  PROVE  /\ Stamped(s) \in RowType /\ Stamped(s).status = s
         /\ Retried(s) \in RowType /\ Retried(s).status = s
         /\ Guarded(s) \in RowType
         /\ Guarded(s).status = s \/ Guarded(s) = run
         /\ [run EXCEPT !.status = s] \in RowType
         /\ [run EXCEPT !.status = s].status = s
<1>1. Stamped(s) \in RowType /\ Stamped(s).status = s
  BY DEF RowType, Stamped
<1>2. Retried(s) \in RowType /\ Retried(s).status = s
  BY <1>1 DEF RowType, Retried
<1>3. Guarded(s) \in RowType /\ (Guarded(s).status = s \/ Guarded(s) = run)
  BY <1>1 DEF Guarded
<1>4. [run EXCEPT !.status = s] \in RowType /\ [run EXCEPT !.status = s].status = s
  BY DEF RowType
<1>5. QED
  BY <1>1, <1>2, <1>3, <1>4

\* What the heartbeat sweep writes.
LEMMA SweepWrites ==
  ASSUME run \in RowType, NEW n \in Nat
  PROVE  Swept(n) \in RowType /\ Swept(n).status \in {"expired", "failed"}
<1>1. CASE n <= MaxRetries
  BY <1>1 DEF RowType, Swept, Status, Terminal
<1>2. CASE ~(n <= MaxRetries)
  BY <1>2 DEF RowType, Swept, Status, Terminal
<1>3. QED
  BY <1>1, <1>2

\* A heartbeat, or its absence, leaves the status alone, and who set it.
LEMMA BeatWrites ==
  ASSUME run \in RowType, NEW b \in {"fresh", "stale"}
  PROVE  /\ [run EXCEPT !.beat = b] \in RowType
         /\ [run EXCEPT !.beat = b].status = run.status
         /\ [run EXCEPT !.beat = b].gate = run.gate
BY DEF RowType

\* What the job-table helpers return.
LEMMA JobWrites ==
  ASSUME job \in JobType, NEW j \in Job, NEW n \in Job, NEW a \in At, NEW k \in Kind
  PROVE  /\ Goes(j, a) \in JobType
         /\ GoesEnqueueing(j, a, n, k) \in JobType
         /\ [job EXCEPT ![n] = [kind |-> k, at |-> "start"]] \in JobType
BY DEF JobType, Goes, GoesEnqueueing, At

\* A step that touches neither requests nor answers, does not make the run
\* wait for an answer, and records success only for completed work, preserves the invariant.
LEMMA RowStep ==
  ASSUME RunInv,
         UNCHANGED <<request, answer>>,
         run' \in RowType, job' \in JobType,
         WaitsForAnswer' => WaitsForAnswer,
         beatSweep' \in [at : {"idle", "loaded", "enqueue"}, retry : Nat],
         timeouts' \subseteq Request,
         completed' \in BOOLEAN, reresolved' \in BOOLEAN,
         deliveries' \in 0..MaxDeliveries, faults' \in 0..MaxFaults,
         run'.status = "succeeded" => completed'
  PROVE  RunInv'
<1>1. TypeOK'
  BY DEF RunInv, TypeOK, RowType, JobType
<1>2. LoadedExist'
  BY DEF RunInv, LoadedExist
<1>3. WaitingHasFreshRequest'
  BY DEF RunInv, WaitingHasFreshRequest, FreshRequest
<1>4. QED
  BY <1>1, <1>2, <1>3 DEF RunInv, SucceededMeansCompleted

\* A step of a worker's job that does not pause the run.
LEMMA WorkerStep ==
  ASSUME RunInv,
         UNCHANGED jobStep,
         run' \in RowType, job' \in JobType,
         WaitsForAnswer' => WaitsForAnswer,
         completed' \in BOOLEAN,
         run'.status = "succeeded" => completed'
  PROVE  RunInv'
<1>1. /\ UNCHANGED <<request, answer>>
      /\ beatSweep' \in [at : {"idle", "loaded", "enqueue"}, retry : Nat]
      /\ timeouts' \subseteq Request
      /\ reresolved' \in BOOLEAN
      /\ deliveries' \in 0..MaxDeliveries /\ faults' \in 0..MaxFaults
  BY DEF jobStep, RunInv, TypeOK
<1>2. QED
  BY <1>1, RowStep

\* The pause of the dispatcher and of the resume task: the request it adds is
\* loaded by nobody, so it is the fresh one.
LEMMA PauseStep ==
  ASSUME RunInv, NEW j \in Job, NEW r \in Request, CheckpointAndPause(j, r)
  PROVE  RunInv'
<1>0. run \in RowType /\ "waiting_approval" \in Status
  BY DEF RunInv, TypeOK, RowType, Status
<1>1. run' \in RowType /\ run'.status = "waiting_approval"
  BY <1>0, RowWrites DEF CheckpointAndPause
<1>2. job' \in JobType
  BY JobWrites DEF RunInv, TypeOK, JobType, CheckpointAndPause, At, Kind
<1>3. request' \in [Request -> {"none", "open", "resolved"}]
  BY DEF RunInv, TypeOK, CheckpointAndPause
<1>4. TypeOK'
  BY <1>1, <1>2, <1>3 DEF RunInv, TypeOK, CheckpointAndPause, RowType, JobType
<1>5. LoadedExist'
  BY DEF RunInv, TypeOK, CheckpointAndPause, LoadedExist
<1>6. FreshRequest(r)'
  BY DEF RunInv, TypeOK, CheckpointAndPause, LoadedExist, FreshRequest
<1>7. QED
  BY <1>1, <1>4, <1>5, <1>6
     DEF RunInv, WaitingHasFreshRequest, SucceededMeansCompleted

\* Every step of a dispatch job preserves the invariant.
LEMMA DispatchStep ==
  ASSUME RunInv, NEW j \in Job, Dispatch(j)
  PROVE  RunInv'
<1>0. run \in RowType /\ job \in JobType /\ completed \in BOOLEAN
  BY DEF RunInv, TypeOK, RowType, JobType
<1>00. /\ {"queued", "preflight", "failed_preflight", "running", "succeeded",
           "failed"} \subseteq Status
       /\ {"requeue", "preflight", "allocate", "executing", "handoff", "ack"} \subseteq At
       /\ {"agent", "dispatch"} \subseteq Kind
  BY DEF Status, Terminal, Inflight, At, Kind
<1>000. run.status = "succeeded" => completed
  BY DEF RunInv, SucceededMeansCompleted
<1> USE <1>0, <1>00, <1>000 DEF WaitsForAnswer
<1>1. CASE Upsert(j)
  <2>1. run' \in RowType /\ (run'.status = "queued" \/ run' = run)
    BY <1>1, RowWrites DEF Upsert, Upserted
  <2>2. job' \in JobType
    <3>1. \A a \in At : Goes(j, a) \in JobType
      BY JobWrites
    <3>2. job' \in {Goes(j, "preflight"), Goes(j, "requeue"), Goes(j, "ack")}
      BY <1>1 DEF Upsert, Upserted
    <3>3. QED
      BY <3>1, <3>2
  <2>3. UNCHANGED jobStep /\ completed' = completed
    BY <1>1 DEF Upsert, Upserted
  <2>4. QED
    BY <2>1, <2>2, <2>3, WorkerStep
<1>2. CASE Requeue(j) \/ Preflight(j) \/ FailPreflight(j) \/ Run(j) \/ Fail(j)
  <2>1. run' \in RowType
        /\ run'.status \in {"queued", "preflight", "failed_preflight", "running", "failed"}
    <3>1. \/ run' = Retried("queued")
          \/ \E t \in {"preflight", "failed_preflight", "running", "failed"} :
                run' = Stamped(t)
      BY <1>2 DEF Requeue, Preflight, FailPreflight, Run, Fail
    <3>2. QED
      BY <3>1, RowWrites
  <2>2. job' \in JobType
    BY <1>2, JobWrites DEF Requeue, Preflight, FailPreflight, Run, Fail
  <2>3. UNCHANGED jobStep /\ completed' = completed
    BY <1>2 DEF Requeue, Preflight, FailPreflight, Run, Fail
  <2>4. QED
    BY <2>1, <2>2, <2>3, WorkerStep
<1>3. CASE Succeed(j)
  <2>1. run' \in RowType /\ (run'.status = "succeeded" \/ run' = run)
    BY <1>3, RowWrites DEF Succeed
  <2>2. job' \in JobType
    BY <1>3, JobWrites DEF Succeed
  <2>3. UNCHANGED jobStep /\ completed' = TRUE
    BY <1>3 DEF Succeed
  <2>4. QED
    BY <2>1, <2>2, <2>3, WorkerStep
<1>4. CASE HandedOff(j)
  <2>1. run' \in RowType /\ run'.status = run.status /\ run'.gate = run.gate
    BY <1>4, BeatWrites DEF HandedOff
  <2>2. job' \in JobType
    BY <1>4, JobWrites DEF HandedOff
  <2>3. UNCHANGED jobStep /\ completed' = completed
    BY <1>4 DEF HandedOff
  <2>4. QED
    BY <2>1, <2>2, <2>3, WorkerStep
<1>5. ASSUME NEW n \in Job, HandOff(j, n) \/ DeferUnderPressure(j, n) PROVE RunInv'
  <2>1. run' \in RowType /\ (run'.status = "queued" \/ run' = run)
    BY <1>5, RowWrites DEF HandOff, DeferUnderPressure
  <2>2. job' \in JobType
    BY <1>5, JobWrites DEF HandOff, DeferUnderPressure
  <2>3. UNCHANGED jobStep /\ completed' = completed
    BY <1>5 DEF HandOff, DeferUnderPressure
  <2>4. QED
    BY <2>1, <2>2, <2>3, WorkerStep
<1>6. QED
  BY <1>1, <1>2, <1>3, <1>4, <1>5, PauseStep DEF Dispatch

\* Every step of an agent task or a resume task preserves it.
LEMMA TaskStep ==
  ASSUME RunInv, NEW j \in Job, AgentTask(j) \/ ResumeTask(j)
  PROVE  RunInv'
<1>0. run \in RowType /\ job \in JobType /\ completed \in BOOLEAN
  BY DEF RunInv, TypeOK, RowType, JobType
<1>00. /\ {"running", "succeeded", "failed", "cancelled"} \subseteq Status
       /\ {"loop", "resume", "resuming", "ack"} \subseteq At
       /\ {"agent", "dispatch"} \subseteq Kind
  BY DEF Status, Terminal, Inflight, At, Kind
<1>000. run.status = "succeeded" => completed
  BY DEF RunInv, SucceededMeansCompleted
<1> USE <1>0, <1>00, <1>000 DEF WaitsForAnswer
<1>1. CASE StartAgent(j) \/ SkipAgent(j) \/ LoadResume(j)
  <2>1. job' \in JobType
    BY <1>1, JobWrites DEF StartAgent, SkipAgent, LoadResume
  <2>2. UNCHANGED jobStep /\ run' = run /\ completed' = completed
    BY <1>1 DEF StartAgent, SkipAgent, LoadResume
  <2>3. QED
    BY <2>1, <2>2, WorkerStep
<1>2. CASE Heartbeat(j)
  <2>1. run' \in RowType /\ run'.status = run.status /\ run'.gate = run.gate
    BY <1>2, BeatWrites DEF Heartbeat
  <2>2. UNCHANGED jobStep /\ job' = job /\ completed' = completed
    BY <1>2 DEF Heartbeat
  <2>3. QED
    BY <2>1, <2>2, WorkerStep
<1>3. ASSUME NEW s \in {"succeeded", "failed", "cancelled"}, FinalizeAgent(j, s)
      PROVE RunInv'
  <2>1. run' \in RowType /\ (run'.status = s \/ run' = run)
    BY <1>3, RowWrites DEF FinalizeAgent
  <2>2. job' \in JobType
    BY <1>3, JobWrites DEF FinalizeAgent
  <2>3. UNCHANGED jobStep /\ completed' = (completed \/ s = "succeeded")
    BY <1>3 DEF FinalizeAgent
  <2>4. completed' \in BOOLEAN /\ (run'.status = "succeeded" => completed')
    BY <2>1, <2>3
  <2>5. QED
    BY <2>1, <2>2, <2>3, <2>4, WorkerStep
<1>4. CASE Resume(j) \/ FailResume(j)
  <2>1. run' \in RowType /\ run'.status \in {"running", "failed"}
    BY <1>4, RowWrites DEF Resume, FailResume
  <2>2. job' \in JobType
    BY <1>4, JobWrites DEF Resume, FailResume
  <2>3. UNCHANGED jobStep /\ completed' = completed
    BY <1>4 DEF Resume, FailResume
  <2>4. QED
    BY <2>1, <2>2, <2>3, WorkerStep
<1>5. CASE SucceedResumed(j)
  <2>1. run' \in RowType /\ run'.status = "succeeded"
    BY <1>5, RowWrites DEF SucceedResumed
  <2>2. job' \in JobType
    BY <1>5, JobWrites DEF SucceedResumed
  <2>3. UNCHANGED jobStep /\ completed' = TRUE
    BY <1>5 DEF SucceedResumed
  <2>4. QED
    BY <2>1, <2>2, <2>3, WorkerStep
<1>6. ASSUME NEW n \in Job, ResumeAgent(j, n) PROVE RunInv'
  <2>1. job' \in JobType
    BY <1>6, JobWrites DEF ResumeAgent
  <2>2. UNCHANGED jobStep /\ run' = run /\ completed' = completed
    BY <1>6 DEF ResumeAgent
  <2>3. QED
    BY <2>1, <2>2, WorkerStep
<1>7. CASE GateAgent(j)
  <2>1. /\ run' \in RowType
        /\ run' = run \/ (run'.status = "waiting_approval" /\ run'.gate)
    BY <1>7 DEF GateAgent, Stamped, RowType, Status
  <2>2. job' \in JobType
    BY <1>7, JobWrites DEF GateAgent
  <2>3. UNCHANGED jobStep /\ completed' = completed
    BY <1>7 DEF GateAgent
  <2>4. (WaitsForAnswer' => WaitsForAnswer) /\ (run'.status = "succeeded" => completed')
    BY <2>1, <2>3
  <2>5. QED
    BY <2>1, <2>2, <2>3, <2>4, WorkerStep
<1>8. QED
  BY <1>1, <1>2, <1>3, <1>4, <1>5, <1>6, <1>7 DEF AgentTask, ResumeTask

\* The queue's own steps: a delivery, an acknowledgement, a dead worker.
LEMMA QueueStep ==
  ASSUME RunInv, NEW j \in Job, Deliver(j) \/ Ack(j) \/ Abort(j)
  PROVE  RunInv'
<1>0. run \in RowType /\ job \in JobType
  BY DEF RunInv, TypeOK, RowType, JobType
<1>00. {"free", "start", "ack"} \subseteq At /\ "dispatch" \in Kind
  BY DEF At, Kind
<1>1. /\ UNCHANGED <<run, request, answer, beatSweep, timeouts, completed, reresolved>>
      /\ deliveries' \in 0..MaxDeliveries /\ faults' \in 0..MaxFaults
  BY RunBoundsAssumption
     DEF RunInv, TypeOK, Deliver, Ack, Abort, Fault, jobStep
<1>2. job' \in JobType
  BY <1>0, <1>00, JobWrites DEF Deliver, Ack, Abort
<1>3. /\ beatSweep' \in [at : {"idle", "loaded", "enqueue"}, retry : Nat]
      /\ timeouts' \subseteq Request
      /\ completed' \in BOOLEAN /\ reresolved' \in BOOLEAN
      /\ run'.status = "succeeded" => completed'
  BY <1>1 DEF RunInv, TypeOK, SucceededMeansCompleted
<1>4. QED
  BY <1>0, <1>1, <1>2, <1>3, RowStep DEF WaitsForAnswer

\* The status a resolved request leaves is one of three.
LEMMA AnsweredStatus ==
  ASSUME NEW c \in Choice
  PROVE  Answered(c) \in {"queued", "failed", "cancelled"}
BY DEF Choice, Answered

\* A user resolves a request.  If it is the fresh one, the user loaded it while
\* the run was waiting, so the status they write differs from what they saw and
\* the run leaves waiting_approval; otherwise the fresh one stays open.
LEMMA ResolveStep ==
  ASSUME RunInv, NEW u \in User, Resolve(u)
  PROVE  RunInv'
<1> DEFINE r == answer[u].request
           s == Answered(answer[u].choice)
<1>0. run \in RowType /\ job \in JobType
  BY DEF RunInv, TypeOK, RowType, JobType
<1>1. /\ answer[u].at = "loaded"
      /\ answer[u] \in [at : {"idle", "loaded", "enqueue"}, request : Request \cup {None},
                        choice : Choice, saw : Status]
      /\ r \in Request
  BY DEF RunInv, TypeOK, LoadedExist, Resolve
<1>2. s \in {"queued", "failed", "cancelled"} /\ s \in Status
  BY <1>1, AnsweredStatus DEF Status, Terminal
<1>3. /\ request' = [request EXCEPT ![r] = "resolved"]
      /\ run' = IF s = answer[u].saw THEN [run EXCEPT !.beat = "fresh"] ELSE Stamped(s)
      /\ answer' = [answer EXCEPT ![u] = IF s = "queued"
                                           THEN [@ EXCEPT !.at = "enqueue"] ELSE NoAnswer]
      /\ reresolved' = (reresolved \/ request[r] = "resolved")
      /\ UNCHANGED <<job, beatSweep, timeouts, completed, deliveries, faults>>
  BY DEF Resolve
<1> HIDE DEF r, s
<1>4. /\ run' \in RowType
      /\ run'.status = s \/ (run'.status = run.status /\ run'.gate = run.gate)
      /\ s # answer[u].saw => run'.status = s
  BY <1>0, <1>2, <1>3, RowWrites, BeatWrites
<1>5. NoAnswer \in [at : {"idle", "loaded", "enqueue"}, request : Request \cup {None},
                    choice : Choice, saw : Status]
  BY DEF NoAnswer, Choice, Status
<1>6. answer' \in [User -> [at : {"idle", "loaded", "enqueue"},
                            request : Request \cup {None},
                            choice : Choice, saw : Status]]
  BY <1>1, <1>3, <1>5 DEF RunInv, TypeOK
<1>7. answer'[u].at # "loaded" /\ \A v \in User \ {u} : answer'[v] = answer[v]
  BY <1>1, <1>3 DEF RunInv, TypeOK, NoAnswer
<1>8. TypeOK'
  <2>1. request' \in [Request -> {"none", "open", "resolved"}]
    BY <1>1, <1>3 DEF RunInv, TypeOK
  <2>2. reresolved' \in BOOLEAN
    BY <1>3
  <2>3. QED
    BY <1>3, <1>4, <1>6, <2>1, <2>2 DEF RunInv, TypeOK, RowType
<1>9. LoadedExist'
  BY <1>1, <1>3, <1>7 DEF RunInv, TypeOK, LoadedExist
<1>10. WaitingHasFreshRequest'
  <2> SUFFICES ASSUME WaitsForAnswer'
               PROVE  \E q \in Request : FreshRequest(q)'
    BY DEF WaitingHasFreshRequest
  <2>1. WaitsForAnswer /\ s = answer[u].saw
    BY <1>2, <1>4 DEF WaitsForAnswer
  <2>2. PICK q \in Request : FreshRequest(q)
    BY <2>1 DEF RunInv, WaitingHasFreshRequest
  <2>3. q # r
    BY <1>1, <1>2, <2>1, <2>2 DEF FreshRequest, r
  <2>4. FreshRequest(q)'
    BY <1>1, <1>3, <1>7, <2>2, <2>3 DEF RunInv, TypeOK, FreshRequest
  <2>5. QED
    BY <2>4
<1>11. SucceededMeansCompleted'
  BY <1>2, <1>3, <1>4 DEF RunInv, SucceededMeansCompleted
<1>12. QED
  BY <1>8, <1>9, <1>10, <1>11 DEF RunInv

\* Every other step of an approval response preserves the invariant: loading a
\* request while the run waits keeps it fresh.
LEMMA RespondStep ==
  ASSUME RunInv, NEW u \in User, Respond(u)
  PROVE  RunInv'
<1> DEFINE Answer == [at : {"idle", "loaded", "enqueue"},
                      request : Request \cup {None}, choice : Choice, saw : Status]
<1>1. ASSUME NEW r \in Request, NEW c \in Choice, LoadRequest(u, r, c) PROVE RunInv'
  <2>1. [at |-> "loaded", request |-> r, choice |-> c, saw |-> run.status] \in Answer
    BY DEF RunInv, TypeOK
  <2>2. answer' \in [User -> Answer]
    BY <1>1, <2>1 DEF RunInv, TypeOK, LoadRequest
  <2>3. TypeOK'
    BY <1>1, <2>2 DEF RunInv, TypeOK, LoadRequest
  <2>4. LoadedExist'
    BY <1>1 DEF RunInv, TypeOK, LoadedExist, LoadRequest
  <2>5. WaitingHasFreshRequest'
    BY <1>1 DEF RunInv, TypeOK, WaitsForAnswer, WaitingHasFreshRequest, FreshRequest,
                LoadRequest
  <2>6. QED
    BY <1>1, <2>3, <2>4, <2>5 DEF RunInv, SucceededMeansCompleted, LoadRequest
<1>2. CASE (\E n \in Job : EnqueueResume(u, n)) \/ LoseResume(u)
  <2>1. NoAnswer \in Answer
    BY DEF NoAnswer, Choice, Status
  <2>2. answer' = [answer EXCEPT ![u] = NoAnswer]
    BY <1>2 DEF EnqueueResume, LoseResume
  <2>3. answer' \in [User -> Answer] /\ \A v \in User : answer'[v] \in {answer[v], NoAnswer}
    BY <2>1, <2>2 DEF RunInv, TypeOK
  <2>4. job' \in [Job -> [kind : Kind, at : At]]
    BY <1>2 DEF RunInv, TypeOK, EnqueueResume, LoseResume, Kind, At
  <2>5. /\ UNCHANGED <<run, request, beatSweep, timeouts, completed, reresolved, deliveries>>
        /\ faults' \in 0..MaxFaults
    BY <1>2, RunBoundsAssumption DEF RunInv, TypeOK, EnqueueResume, LoseResume, Fault
  <2>6. TypeOK'
    BY <2>3, <2>4, <2>5 DEF RunInv, TypeOK
  <2>7. LoadedExist'
    BY <2>3, <2>5 DEF RunInv, LoadedExist, NoAnswer
  <2>8. WaitingHasFreshRequest'
    BY <2>3, <2>5
       DEF RunInv, WaitsForAnswer, WaitingHasFreshRequest, FreshRequest, NoAnswer
  <2>9. QED
    BY <2>5, <2>6, <2>7, <2>8 DEF RunInv, SucceededMeansCompleted
<1>3. QED
  BY <1>1, <1>2, ResolveStep DEF Respond

\* Every step of the two sweeps preserves the invariant: a timeout takes the run
\* out of waiting_approval with the request, and the heartbeat sweep never sets it.
LEMMA SweepStep ==
  ASSUME RunInv, Sweep
  PROVE  RunInv'
<1>0. run \in RowType /\ job \in JobType
  BY DEF RunInv, TypeOK, RowType, JobType
<1>1. CASE GoStale
  <2>1. run' \in RowType /\ run'.status = run.status /\ run'.gate = run.gate
    BY <1>0, <1>1, BeatWrites DEF GoStale
  <2>2. /\ UNCHANGED <<job, request, answer, beatSweep, timeouts, completed, reresolved>>
        /\ deliveries' \in 0..MaxDeliveries /\ faults' \in 0..MaxFaults
    BY <1>1, RunBoundsAssumption DEF RunInv, TypeOK, GoStale, Fault
  <2>3. /\ beatSweep' \in [at : {"idle", "loaded", "enqueue"}, retry : Nat]
        /\ timeouts' \subseteq Request
        /\ completed' \in BOOLEAN /\ reresolved' \in BOOLEAN
        /\ run'.status = "succeeded" => completed'
    BY <2>1, <2>2 DEF RunInv, TypeOK, SucceededMeansCompleted
  <2>4. QED
    BY <1>0, <2>1, <2>2, <2>3, RowStep DEF WaitsForAnswer
<1>2. CASE SweepRead \/ SweepEnqueueLost \/ TimeoutRead \/ \E n \in Job : SweepEnqueue(n)
  <2>1. UNCHANGED <<run, request, answer, completed, reresolved, deliveries>>
    BY <1>2 DEF SweepRead, SweepEnqueueLost, TimeoutRead, SweepEnqueue
  <2>2. job' \in JobType
    BY <1>0, <1>2
       DEF SweepRead, SweepEnqueueLost, TimeoutRead, SweepEnqueue, JobType, Kind, At
  <2>3. beatSweep' \in [at : {"idle", "loaded", "enqueue"}, retry : Nat]
    BY <1>2 DEF RunInv, TypeOK, SweepRead, SweepEnqueueLost, TimeoutRead, SweepEnqueue
  <2>4. timeouts' \subseteq Request /\ faults' \in 0..MaxFaults
    BY <1>2, RunBoundsAssumption
       DEF RunInv, TypeOK, SweepRead, SweepEnqueueLost, TimeoutRead, SweepEnqueue,
           Fault, Open
  <2>5. /\ completed' \in BOOLEAN /\ reresolved' \in BOOLEAN
        /\ deliveries' \in 0..MaxDeliveries
        /\ run'.status = "succeeded" => completed'
    BY <2>1 DEF RunInv, TypeOK, SucceededMeansCompleted
  <2>6. QED
    BY <1>0, <2>1, <2>2, <2>3, <2>4, <2>5, RowStep DEF WaitsForAnswer
<1>3. CASE SweepWrite
  <2>1. beatSweep.retry + 1 \in Nat
    BY DEF RunInv, TypeOK
  <2>2. run' \in RowType /\ run'.status \in {"expired", "failed"}
    BY <1>0, <1>3, <2>1, SweepWrites DEF SweepWrite
  <2>3. beatSweep' \in [at : {"idle", "loaded", "enqueue"}, retry : Nat]
    BY <1>3 DEF SweepWrite
  <2>4. UNCHANGED <<job, request, answer, timeouts, completed, reresolved, deliveries, faults>>
    BY <1>3 DEF SweepWrite
  <2>5. /\ timeouts' \subseteq Request
        /\ completed' \in BOOLEAN /\ reresolved' \in BOOLEAN
        /\ deliveries' \in 0..MaxDeliveries /\ faults' \in 0..MaxFaults
    BY <2>4 DEF RunInv, TypeOK
  <2>6. QED
    BY <1>0, <2>2, <2>3, <2>4, <2>5, RowStep DEF WaitsForAnswer
<1>4. CASE TimeoutWrite
  <2>1. run' \in RowType /\ run'.status = "failed"
    BY <1>0, <1>4 DEF TimeoutWrite, RowType, Status, Terminal
  <2>2. /\ request' \in [Request -> {"none", "open", "resolved"}]
        /\ \A r \in Request : request'[r] \in {request[r], "resolved"}
    BY <1>4 DEF RunInv, TypeOK, TimeoutWrite
  <2>3. reresolved' \in BOOLEAN /\ timeouts' \subseteq Request
    BY <1>4 DEF TimeoutWrite
  <2>4. UNCHANGED <<job, answer, beatSweep, completed, deliveries, faults>>
    BY <1>4 DEF TimeoutWrite
  <2>5. TypeOK'
    BY <2>1, <2>2, <2>3, <2>4 DEF RunInv, TypeOK, RowType
  <2>6. LoadedExist'
    BY <2>2, <2>4 DEF RunInv, LoadedExist
  <2>7. QED
    BY <2>1, <2>5, <2>6
       DEF RunInv, WaitsForAnswer, WaitingHasFreshRequest, SucceededMeansCompleted
<1>5. QED
  BY <1>1, <1>2, <1>3, <1>4 DEF Sweep

\* A step that changes nothing.
LEMMA RunStutter == RunInv /\ UNCHANGED vars => RunInv'
BY DEF vars, RunInv, TypeOK, LoadedExist, WaitsForAnswer, WaitingHasFreshRequest,
       FreshRequest, SucceededMeansCompleted

\* The inductive invariant holds of every behaviour: jobs, users and sweeps,
\* whatever they had read, never leave a run that a contract breach paused
\* without a fresh request.
THEOREM RunInvariant == Spec => []RunInv
<1>1. RunInv /\ [Next]_vars => RunInv'
  BY DispatchStep, TaskStep, QueueStep, RespondStep, SweepStep, RunStutter DEF Next
<1>2. QED
  BY <1>1, RunInitInv, PTL DEF Spec

\* The state of the run, its jobs and its requests is well typed throughout.
THEOREM RunTypeCorrect == Spec => []TypeOK
<1>1. RunInv => TypeOK
  BY DEF RunInv
<1>2. QED
  BY <1>1, RunInvariant, PTL

\* A run that a contract breach paused always has an open approval request to
\* answer or to time out, also beside agent tasks that a tool gate stops (_checkpoint_and_pause, respond_to_approval, sweep_expired_approvals).
THEOREM WaitingRunsHaveRequests == Spec => []WaitingHasRequest
<1>1. RunInv => WaitingHasRequest
  BY DEF RunInv, WaitingHasFreshRequest, FreshRequest, WaitingHasRequest, Open
<1>2. QED
  BY <1>1, RunInvariant, PTL

\* A run is recorded as succeeded only after an execution of its action came to
\* its end (dispatch_automation, resume_run, _finalize_automation_run).
THEOREM SuccessIsEarned == Spec => []SucceededMeansCompleted
<1>1. RunInv => SucceededMeansCompleted
  BY DEF RunInv
<1>2. QED
  BY <1>1, RunInvariant, PTL
=============================================================================
