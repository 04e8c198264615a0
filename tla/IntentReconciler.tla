-------------------------- MODULE IntentReconciler --------------------------
(***************************************************************************)
(* Controller intents on top of the leader election of ControllerLease: a  *)
(* leader records the mutations it wants (reap_idle_runtimes, through      *)
(* record_intent_with_lease) in transactions that lock and verify the      *)
(* lease row; every leader's reconciler loop takes batches of pending      *)
(* intents, applies those of its own term to Kubernetes or Docker and      *)
(* marks the others superseded.  The reconciler compares terms with the    *)
(* token it holds in memory and marks rows by id alone.                    *)
(***************************************************************************)
EXTENDS ControllerLease

CONSTANTS Intent,        \* intents that may be recorded
          MaxAttempts    \* _MAX_ATTEMPTS

ASSUME MaxAttemptsAssumption == MaxAttempts \in Nat \ {0}

VARIABLES intent,     \* the controller_intents rows
          recording,  \* processes inside a verified record transaction
          batch,      \* rows (id, attempts) each tick has read and not done
          applying,   \* the row whose mutation a tick is waiting for
          mutatedBy   \* processes that ever issued an intent's mutation (observer)

intentVars == <<intent, recording, batch, applying, mutatedBy>>
allVars == <<vars, intentVars>>

IntentStatus == {"absent", "pending", "applied", "superseded", "failed"}
Row == Intent \X (0..MaxAttempts)

IntentTypeOK ==
  /\ TypeOK
  /\ intent \in [Intent -> [status : IntentStatus, term : Nat,
                            by : Holder \cup {None}, attempts : 0..MaxAttempts]]
  /\ recording \subseteq Holder
  /\ batch \in [Holder -> SUBSET Row]
  /\ applying \in [Holder -> Row \cup {None}]
  /\ mutatedBy \in [Intent -> SUBSET Holder]

IntentInit ==
  /\ Init
  /\ intent = [i \in Intent |-> [status |-> "absent", term |-> 0, by |-> None,
                                 attempts |-> 0]]
  /\ recording = {}
  /\ batch = [h \in Holder |-> {}]
  /\ applying = [h \in Holder |-> None]
  /\ mutatedBy = [i \in Intent |-> {}]

Pending == {i \in Intent : intent[i].status = "pending"}

----------------------------------------------------------------------------
(* Recording: reap_idle_runtimes, one transaction per idle deployment.     *)

\* Mistake: the intent's transaction verifies without FOR UPDATE.
RecordVerifyUnlocked(h) ==
  /\ sup[h] = "leading" /\ h \notin recording
  /\ lease.term = token[h]
  /\ recording' = recording \cup {h}
  /\ UNCHANGED <<vars, intent, batch, applying, mutatedBy>>

\* SELECT ... FOR UPDATE finds our term.  (Another term raises LeaseLost and
\* nothing is written.)
RecordVerify(h) ==
  /\ sup[h] = "leading" /\ h \notin recording
  /\ rowLock = None
  /\ lease.term = token[h]
  /\ rowLock' = h
  /\ recording' = recording \cup {h}
  /\ UNCHANGED <<lease, supVars, tick, stale, faults>>
  /\ UNCHANGED <<intent, batch, applying, mutatedBy>>

RecordCommit(h, i) ==
  /\ h \in recording
  /\ intent[i].status = "absent"
  /\ intent' = [intent EXCEPT ![i] = [status |-> "pending", term |-> token[h],
                                      by |-> h, attempts |-> 0]]
  /\ rowLock' = None
  /\ recording' = recording \ {h}
  /\ UNCHANGED <<lease, supVars, tick, stale, faults>>
  /\ UNCHANGED <<batch, applying, mutatedBy>>

\* The insert or the commit fails: rolled back, the pass goes on.
RecordError(h) ==
  /\ h \in recording
  /\ rowLock' = None
  /\ recording' = recording \ {h}
  /\ UNCHANGED <<lease, supVars, tick, stale, faults>>
  /\ UNCHANGED <<intent, batch, applying, mutatedBy>>

----------------------------------------------------------------------------
(* Reconciling: tick reads a batch once, then works through it.            *)

ReadBatch(h) ==
  /\ sup[h] = "leading"
  /\ batch[h] = {}
  /\ Pending # {}
  /\ batch' = [batch EXCEPT ![h] = {<<i, intent[i].attempts>> : i \in Pending}]
  /\ UNCHANGED <<vars, intent, recording, applying, mutatedBy>>

\* mark_superseded: the row carries another term than our token.
Supersede(h, r) ==
  /\ applying[h] = None /\ r \in batch[h]
  /\ intent[r[1]].term # token[h]
  /\ intent' = [intent EXCEPT ![r[1]].status = "superseded"]
  /\ batch' = [batch EXCEPT ![h] = @ \ {r}]
  /\ UNCHANGED <<vars, recording, applying, mutatedBy>>

\* Mistake: the reconciler applies whatever is pending.
ApplyAnyTerm(h, r) ==
  /\ applying[h] = None /\ r \in batch[h]
  /\ applying' = [applying EXCEPT ![h] = r]
  /\ mutatedBy' = [mutatedBy EXCEPT ![r[1]] = @ \cup {h}]
  /\ UNCHANGED <<vars, intent, recording, batch>>

\* reconciler.apply is called; the call leaves for Kubernetes or Docker.
Apply(h, r) ==
  /\ applying[h] = None /\ r \in batch[h]
  /\ intent[r[1]].term = token[h]
  /\ applying' = [applying EXCEPT ![h] = r]
  /\ mutatedBy' = [mutatedBy EXCEPT ![r[1]] = @ \cup {h}]
  /\ UNCHANGED <<vars, intent, recording, batch>>

\* One row is done: the tick goes to the next of its batch.
RowDone(h) ==
  /\ applying[h] # None
  /\ applying' = [applying EXCEPT ![h] = None]
  /\ batch' = [batch EXCEPT ![h] = @ \ {applying[h]}]

\* The call succeeded: mark_applied.
ApplyOk(h) ==
  /\ RowDone(h)
  /\ intent' = [intent EXCEPT ![applying[h][1]].status = "applied"]
  /\ UNCHANGED <<vars, recording, mutatedBy>>

\* 409: retried by the next tick, attempts not counted.
ApplyConflict(h) ==
  /\ RowDone(h)
  /\ Fault
  /\ UNCHANGED <<lease, rowLock, supVars, tick, stale>>
  /\ UNCHANGED <<intent, recording, mutatedBy>>

\* Mistake: a failure is never counted.
ApplyErrorUncounted(h) ==
  /\ RowDone(h)
  /\ UNCHANGED <<vars, intent, recording, mutatedBy>>

\* Any other error: attempts, counted from the row as it was read, and after
\* the last one mark_failed.
ApplyError(h) ==
  /\ RowDone(h)
  /\ LET i == applying[h][1]
         attempts == applying[h][2] + 1
     IN  intent' = [intent EXCEPT
           ![i].attempts = attempts,
           ![i].status = IF attempts >= MaxAttempts THEN "failed" ELSE @]
  /\ UNCHANGED <<vars, recording, mutatedBy>>

\* A mark_* or a commit fails: the whole tick is abandoned and logged.
ReconcileAbort(h) ==
  /\ batch[h] # {}
  /\ Fault
  /\ batch' = [batch EXCEPT ![h] = {}]
  /\ applying' = [applying EXCEPT ![h] = None]
  /\ UNCHANGED <<lease, rowLock, supVars, tick, stale>>
  /\ UNCHANGED <<intent, recording, mutatedBy>>

----------------------------------------------------------------------------
\* A supervisor step; the tasks of a process that no longer leads are gone.
SuperviseTasks(h) ==
  /\ Supervise(h)
  /\ IF sup'[h] = "leading"
       THEN UNCHANGED <<recording, batch, applying>>
       ELSE /\ recording' = recording \ {h}
            /\ batch' = [batch EXCEPT ![h] = {}]
            /\ applying' = [applying EXCEPT ![h] = None]
  /\ UNCHANGED <<intent, mutatedBy>>

Reconcile(h) ==
  \/ ReadBatch(h) \/ ApplyOk(h) \/ ApplyConflict(h) \/ ApplyError(h)
  \/ ReconcileAbort(h)
  \/ \E r \in batch[h] : Supersede(h, r) \/ Apply(h, r)

Record(h) ==
  RecordVerify(h) \/ RecordError(h) \/ \E i \in Intent : RecordCommit(h, i)

Expire == (ExpireAbandoned \/ ExpireLate) /\ UNCHANGED intentVars

IntentNext ==
  \/ \E h \in Holder : SuperviseTasks(h) \/ Record(h) \/ Reconcile(h)
  \/ Expire

IntentSpec == IntentInit /\ [][IntentNext]_allVars

----------------------------------------------------------------------------
(* Fairness: as in ControllerLease, and the reconciler loop keeps ticking  *)
(* and a call it waits for returns.                                        *)

IntentFairness ==
  /\ WF_allVars(ExpireAbandoned /\ UNCHANGED intentVars)
  /\ \A h \in Holder :
       /\ WF_allVars(SuperviseTasks(h) /\ (Start(h) \/ Promote(h) \/ StandDown(h) \/ Stop(h)))
       /\ SF_allVars(SuperviseTasks(h) /\ Acquire(h))
       /\ SF_allVars(SuperviseTasks(h) /\ Renew(h))
       /\ SF_allVars(SuperviseTasks(h) /\ Release(h))
       /\ WF_allVars(RecordError(h) \/ \E i \in Intent : RecordCommit(h, i))
       /\ WF_allVars(ReadBatch(h) \/ \E r \in batch[h] : Supersede(h, r) \/ Apply(h, r))
       /\ WF_allVars(ApplyOk(h) \/ ApplyError(h))

FairIntentSpec == IntentSpec /\ IntentFairness

----------------------------------------------------------------------------
(* Properties.                                                             *)

\* A mutation is only ever issued by the process that recorded it, in the
\* leadership it recorded it in: no later leader executes what a deposed one
\* decided (term check in reconciler.tick, FOR UPDATE in
\* record_intent_with_lease, exclusive terms).
MutatedByRecorder ==
  \A i \in Intent : mutatedBy[i] \subseteq {intent[i].by}

\* Intents are recorded under the term that is current at their commit: an
\* absent row turns pending only with the row's term
\* (record_intent_with_lease).
RecordedUnderLease ==
  [][\A i \in Intent :
        intent[i].status = "absent" /\ intent'[i].status # "absent"
          => intent'[i].term = lease.term]_allVars

\* No intent stays pending for ever while a controller is left to serve it,
\* whatever leader changes happen meanwhile (reconciler.tick supersedes what
\* its term did not record).
IntentsSettle ==
  \A i \in Intent :
     (intent[i].status = "pending") ~> (intent[i].status # "pending" \/ Candidates = {})
----------------------------------------------------------------------------
(* The inductive invariant behind the first two.                           *)

\* An open record transaction is a leader's and locks the lease row, so the
\* row's term stays the leader's; the cron transactions of ControllerLease,
\* which lock the same row, are not part of this specification.
RecorderLocks ==
  /\ \A h \in recording : sup[h] = "leading" /\ rowLock = h /\ token[h] = lease.term
  /\ \A h \in Holder : sup[h] \in {"promoting", "leading"} => token[h] > 0
  /\ \A h \in Holder : tick[h] \in {"off", "cron"}

\* A recorded intent carries a term that was granted, and nobody but its recorder
\* holds that term; one that is not recorded was never mutated.
TermIsRecorders ==
  \A i \in Intent :
    /\ intent[i].status = "absent" => mutatedBy[i] = {}
    /\ intent[i].status # "absent" =>
         /\ intent[i].term \in 1..lease.term
         /\ \A h \in Holder : token[h] = intent[i].term => h = intent[i].by

\* What a tick works on was read from the table, with attempts left.
BatchIsRecorded ==
  /\ \A h \in Holder :
       /\ applying[h] # None => applying[h] \in batch[h]
       /\ \A r \in batch[h] : intent[r[1]].status # "absent" /\ r[2] < MaxAttempts
  /\ \A i \in Intent : intent[i].status = "pending" => intent[i].attempts < MaxAttempts

IntentInv ==
  /\ LeaseInv /\ IntentTypeOK
  /\ RecorderLocks /\ TermIsRecorders /\ BatchIsRecorded /\ MutatedByRecorder
=============================================================================
