----------------------- MODULE ControllerLeaseProofs -----------------------
(***************************************************************************)
(* For any set of controller processes and any number of faults: terms are *)
(* exclusive, the cron producer's fence holds, and the controller_leases   *)
(* row implements the lease contract.  On top of it, for any set of        *)
(* intents: they are recorded under the current term and mutated only by   *)
(* their recorder.                                                         *)
(***************************************************************************)
EXTENDS IntentReconciler, TLAPS

\* The state before any controller has started satisfies the invariant.
LEMMA InitInv == Init => LeaseInv
<1> SUFFICES ASSUME Init PROVE LeaseInv
  OBVIOUS
<1>1. TypeOK
  BY MaxFaultsAssumption
     DEF Init, TypeOK, SupState, TickState, Stage
<1>2. QED
  BY <1>1 DEF Init, LeaseInv, TokensNotAhead, TermsExclusive, CurrentTermHeld,
              OnlyLeadersTick, VerifiedKeepsLock, CronFenced

\* Every supervisor and tick step keeps the state well typed.
LEMMA TypeStep == TypeOK /\ [Next]_vars => TypeOK'
<1> SUFFICES ASSUME TypeOK, [Next]_vars PROVE TypeOK'
  OBVIOUS
<1> USE MaxFaultsAssumption DEF TypeOK
<1>1. ASSUME NEW h \in Holder, Supervise(h) PROVE TypeOK'
  <2>1. CASE Start(h)
    BY <2>1 DEF Start, SupState
  <2>2. CASE Signal(h)
    BY <2>2 DEF Signal
  <2>3. CASE Acquire(h)
    BY <2>3 DEF Acquire, Granted, SupState
  <2>4. CASE AcquireUnacked(h)
    BY <2>4 DEF AcquireUnacked, Granted, Fault
  <2>5. CASE Promote(h)
    BY <2>5 DEF Promote, TickState, SupState
  <2>6. CASE Renew(h)
    BY <2>6 DEF Renew, Renewed, Owns
  <2>7. CASE RenewError(h)
    <3>1. lease' \in [holder : Holder \cup {None}, term : Nat, live : BOOLEAN]
      BY <2>7 DEF RenewError, Renewed
    <3>2. lost' \in [Holder -> BOOLEAN] /\ faults' \in 0..MaxFaults
      BY <2>7 DEF RenewError, Fault
    <3>3. QED
      BY <2>7, <3>1, <3>2 DEF RenewError
  <2>8. CASE StandDown(h)
    BY <2>8 DEF StandDown, TickState, SupState
  <2>9. CASE Release(h)
    BY <2>9 DEF Release, Released, Owns, SupState
  <2>10. CASE ReleaseError(h)
    BY <2>10 DEF ReleaseError, Fault, SupState
  <2>11. CASE Stop(h)
    BY <2>11 DEF Stop, SupState
  <2>12. CASE Crash(h)
    BY <2>12 DEF Crash, Fault, TickState, SupState
  <2> QED
    BY <1>1, <2>1, <2>2, <2>3, <2>4, <2>5, <2>6, <2>7, <2>8,
       <2>9, <2>10, <2>11, <2>12 DEF Supervise
<1>2. ASSUME NEW h \in Holder, TickStep(h) PROVE TypeOK'
  BY <1>2 DEF TickStep, CronVerify, CronCommit, CronError, TickLeaseLost,
     SweepVerify, SweepCommit, SweepNothing, CommitUnder, Verified, NextStage,
     SweepStage, Stage, TickState
<1>3. CASE ExpireAbandoned \/ ExpireLate
  <2>1. lease' \in [holder : Holder \cup {None}, term : Nat, live : BOOLEAN]
    BY <1>3 DEF ExpireAbandoned, ExpireLate
  <2>2. faults' \in 0..MaxFaults
    BY <1>3 DEF ExpireAbandoned, ExpireLate, Fault
  <2>3. QED
    BY <1>3, <2>1, <2>2 DEF ExpireAbandoned, ExpireLate
<1>4. CASE UNCHANGED vars
  BY <1>4 DEF vars
<1>5. QED
  BY <1>1, <1>2, <1>3, <1>4 DEF Next

\* Every step preserves the inductive invariant.  The row's term only moves in
\* acquire, which needs the row lock: no verified cron transaction is open then,
\* and the new term is larger than every token.
LEMMA InvStep == LeaseInv /\ [Next]_vars => LeaseInv'
<1> SUFFICES ASSUME LeaseInv, [Next]_vars PROVE LeaseInv'
  OBVIOUS
<1> USE NoneAssumption DEF LeaseInv, TypeOK, TokensNotAhead, TermsExclusive,
        CurrentTermHeld, OnlyLeadersTick, VerifiedKeepsLock, CronFenced
<1>0. TypeOK'
  BY TypeStep DEF LeaseInv
<1>1. ASSUME NEW h \in Holder, Start(h) PROVE LeaseInv'
  BY <1>0, <1>1 DEF Start
<1>2. ASSUME NEW h \in Holder, Signal(h) PROVE LeaseInv'
  BY <1>0, <1>2 DEF Signal
<1>3. ASSUME NEW h \in Holder, Acquire(h) PROVE LeaseInv'
  BY <1>0, <1>3 DEF Acquire, Granted
<1>4. ASSUME NEW h \in Holder, AcquireUnacked(h) PROVE LeaseInv'
  BY <1>0, <1>4 DEF AcquireUnacked, Granted
<1>5. ASSUME NEW h \in Holder, Promote(h) PROVE LeaseInv'
  BY <1>0, <1>5 DEF Promote
<1>6. ASSUME NEW h \in Holder, Renew(h) PROVE LeaseInv'
  BY <1>0, <1>6 DEF Renew, Renewed, Owns
<1>7. ASSUME NEW h \in Holder, RenewError(h) PROVE LeaseInv'
  BY <1>0, <1>7 DEF RenewError, Renewed, Owns
<1>8. ASSUME NEW h \in Holder, StandDown(h) PROVE LeaseInv'
  BY <1>0, <1>8 DEF StandDown
<1>9. ASSUME NEW h \in Holder, Release(h) PROVE LeaseInv'
  BY <1>0, <1>9 DEF Release, Released, Owns
<1>10. ASSUME NEW h \in Holder, ReleaseError(h) PROVE LeaseInv'
  BY <1>0, <1>10 DEF ReleaseError
<1>11. ASSUME NEW h \in Holder, Stop(h) PROVE LeaseInv'
  BY <1>0, <1>11 DEF Stop
<1>12. ASSUME NEW h \in Holder, Crash(h) PROVE LeaseInv'
  BY <1>0, <1>12 DEF Crash, Alive
<1>13. ASSUME NEW h \in Holder, CronVerify(h) PROVE LeaseInv'
  BY <1>0, <1>13 DEF CronVerify
<1>14. ASSUME NEW h \in Holder, CronCommit(h) PROVE LeaseInv'
  BY <1>0, <1>14 DEF CronCommit, CommitUnder, NextStage
<1>15. ASSUME NEW h \in Holder, CronError(h) PROVE LeaseInv'
  BY <1>0, <1>15 DEF CronError, NextStage
<1>16. ASSUME NEW h \in Holder, TickLeaseLost(h) PROVE LeaseInv'
  BY <1>0, <1>16 DEF TickLeaseLost, Stage, SweepStage
<1>17. ASSUME NEW h \in Holder, NEW s \in SweepStage,
               SweepVerify(h, s) \/ SweepCommit(h, s) \/ SweepNothing(h, s)
        PROVE LeaseInv'
  BY <1>0, <1>17 DEF SweepVerify, SweepCommit, SweepNothing, CommitUnder,
     Verified, NextStage, SweepStage
<1>18. CASE ExpireAbandoned
  BY <1>0, <1>18 DEF ExpireAbandoned
<1>19. CASE ExpireLate
  BY <1>0, <1>19 DEF ExpireLate
<1>20. CASE UNCHANGED vars
  BY <1>0, <1>20 DEF vars
<1>21. QED
  BY <1>1, <1>2, <1>3, <1>4, <1>5, <1>6, <1>7, <1>8, <1>9,
     <1>10, <1>11, <1>12, <1>13, <1>14, <1>15, <1>16, <1>17, <1>18, <1>19, <1>20
     DEF Next, Supervise, TickStep

\* The inductive invariant holds in every reachable state.
THEOREM LeaseInvariant == Spec => []LeaseInv
<1>1. QED
  BY InitInv, InvStep, PTL DEF Spec

\* Every variable of the controller plane keeps its type.
THEOREM TypeCorrect == Spec => []TypeOK
<1>1. LeaseInv => TypeOK
  BY DEF LeaseInv
<1>2. QED
  BY <1>1, LeaseInvariant, PTL

\* No two controller processes ever lead with the same term (DBLease.acquire).
THEOREM ExclusiveTerms == Spec => []TermsExclusive
<1>1. LeaseInv => TermsExclusive
  BY DEF LeaseInv
<1>2. QED
  BY <1>1, LeaseInvariant, PTL

\* A leader with the row's term is the row's holder, so verifying the term
\* alone is a sound fence (cron_producer.tick, record_intent_with_lease).
THEOREM CurrentTermIsHeld == Spec => []CurrentTermHeld
<1>1. LeaseInv => CurrentTermHeld
  BY DEF LeaseInv
<1>2. QED
  BY <1>1, LeaseInvariant, PTL

\* No cron transaction commits under a term that has been superseded
\* (FOR UPDATE in cron_producer.tick).
THEOREM CronIsFenced == Spec => []CronFenced
<1>1. LeaseInv => CronFenced
  BY DEF LeaseInv
<1>2. QED
  BY <1>1, LeaseInvariant, PTL

\* What one step does to the row, as the lease contract sees it.
LEMMA ContractStep ==
  LeaseInv /\ [Next]_vars => [Contract!Next]_<<lease.term, lease.holder>>
<1> SUFFICES ASSUME LeaseInv, Next
             PROVE  \/ Contract!Grant
                    \/ Contract!Vacate
                    \/ UNCHANGED <<lease.term, lease.holder>>
  BY DEF Contract!Next, vars
<1> USE DEF LeaseInv, TypeOK
<1>1. ASSUME NEW h \in Holder, Acquire(h) \/ AcquireUnacked(h)
      PROVE  Contract!Grant
  BY <1>1 DEF Acquire, AcquireUnacked, Granted, Contract!Grant
<1>2. ASSUME NEW h \in Holder, Release(h)
      PROVE  Contract!Vacate \/ UNCHANGED <<lease.term, lease.holder>>
  BY <1>2 DEF Release, Released, Contract!Vacate
<1>3. ASSUME NEW h \in Holder, Renew(h) \/ RenewError(h)
      PROVE  UNCHANGED <<lease.term, lease.holder>>
  BY <1>3 DEF Renew, RenewError, Renewed
<1>4. CASE ExpireAbandoned \/ ExpireLate
  BY <1>4 DEF ExpireAbandoned, ExpireLate
<1>5. ASSUME NEW h \in Holder,
             \/ Start(h) \/ Signal(h) \/ Promote(h) \/ StandDown(h)
             \/ ReleaseError(h) \/ Stop(h) \/ Crash(h) \/ TickStep(h)
      PROVE  UNCHANGED lease
  BY <1>5 DEF Start, Signal, Promote, StandDown, ReleaseError, Stop, Crash,
     TickStep, CronVerify, CronCommit, CronError, TickLeaseLost, SweepVerify,
     SweepCommit, SweepNothing
<1>6. QED
  BY <1>1, <1>2, <1>3, <1>4, <1>5 DEF Next, Supervise

\* The controller_leases row implements the lease contract: DBLease never
\* reuses a term and never moves the lease without a new one.
THEOREM RowImplementsContract == Spec => ImplementsContract
<1>1. Init => Contract!Init
  BY DEF Init, Contract!Init
<1>2. QED
  BY <1>1, ContractStep, LeaseInvariant, PTL
     DEF Spec, ImplementsContract, Contract!Spec

----------------------------------------------------------------------------
(* Controller intents, on top of the lease (IntentReconciler) *)

\* Nothing is recorded before a controller has led.
LEMMA IntentInitInv == IntentInit => IntentInv
<1> SUFFICES ASSUME IntentInit PROVE IntentInv
  OBVIOUS
<1>1. LeaseInv
  BY InitInv DEF IntentInit
<1>2. IntentTypeOK
  <2>1. intent \in [Intent -> [status : IntentStatus, term : Nat,
                               by : Holder \cup {None}, attempts : 0..MaxAttempts]]
    BY MaxAttemptsAssumption DEF IntentInit, IntentStatus
  <2>2. QED
    BY <1>1, <2>1 DEF IntentInit, IntentTypeOK, LeaseInv
<1>3. RecorderLocks /\ TermIsRecorders /\ BatchIsRecorded /\ MutatedByRecorder
  BY DEF IntentInit, Init, RecorderLocks, TermIsRecorders, BatchIsRecorded, MutatedByRecorder
<1>4. QED
  BY <1>1, <1>2, <1>3 DEF IntentInv

\* The lease part of the invariant survives the intents' own transactions: they
\* only lock and unlock the row.
LEMMA IntentLeaseStep == IntentInv /\ [IntentNext]_allVars => LeaseInv'
<1> SUFFICES ASSUME IntentInv, [IntentNext]_allVars PROVE LeaseInv'
  OBVIOUS
<1>1. ASSUME [Next]_vars PROVE LeaseInv'
  BY <1>1, InvStep DEF IntentInv
<1>2. ASSUME NEW h \in Holder, SuperviseTasks(h) PROVE LeaseInv'
  BY <1>1, <1>2 DEF SuperviseTasks, Next
<1>3. CASE Expire
  BY <1>1, <1>3 DEF Expire, Next
<1>4. ASSUME UNCHANGED <<lease, supVars, tick, stale>>, rowLock' \in Holder \cup {None},
             faults' \in 0..MaxFaults
      PROVE  LeaseInv'
  <2>1. TypeOK'
    BY <1>4 DEF IntentInv, LeaseInv, TypeOK, supVars
  <2>2. VerifiedKeepsLock'
    BY <1>4 DEF IntentInv, RecorderLocks, VerifiedKeepsLock
  <2>3. QED
    BY <1>4, <2>1, <2>2 DEF IntentInv, LeaseInv, TokensNotAhead, TermsExclusive,
       CurrentTermHeld, OnlyLeadersTick, CronFenced, supVars
<1>5. ASSUME NEW h \in Holder, Record(h) PROVE LeaseInv'
  BY <1>4, <1>5 DEF Record, RecordVerify, RecordCommit, RecordError, IntentInv, LeaseInv, TypeOK
<1>6. ASSUME NEW h \in Holder, Reconcile(h) PROVE LeaseInv'
  <2>1. CASE ApplyConflict(h) \/ ReconcileAbort(h)
    <3>1. UNCHANGED <<lease, rowLock, supVars, tick, stale>> /\ faults' \in 0..MaxFaults
      BY <2>1, MaxFaultsAssumption
         DEF ApplyConflict, ReconcileAbort, Fault, IntentInv, LeaseInv, TypeOK
    <3>2. rowLock' \in Holder \cup {None}
      BY <3>1 DEF IntentInv, LeaseInv, TypeOK
    <3>3. QED
      BY <1>4, <3>1, <3>2
  <2>2. CASE ~(ApplyConflict(h) \/ ReconcileAbort(h))
    <3>1. UNCHANGED vars
      BY <1>6, <2>2 DEF Reconcile, ReadBatch, Supersede, Apply, ApplyOk, ApplyError
    <3>2. QED
      BY <1>1, <3>1
  <2>3. QED
    BY <2>1, <2>2
<1>7. CASE UNCHANGED allVars
  BY <1>1, <1>7 DEF allVars
<1>8. QED
  BY <1>2, <1>3, <1>5, <1>6, <1>7 DEF IntentNext

\* A supervisor step takes the tasks of a process that stops leading with it.
\* The row's term moves only when nobody records, to one no intent carries.
LEMMA IntentSuperviseStep ==
  ASSUME IntentInv, LeaseInv', NEW h \in Holder, SuperviseTasks(h)
  PROVE  IntentInv'
<1> USE NoneAssumption DEF IntentInv
<1>1. /\ intent' = intent /\ mutatedBy' = mutatedBy
      /\ recording' \subseteq recording /\ batch' \in [Holder -> SUBSET Row]
      /\ \A g \in Holder : batch'[g] \subseteq batch[g]
                           /\ \/ applying'[g] = applying[g] /\ batch'[g] = batch[g]
                              \/ applying'[g] = None
      /\ applying' \in [Holder -> Row \cup {None}]
      /\ sup'[h] # "leading" => h \notin recording'
  BY DEF SuperviseTasks, IntentTypeOK
<1>2. IntentTypeOK'
  BY <1>1 DEF IntentTypeOK, LeaseInv
<1>3. BatchIsRecorded' /\ MutatedByRecorder'
  BY <1>1 DEF BatchIsRecorded, MutatedByRecorder
<1>4. /\ lease'.term \in Nat /\ lease.term \in Nat
      /\ lease'.term >= lease.term
      /\ \A g \in Holder : token'[g] \in {token[g], 0}
                           \/ token'[g] = lease.term + 1
  <2>0. lease \in [holder : Holder \cup {None}, term : Nat, live : BOOLEAN]
        /\ token \in [Holder -> Nat]
    BY DEF LeaseInv, TypeOK
  <2>1. CASE Acquire(h) \/ AcquireUnacked(h)
    BY <2>0, <2>1 DEF Acquire, AcquireUnacked, Granted
  <2>2. CASE Renew(h) \/ RenewError(h)
    BY <2>0, <2>2 DEF Renew, RenewError, Renewed
  <2>3. CASE Release(h)
    BY <2>0, <2>3 DEF Release, Released
  <2>4. CASE Start(h) \/ Signal(h) \/ Promote(h) \/ StandDown(h) \/ ReleaseError(h)
             \/ Stop(h) \/ Crash(h)
    BY <2>0, <2>4 DEF Start, Signal, Promote, StandDown, ReleaseError, Stop, Crash
  <2>5. QED
    BY <2>1, <2>2, <2>3, <2>4 DEF SuperviseTasks, Supervise
<1>5. TermIsRecorders'
  BY <1>1, <1>4 DEF TermIsRecorders, IntentTypeOK, LeaseInv, TypeOK
<1>6. RecorderLocks'
  <2>1. \A g \in recording' : sup'[g] = "leading" /\ rowLock' = g /\ token'[g] = lease'.term
    BY <1>1 DEF SuperviseTasks, Supervise, Start, Signal, Acquire, AcquireUnacked, Promote, Renew,
         RenewError, StandDown, Release, ReleaseError, Stop, Crash, Granted, Renewed, Released,
         LeaseInv, TypeOK, IntentTypeOK, RecorderLocks
  <2>2. \A g \in Holder : sup'[g] \in {"promoting", "leading"} => token'[g] > 0
    BY DEF SuperviseTasks, Supervise, Start, Signal, Acquire, AcquireUnacked, Promote, Renew,
         RenewError, StandDown, Release, ReleaseError, Stop, Crash, LeaseInv, TypeOK, RecorderLocks
  <2>3. \A g \in Holder : tick'[g] \in {"off", "cron"}
    BY DEF SuperviseTasks, Supervise, Start, Signal, Acquire, AcquireUnacked, Promote, Renew,
         RenewError, StandDown, Release, ReleaseError, Stop, Crash, LeaseInv, TypeOK, RecorderLocks
  <2>4. QED
    BY <2>1, <2>2, <2>3 DEF RecorderLocks
<1>7. QED
  BY <1>2, <1>3, <1>5, <1>6

\* A record transaction: it starts when nobody locks the row, and commits an
\* intent under the term that its lock has kept current.
LEMMA IntentRecordStep ==
  ASSUME IntentInv, LeaseInv', NEW h \in Holder, Record(h)
  PROVE  IntentInv'
<1> USE NoneAssumption DEF IntentInv
<1>1. CASE RecordVerify(h)
  <2>1. recording = {}
    BY <1>1 DEF RecordVerify, RecorderLocks, IntentTypeOK
  <2>2. IntentTypeOK'
    BY <1>1 DEF RecordVerify, IntentTypeOK, LeaseInv
  <2>3. RecorderLocks'
    BY <1>1, <2>1 DEF RecordVerify, RecorderLocks, supVars
  <2>4. QED
    BY <1>1, <2>2, <2>3 DEF RecordVerify, supVars, TermIsRecorders, BatchIsRecorded,
       MutatedByRecorder
<1>2. CASE RecordError(h)
  <2>1. recording' = {}
    BY <1>2 DEF RecordError, RecorderLocks, IntentTypeOK
  <2>2. IntentTypeOK'
    BY <1>2 DEF RecordError, IntentTypeOK, LeaseInv
  <2>3. RecorderLocks'
    BY <1>2, <2>1 DEF RecordError, RecorderLocks, supVars
  <2>4. QED
    BY <1>2, <2>2, <2>3 DEF RecordError, supVars, TermIsRecorders, BatchIsRecorded,
       MutatedByRecorder
<1>3. ASSUME NEW i \in Intent, RecordCommit(h, i) PROVE IntentInv'
  <2>1. /\ h \in recording /\ recording' = {}
        /\ token[h] = lease.term /\ token[h] \in Nat /\ token[h] > 0
    BY <1>3 DEF RecordCommit, RecorderLocks, IntentTypeOK, LeaseInv, TypeOK
  <2>2. /\ intent[i].status = "absent"
        /\ intent' = [intent EXCEPT ![i] = [status |-> "pending", term |-> token[h],
                                            by |-> h, attempts |-> 0]]
        /\ UNCHANGED <<lease, sup, token, tick, batch, applying, mutatedBy>>
    BY <1>3 DEF RecordCommit, supVars
  <2>3. IntentTypeOK'
    <3>1. intent' \in [Intent -> [status : IntentStatus, term : Nat,
                                  by : Holder \cup {None}, attempts : 0..MaxAttempts]]
      BY <2>1, <2>2, MaxAttemptsAssumption DEF IntentTypeOK, IntentStatus
    <3>2. QED
      BY <2>1, <2>2, <3>1 DEF IntentTypeOK, LeaseInv
  <2>4. /\ intent'[i] = [status |-> "pending", term |-> token[h], by |-> h, attempts |-> 0]
        /\ \A j \in Intent : j # i => intent'[j] = intent[j]
    BY <2>2 DEF IntentTypeOK
  <2>5. RecorderLocks'
    BY <2>1, <2>2 DEF RecorderLocks
  <2>6. TermIsRecorders'
    BY <2>1, <2>2, <2>4 DEF TermIsRecorders, LeaseInv, TermsExclusive, TypeOK
  <2>7. BatchIsRecorded'
    BY <2>2, <2>4, MaxAttemptsAssumption DEF BatchIsRecorded
  <2>8. MutatedByRecorder'
    BY <2>2, <2>4 DEF MutatedByRecorder, TermIsRecorders
  <2>9. QED
    BY <2>3, <2>5, <2>6, <2>7, <2>8
<1>4. QED
  BY <1>1, <1>2, <1>3 DEF Record

\* A reconciler step: it marks only rows it has read, which are recorded, and
\* issues a mutation only for an intent of its own term.
LEMMA IntentReconcileStep ==
  ASSUME IntentInv, LeaseInv', NEW h \in Holder, Reconcile(h)
  PROVE  IntentInv'
<1> USE DEF IntentInv
<1>0. /\ UNCHANGED <<lease, rowLock, sup, token, tick, recording>>
      /\ intent \in [Intent -> [status : IntentStatus, term : Nat,
                                by : Holder \cup {None}, attempts : 0..MaxAttempts]]
      /\ batch \in [Holder -> SUBSET Row] /\ applying \in [Holder -> Row \cup {None}]
      /\ mutatedBy \in [Intent -> SUBSET Holder] /\ TypeOK'
  <2>1. UNCHANGED <<lease, rowLock, sup, token, tick, recording>>
    BY DEF Reconcile, ReadBatch, Supersede, Apply, ApplyOk, ApplyConflict, ApplyError,
           ReconcileAbort, vars, supVars
  <2>2. QED
    BY <2>1 DEF IntentTypeOK, LeaseInv
<1>1. RecorderLocks'
  BY <1>0 DEF RecorderLocks
\* The rows a step may touch and what it may not do to them.
<1>2. ASSUME intent' \in [Intent -> [status : IntentStatus, term : Nat,
                                     by : Holder \cup {None}, attempts : 0..MaxAttempts]],
             mutatedBy' = mutatedBy,
             \A i \in Intent : /\ intent'[i].term = intent[i].term
                               /\ intent'[i].by = intent[i].by
                               /\ intent'[i].status = "absent" <=> intent[i].status = "absent"
                               /\ intent'[i].status = "pending" =>
                                    intent'[i].attempts < MaxAttempts,
             batch' \in [Holder -> SUBSET Row], applying' \in [Holder -> Row \cup {None}],
             \A g \in Holder : /\ applying'[g] # None => applying'[g] \in batch'[g]
                               /\ \A r \in batch'[g] : r \in batch[g]
                                    \/ (intent[r[1]].status = "pending"
                                        /\ r[2] = intent[r[1]].attempts)
      PROVE  IntentInv'
  <2>0. \A g \in Holder, r \in Row : r \in batch'[g] => r[1] \in Intent
    BY DEF Row
  <2>1. IntentTypeOK'
    BY <1>0, <1>2 DEF IntentTypeOK
  <2>2. TermIsRecorders'
    BY <1>0, <1>2 DEF TermIsRecorders
  <2>3. BatchIsRecorded'
    BY <1>2, <2>0 DEF BatchIsRecorded
  <2>4. MutatedByRecorder'
    BY <1>2 DEF MutatedByRecorder
  <2>5. QED
    BY <1>1, <2>1, <2>2, <2>3, <2>4
<1>3. CASE ReadBatch(h)
  <2>1. batch' = [batch EXCEPT ![h] = {<<i, intent[i].attempts>> : i \in Pending}]
        /\ UNCHANGED <<intent, applying, mutatedBy>> /\ batch[h] = {}
    BY <1>3 DEF ReadBatch
  <2>2. {<<i, intent[i].attempts>> : i \in Pending} \subseteq Row
    BY <1>0 DEF Row, Pending
  <2>3. batch' \in [Holder -> SUBSET Row]
    BY <1>0, <2>1, <2>2
  <2>4. \A g \in Holder : applying'[g] # None => applying'[g] \in batch'[g]
    BY <1>0, <2>1 DEF BatchIsRecorded
  <2>5. \A g \in Holder : \A r \in batch'[g] : r \in batch[g]
             \/ (intent[r[1]].status = "pending" /\ r[2] = intent[r[1]].attempts)
    BY <1>0, <2>1 DEF Pending
  <2>6. QED
    BY <1>0, <1>2, <2>1, <2>3, <2>4, <2>5 DEF BatchIsRecorded
\* A row is done: its entry leaves the batch, with the mark on the row.
<1>4. ASSUME NEW i \in Intent, NEW s \in IntentStatus \ {"absent"}, NEW n \in 0..MaxAttempts,
             s = "pending" => n < MaxAttempts,
             intent[i].status # "absent", mutatedBy' = mutatedBy,
             intent' = [intent EXCEPT ![i].status = s, ![i].attempts = n],
             \A g \in Holder : batch'[g] \subseteq batch[g]
                               /\ (applying'[g] # None => applying'[g] \in batch'[g]),
             batch' \in [Holder -> SUBSET Row], applying' \in [Holder -> Row \cup {None}]
      PROVE  IntentInv'
  <2>1. intent' \in [Intent -> [status : IntentStatus, term : Nat,
                                by : Holder \cup {None}, attempts : 0..MaxAttempts]]
    BY <1>0, <1>4
  <2>2. \A j \in Intent : /\ intent'[j].term = intent[j].term /\ intent'[j].by = intent[j].by
                          /\ j # i => intent'[j] = intent[j]
    BY <1>0, <1>4
  <2>3. intent'[i].status = s /\ intent'[i].attempts = n
    BY <1>0, <1>4
  <2>4. \A j \in Intent : /\ intent'[j].status = "absent" <=> intent[j].status = "absent"
                          /\ intent'[j].status = "pending" => intent'[j].attempts < MaxAttempts
    BY <1>4, <2>2, <2>3 DEF BatchIsRecorded
  <2>5. QED
    BY <1>2, <1>4, <2>1, <2>2, <2>4
<1>5. ASSUME NEW r \in batch[h], Supersede(h, r) PROVE IntentInv'
  <2>1. r[1] \in Intent /\ intent[r[1]].status # "absent" /\ intent[r[1]].attempts \in 0..MaxAttempts
    BY <1>0, <1>5 DEF BatchIsRecorded, Row
  <2> DEFINE s == "superseded"
             n == intent[r[1]].attempts
  <2>2. /\ intent' = [intent EXCEPT ![r[1]].status = s, ![r[1]].attempts = n]
        /\ s \in IntentStatus \ {"absent"} /\ s # "pending" /\ n \in 0..MaxAttempts
    BY <1>0, <1>5, <2>1 DEF Supersede, IntentStatus
  <2>3. /\ mutatedBy' = mutatedBy /\ batch' \in [Holder -> SUBSET Row] /\ applying' = applying
        /\ \A g \in Holder : batch'[g] \subseteq batch[g]
                             /\ (applying'[g] # None => applying'[g] \in batch'[g])
    BY <1>0, <1>5 DEF Supersede, BatchIsRecorded
  <2> HIDE DEF s, n
  <2>4. QED
    BY <1>0, <1>4, <2>1, <2>2, <2>3
<1>6. ASSUME NEW r \in batch[h], Apply(h, r) PROVE IntentInv'
  <2>1. r \in Row /\ r[1] \in Intent /\ intent[r[1]].status # "absent"
    BY <1>0, <1>6 DEF BatchIsRecorded, Row
  <2>2. intent[r[1]].by = h
    BY <1>6, <2>1 DEF Apply, TermIsRecorders
  <2>3. /\ applying' = [applying EXCEPT ![h] = r] /\ UNCHANGED <<intent, batch>>
        /\ mutatedBy' = [mutatedBy EXCEPT ![r[1]] = mutatedBy[r[1]] \cup {h}]
    BY <1>6 DEF Apply
  <2>4. IntentTypeOK'
    BY <1>0, <2>1, <2>3 DEF IntentTypeOK
  <2>5. TermIsRecorders'
    BY <1>0, <2>1, <2>3 DEF TermIsRecorders
  <2>6. BatchIsRecorded'
    BY <1>0, <2>3 DEF BatchIsRecorded
  <2>7. MutatedByRecorder'
    BY <1>0, <2>1, <2>2, <2>3 DEF MutatedByRecorder
  <2>8. QED
    BY <1>1, <2>4, <2>5, <2>6, <2>7
<1>7. ASSUME RowDone(h)
      PROVE  /\ batch' \in [Holder -> SUBSET Row] /\ applying' \in [Holder -> Row \cup {None}]
             /\ applying[h] \in Row /\ applying[h][1] \in Intent
             /\ intent[applying[h][1]].status # "absent" /\ applying[h][2] + 1 \in 0..MaxAttempts
             /\ \A g \in Holder : batch'[g] \subseteq batch[g]
                                  /\ (applying'[g] # None => applying'[g] \in batch'[g])
  <2>1. applying[h] \in Row /\ applying[h] \in batch[h]
    BY <1>0, <1>7 DEF RowDone, BatchIsRecorded
  <2>2. applying[h][1] \in Intent /\ applying[h][2] \in 0..MaxAttempts
    BY <2>1 DEF Row
  <2>3. intent[applying[h][1]].status # "absent" /\ applying[h][2] < MaxAttempts
    BY <2>1 DEF BatchIsRecorded
  <2>4. applying[h][2] + 1 \in 0..MaxAttempts
    BY <2>2, <2>3, MaxAttemptsAssumption
  <2>5. QED
    BY <1>0, <1>7, <2>1, <2>2, <2>3, <2>4 DEF RowDone, BatchIsRecorded
<1>8. CASE ApplyOk(h)
  <2> DEFINE i == applying[h][1]
             s == "applied"
             n == intent[i].attempts
  <2>1. n \in 0..MaxAttempts /\ s \in IntentStatus \ {"absent"} /\ s # "pending"
    BY <1>0, <1>7, <1>8 DEF ApplyOk, IntentStatus
  <2>2. intent' = [intent EXCEPT ![i].status = s, ![i].attempts = n]
    BY <1>0, <1>7, <1>8 DEF ApplyOk
  <2> HIDE DEF s, n
  <2>3. QED
    BY <1>4, <1>7, <1>8, <2>1, <2>2 DEF ApplyOk
<1>9. CASE ApplyConflict(h)
  <2>1. UNCHANGED <<intent, mutatedBy>> /\ RowDone(h)
    BY <1>9 DEF ApplyConflict
  <2>2. QED
    BY <1>0, <1>2, <1>7, <2>1 DEF BatchIsRecorded
<1>10. CASE ApplyError(h)
  <2> DEFINE i == applying[h][1]
             n == applying[h][2] + 1
             s == IF n >= MaxAttempts THEN "failed" ELSE intent[i].status
  <2>1. n \in 0..MaxAttempts /\ s \in IntentStatus \ {"absent"} /\ (s = "pending" => n < MaxAttempts)
    BY <1>0, <1>7, <1>10, MaxAttemptsAssumption DEF ApplyError, IntentStatus
  <2>2. intent' = [intent EXCEPT ![i].status = s, ![i].attempts = n]
    BY <1>0, <1>7, <1>10 DEF ApplyError
  <2> HIDE DEF s, n
  <2>3. QED
    BY <1>4, <1>7, <1>10, <2>1, <2>2 DEF ApplyError
<1>11. CASE ReconcileAbort(h)
  <2>1. UNCHANGED <<intent, mutatedBy>> /\ batch' = [batch EXCEPT ![h] = {}]
        /\ applying' = [applying EXCEPT ![h] = None]
    BY <1>11 DEF ReconcileAbort
  <2>2. QED
    BY <1>0, <1>2, <2>1 DEF BatchIsRecorded
<1>12. QED
  BY <1>3, <1>5, <1>6, <1>8, <1>9, <1>10, <1>11 DEF Reconcile

\* Every step preserves the invariant.
LEMMA IntentInvStep == IntentInv /\ [IntentNext]_allVars => IntentInv'
<1> SUFFICES ASSUME IntentInv, [IntentNext]_allVars PROVE IntentInv'
  OBVIOUS
<1>0. LeaseInv'
  BY IntentLeaseStep
<1>1. CASE Expire
  <2>1. /\ UNCHANGED <<intentVars, rowLock, sup, token, tick>> /\ lease'.term = lease.term
    BY <1>1 DEF Expire, ExpireAbandoned, ExpireLate, IntentInv, LeaseInv, TypeOK
  <2>2. QED
    BY <1>0, <2>1 DEF IntentInv, intentVars, IntentTypeOK, LeaseInv, RecorderLocks,
       TermIsRecorders, BatchIsRecorded, MutatedByRecorder
<1>2. CASE UNCHANGED allVars
  BY <1>0, <1>2 DEF allVars, vars, IntentInv, intentVars, IntentTypeOK, LeaseInv, RecorderLocks,
     TermIsRecorders, BatchIsRecorded, MutatedByRecorder
<1>3. QED
  BY <1>0, <1>1, <1>2, IntentSuperviseStep, IntentRecordStep, IntentReconcileStep DEF IntentNext

\* The inductive invariant of the intents holds in every reachable state.
THEOREM IntentInvariant == IntentSpec => []IntentInv
<1>1. QED
  BY IntentInitInv, IntentInvStep, PTL DEF IntentSpec

\* A mutation is issued only by the process that recorded it: no later leader
\* executes what a deposed one decided (reconciler.tick).
THEOREM OnlyRecorderMutates == IntentSpec => []MutatedByRecorder
<1>1. IntentInv => MutatedByRecorder
  BY DEF IntentInv
<1>2. QED
  BY <1>1, IntentInvariant, PTL

\* An intent is recorded under the row's term (record_intent_with_lease).
THEOREM IntentsRecordedUnderLease == IntentSpec => RecordedUnderLease
<1> DEFINE Recorded == \A i \in Intent :
              intent[i].status = "absent" /\ intent'[i].status # "absent"
                => intent'[i].term = lease.term
<1>1. IntentInv /\ [IntentNext]_allVars => [Recorded]_allVars
  <2> SUFFICES ASSUME IntentInv, IntentNext, NEW i \in Intent,
                      intent[i].status = "absent", intent'[i].status # "absent"
               PROVE  intent'[i].term = lease.term
    OBVIOUS
  <2>0. intent \in [Intent -> [status : IntentStatus, term : Nat,
                               by : Holder \cup {None}, attempts : 0..MaxAttempts]]
        /\ applying \in [Holder -> Row \cup {None}] /\ batch \in [Holder -> SUBSET Row]
    BY DEF IntentInv, IntentTypeOK
  <2>1. ASSUME NEW h \in Holder, NEW j \in Intent, RecordCommit(h, j)
        PROVE  intent'[i].term = lease.term
    BY <2>0, <2>1 DEF RecordCommit, IntentInv, RecorderLocks
  <2>2. ASSUME NEW h \in Holder, ApplyOk(h) \/ ApplyError(h) PROVE FALSE
    <3>1. applying[h] \in batch[h] /\ applying[h] \in Row
      BY <2>0, <2>2 DEF ApplyOk, ApplyError, RowDone, IntentInv, BatchIsRecorded
    <3>2. intent[applying[h][1]].status # "absent"
      BY <3>1 DEF IntentInv, BatchIsRecorded
    <3>3. QED
      BY <2>0, <2>2, <3>2 DEF ApplyOk, ApplyError
  <2>3. ASSUME NEW h \in Holder, NEW r \in batch[h], Supersede(h, r) PROVE FALSE
    <3>1. intent[r[1]].status # "absent"
      BY DEF IntentInv, BatchIsRecorded
    <3>2. QED
      BY <2>0, <2>3, <3>1 DEF Supersede
  <2>4. QED
    BY <2>1, <2>2, <2>3
       DEF IntentNext, SuperviseTasks, Record, RecordVerify, RecordError, Reconcile, ReadBatch,
           Apply, ApplyConflict, ReconcileAbort, Expire, intentVars
<1>2. QED
  BY <1>1, IntentInvariant, PTL DEF IntentSpec, RecordedUnderLease

\* The record transactions, which lock the row, take nothing from the lease
\* contract (record_intent_with_lease next to DBLease).
THEOREM RowImplementsContractWithIntents == IntentSpec => ImplementsContract
<1>1. IntentInit => Contract!Init
  BY DEF IntentInit, Init, Contract!Init
<1>2. IntentInv /\ [IntentNext]_allVars => [Contract!Next]_<<lease.term, lease.holder>>
  <2> SUFFICES ASSUME IntentInv, [IntentNext]_allVars
               PROVE  [Contract!Next]_<<lease.term, lease.holder>>
    OBVIOUS
  <2>1. ASSUME [Next]_vars PROVE [Contract!Next]_<<lease.term, lease.holder>>
    BY <2>1, ContractStep DEF IntentInv
  <2>2. ASSUME NEW h \in Holder, SuperviseTasks(h)
        PROVE  [Contract!Next]_<<lease.term, lease.holder>>
    BY <2>1, <2>2 DEF SuperviseTasks, Next
  <2>3. CASE Expire
    BY <2>1, <2>3 DEF Expire, Next
  <2>4. ASSUME NEW h \in Holder, Record(h) \/ Reconcile(h) PROVE lease' = lease
    BY <2>4 DEF Record, RecordVerify, RecordCommit, RecordError, Reconcile, ReadBatch, Supersede,
       Apply, ApplyOk, ApplyConflict, ApplyError, ReconcileAbort, vars
  <2>5. CASE UNCHANGED allVars
    BY <2>1, <2>5 DEF allVars
  <2>6. QED
    BY <2>2, <2>3, <2>4, <2>5 DEF IntentNext
<1>3. QED
  BY <1>1, <1>2, IntentInvariant, PTL DEF IntentSpec, ImplementsContract, Contract!Spec
=============================================================================
