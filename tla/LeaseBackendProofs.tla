------------------------ MODULE LeaseBackendProofs ------------------------
(***************************************************************************)
(* What a holder of a lease or a lock keeps, proved for the three places   *)
(* it can be stored: the Kubernetes Lease object, the Redis key of the     *)
(* controller's lease, and the Redis keys of the distributed locks.  For   *)
(* any set of processes, of pods and of operations, any number of terms    *)
(* and faults, a holder loses it to expiry only.                           *)
(***************************************************************************)
EXTENDS KubernetesLease, RedisLease, DistributedLock, TLAPS

-----------------------------------------------------------------------------
(* The Kubernetes Lease *)

\* The state before any controller has started satisfies the invariant.
LEMMA K8sInit == Init => K8sInv
BY K8sBoundsAssumption
   DEF Init, K8sInv, TypeOK, Numbers, ReadsCurrent, NotFreshIsFree, KeptUntilLapsed

\* Every call to the API server, and every expiry, keeps the state well typed.
LEMMA K8sTypeStep == K8sInv /\ [Next]_vars => TypeOK'
<1> SUFFICES ASSUME K8sInv, [Next]_vars PROVE TypeOK'
  OBVIOUS
<1> USE K8sBoundsAssumption DEF K8sInv, TypeOK, Numbers, ReadsCurrent, Fault, Write,
        Read, Unmodified, Matches, Ended
<1>1. ASSUME NEW h \in Holder, AcquireRead(h) PROVE TypeOK'
  BY <1>1 DEF AcquireRead
<1>2. ASSUME NEW h \in Holder, AcquireWrite(h) PROVE TypeOK'
  BY <1>2 DEF AcquireWrite, NextTerm
<1>3. ASSUME NEW h \in Holder, AcquireFails(h) PROVE TypeOK'
  BY <1>3 DEF AcquireFails
<1>4. ASSUME NEW h \in Holder, RenewRead(h) PROVE TypeOK'
  BY <1>4 DEF RenewRead
<1>5. ASSUME NEW h \in Holder, StandDown(h) PROVE TypeOK'
  BY <1>5 DEF StandDown
<1>6. ASSUME NEW h \in Holder, RenewWrite(h) PROVE TypeOK'
  <2>1. lease' \in [holder : Holder \cup {None}, transitions : 0..MaxTerm, fresh : BOOLEAN]
    BY <1>6 DEF RenewWrite, Renewed
  <2>2. QED
    BY <1>6, <2>1 DEF RenewWrite
<1>7. ASSUME NEW h \in Holder, RenewFails(h) PROVE TypeOK'
  BY <1>7 DEF RenewFails
<1>8. ASSUME NEW h \in Holder, RenewCancelled(h) PROVE TypeOK'
  BY <1>8 DEF RenewCancelled
<1>9. ASSUME NEW h \in Holder, LateRenewal(h) PROVE TypeOK'
  <2>1. lease' \in [holder : Holder \cup {None}, transitions : 0..MaxTerm, fresh : BOOLEAN]
    BY <1>9 DEF LateRenewal, Renewed
  <2>2. QED
    BY <1>9, <2>1 DEF LateRenewal
<1>10. ASSUME NEW h \in Holder, ReleaseRead(h) PROVE TypeOK'
  BY <1>10 DEF ReleaseRead
<1>11. ASSUME NEW h \in Holder, ReleaseWrite(h) PROVE TypeOK'
  <2>1. lease' \in [holder : Holder \cup {None}, transitions : 0..MaxTerm, fresh : BOOLEAN]
    BY <1>11 DEF ReleaseWrite
  <2>2. QED
    BY <1>11, <2>1 DEF ReleaseWrite
<1>12. ASSUME NEW h \in Holder, ReleaseFails(h) PROVE TypeOK'
  BY <1>12 DEF ReleaseFails
<1>13. ASSUME NEW h \in Holder, Crash(h) PROVE TypeOK'
  BY <1>13 DEF Crash
<1>14. CASE Expire
  <2>1. lease' \in [holder : Holder \cup {None}, transitions : 0..MaxTerm, fresh : BOOLEAN]
    BY <1>14 DEF Expire
  <2>2. lapsed' \subseteq 1..MaxTerm
    BY <1>14 DEF Expire
  <2>3. QED
    BY <1>14, <2>1, <2>2 DEF Expire
<1>15. CASE UNCHANGED vars
  BY <1>15 DEF vars
<1>16. QED
  BY <1>1, <1>2, <1>3, <1>4, <1>5, <1>6, <1>7, <1>8, <1>9, <1>10, <1>11, <1>12,
     <1>13, <1>14, <1>15 DEF Next, Acquire, Renew, Release

\* Every step preserves the inductive invariant.  A write that is accepted
\* leaves nobody current; a read makes its reader current with what is stored.
LEMMA K8sStep == K8sInv /\ [Next]_vars => K8sInv'
<1> SUFFICES ASSUME K8sInv, [Next]_vars PROVE K8sInv'
  OBVIOUS
<1>0. TypeOK'
  BY K8sTypeStep
<1> USE K8sNoneAssumption, K8sBoundsAssumption, <1>0
    DEF K8sInv, TypeOK, Numbers, ReadsCurrent, NotFreshIsFree, KeptUntilLapsed,
        Fault, Write, Read, Unmodified, Matches, Ended
<1>1. ASSUME NEW h \in Holder, AcquireRead(h) PROVE K8sInv'
  BY <1>1 DEF AcquireRead, UpForGrabs
<1>2. ASSUME NEW h \in Holder, AcquireWrite(h) PROVE K8sInv'
  BY <1>2 DEF AcquireWrite, NextTerm
<1>3. ASSUME NEW h \in Holder, AcquireFails(h) PROVE K8sInv'
  BY <1>3 DEF AcquireFails
<1>4. ASSUME NEW h \in Holder, RenewRead(h) PROVE K8sInv'
  BY <1>4 DEF RenewRead
<1>5. ASSUME NEW h \in Holder, StandDown(h) PROVE K8sInv'
  BY <1>5 DEF StandDown
<1>6. ASSUME NEW h \in Holder, RenewWrite(h) PROVE K8sInv'
  BY <1>6 DEF RenewWrite, Renewed
<1>7. ASSUME NEW h \in Holder, RenewFails(h) PROVE K8sInv'
  BY <1>7 DEF RenewFails
<1>8. ASSUME NEW h \in Holder, RenewCancelled(h) PROVE K8sInv'
  BY <1>8 DEF RenewCancelled
<1>9. ASSUME NEW h \in Holder, LateRenewal(h) PROVE K8sInv'
  BY <1>9 DEF LateRenewal, Renewed
<1>10. ASSUME NEW h \in Holder, ReleaseRead(h) PROVE K8sInv'
  BY <1>10 DEF ReleaseRead
<1>11. ASSUME NEW h \in Holder, ReleaseWrite(h) PROVE K8sInv'
  BY <1>11 DEF ReleaseWrite
<1>12. ASSUME NEW h \in Holder, ReleaseFails(h) PROVE K8sInv'
  BY <1>12 DEF ReleaseFails
<1>13. ASSUME NEW h \in Holder, Crash(h) PROVE K8sInv'
  BY <1>13 DEF Crash
<1>14. CASE Expire
  BY <1>14 DEF Expire
<1>15. CASE UNCHANGED vars
  BY <1>15 DEF vars
<1>16. QED
  BY <1>1, <1>2, <1>3, <1>4, <1>5, <1>6, <1>7, <1>8, <1>9, <1>10, <1>11, <1>12,
     <1>13, <1>14, <1>15 DEF Next, Acquire, Renew, Release

\* The inductive invariant holds in every reachable state.
THEOREM K8sInvariant == Spec => []K8sInv
<1>1. QED
  BY K8sInit, K8sStep, PTL DEF Spec

\* A leader whose term has not expired still has the Lease: no acquire, release
\* or renewal decided on an older read takes it away (K8sLease, resourceVersion).
THEOREM K8sKeptUntilLapsed == Spec => []KeptUntilLapsed
<1>1. K8sInv => KeptUntilLapsed
  BY DEF K8sInv
<1>2. QED
  BY <1>1, K8sInvariant, PTL

\* What one step does to the Lease object, as the lease contract sees it.
LEMMA K8sContractStep ==
  K8sInv /\ [Next]_vars => [Contract!Next]_<<lease.transitions, lease.holder>>
<1> SUFFICES ASSUME K8sInv, Next
             PROVE  \/ Contract!Grant
                    \/ Contract!Vacate
                    \/ UNCHANGED <<lease.transitions, lease.holder>>
  BY DEF Contract!Next, vars
<1> USE DEF K8sInv, TypeOK
<1>1. ASSUME NEW h \in Holder, AcquireWrite(h) PROVE Contract!Grant
  BY <1>1, K8sBoundsAssumption
     DEF AcquireWrite, Write, NextTerm, Unmodified, ReadsCurrent, Contract!Grant
<1>2. ASSUME NEW h \in Holder, ReleaseWrite(h) PROVE Contract!Vacate
  BY <1>2 DEF ReleaseWrite, Write, Contract!Vacate
<1>3. ASSUME NEW h \in Holder, RenewWrite(h) \/ LateRenewal(h)
      PROVE  UNCHANGED <<lease.transitions, lease.holder>>
  BY <1>3 DEF RenewWrite, LateRenewal, Write, Renewed
<1>4. CASE Expire
  BY <1>4 DEF Expire
<1>5. ASSUME NEW h \in Holder,
             \/ AcquireRead(h) \/ AcquireFails(h) \/ RenewRead(h) \/ StandDown(h)
             \/ RenewFails(h) \/ RenewCancelled(h) \/ ReleaseRead(h)
             \/ ReleaseFails(h) \/ Crash(h)
      PROVE  UNCHANGED lease
  BY <1>5 DEF AcquireRead, AcquireFails, RenewRead, StandDown, RenewFails,
     RenewCancelled, ReleaseRead, ReleaseFails, Crash
<1>6. QED
  BY <1>1, <1>2, <1>3, <1>4, <1>5 DEF Next, Acquire, Renew, Release

\* The Lease object implements the lease contract: although acquire is a read
\* and a write, no term is granted twice and the lease never moves without a
\* new one (K8sLease.acquire, the replace with the resourceVersion that was read).
THEOREM K8sLeaseImplementsContract == Spec => K8sImplementsContract
<1>1. Init => Contract!Init
  BY DEF Init, Contract!Init
<1>2. QED
  BY <1>1, K8sContractStep, K8sInvariant, PTL
     DEF Spec, K8sImplementsContract, Contract!Spec

-----------------------------------------------------------------------------
(* The Redis lease *)

\* The initial states satisfy the invariant.
LEMMA RedisInitInv == RedisInit => RedisInv
BY MaxIncrAssumption
   DEF RedisInit, RedisInv, RedisTypeOK, RedisNumbers, TermsUnique,
      KeyKeptWhileLeading, NoKey

\* A process takes the next number of the counter.
LEMMA IncrTermInv ==
  ASSUME RedisInv, NEW h \in Process, IncrTerm(h)
  PROVE  RedisInv'
<1> USE MaxIncrAssumption
<1>1. RedisTypeOK'
  BY DEF RedisInv, RedisTypeOK, IncrTerm, Numbered
<1>2. RedisNumbers'
  BY DEF RedisInv, RedisTypeOK, RedisNumbers, IncrTerm, Numbered,
     NoKey
<1>3. TermsUnique'
  BY DEF RedisInv, RedisTypeOK, RedisNumbers, TermsUnique, IncrTerm,
     Numbered
<1>4. KeyKeptWhileLeading'
  BY DEF RedisInv, RedisTypeOK, KeyKeptWhileLeading, KeyMatches,
     IncrTerm, Numbered
<1> QED
  BY <1>1, <1>2, <1>3, <1>4 DEF RedisInv

\* SET NX succeeds: the key was absent, so every other leader's term had lapsed.
LEMMA SetLockInv ==
  ASSUME RedisInv, NEW h \in Process, SetLock(h)
  PROVE  RedisInv'
<1> USE MaxIncrAssumption, RedisNoneAssumption
<1>1. RedisTypeOK'
  BY DEF RedisInv, RedisTypeOK, SetLock
<1>2. RedisNumbers'
  BY DEF RedisInv, RedisTypeOK, RedisNumbers, SetLock, NoKey
<1>3. TermsUnique'
  BY DEF RedisInv, RedisTypeOK, RedisNumbers, TermsUnique, SetLock
<1>4. KeyKeptWhileLeading'
  <2> SUFFICES ASSUME NEW g \in Process, stage'[g] = "leading", issued'[g] \notin dropped'
               PROVE  KeyMatches(g)'
    BY DEF KeyKeptWhileLeading
  <2>1. CASE g = h
    BY <2>1 DEF RedisInv, RedisTypeOK, SetLock, KeyMatches
  <2>2. CASE g # h
    <3>1. stage[g] = "leading" /\ issued[g] \notin dropped
      BY <2>2 DEF RedisInv, RedisTypeOK, SetLock
    <3>2. lock = [holder |-> g, term |-> issued[g]]
      BY <3>1 DEF RedisInv, KeyKeptWhileLeading, KeyMatches
    <3>3. lock = [holder |-> NoProcess, term |-> 0]
      BY DEF SetLock, NoKey
    <3>4. QED
      BY <3>2, <3>3
  <2>3. QED
    BY <2>1, <2>2
<1> QED
  BY <1>1, <1>2, <1>3, <1>4 DEF RedisInv

\* The steps of one process that leave the key alone and end or suspend its
\* claim.
LEMMA RetreatInv ==
  ASSUME RedisInv, NEW h \in Process,
         NoLock(h) \/ RedisRenewFails(h) \/ RedisCrash(h)
  PROVE  RedisInv'
<1> USE MaxIncrAssumption
<1>1. RedisTypeOK'
  <2>1. stage' \in [Process -> {"idle", "numbered", "leading", "releasing"}]
    BY DEF RedisInv, RedisTypeOK, NoLock, RedisRenewFails, RedisCrash
  <2>2. issued' \in [Process -> 0..MaxIncr]
    BY DEF RedisInv, RedisTypeOK, NoLock, RedisRenewFails, RedisCrash
  <2>3. UNCHANGED <<counter, lock, granted, dropped>>
    BY DEF NoLock, RedisRenewFails, RedisCrash
  <2>4. QED
    BY <2>1, <2>2, <2>3 DEF RedisInv, RedisTypeOK
<1>2. RedisNumbers'
  BY DEF RedisInv, RedisTypeOK, RedisNumbers, NoLock, RedisRenewFails,
     RedisCrash, NoKey
<1>3. TermsUnique'
  BY DEF RedisInv, RedisTypeOK, RedisNumbers, TermsUnique, NoLock,
     RedisRenewFails, RedisCrash
<1>4. KeyKeptWhileLeading'
  BY DEF RedisInv, RedisTypeOK, KeyKeptWhileLeading, KeyMatches,
     NoLock, RedisRenewFails, RedisCrash
<1> QED
  BY <1>1, <1>2, <1>3, <1>4 DEF RedisInv

\* The script of release deletes the releasing process's own key only.
LEMMA ReleaseInv ==
  ASSUME RedisInv, NEW h \in Process, RedisRelease(h)
  PROVE  RedisInv'
<1> USE MaxIncrAssumption, RedisNoneAssumption
<1>1. RedisTypeOK'
  BY DEF RedisInv, RedisTypeOK, RedisRelease, Released, NoKey
<1>2. RedisNumbers'
  BY DEF RedisInv, RedisTypeOK, RedisNumbers, RedisRelease, Released,
     NoKey
<1>3. TermsUnique'
  BY DEF RedisInv, RedisTypeOK, RedisNumbers, TermsUnique, RedisRelease
<1>4. KeyKeptWhileLeading'
  <2> SUFFICES ASSUME NEW g \in Process, stage'[g] = "leading", issued'[g] \notin dropped'
               PROVE  KeyMatches(g)'
    BY DEF KeyKeptWhileLeading
  <2>1. g # h /\ stage[g] = "leading" /\ issued[g] \notin dropped /\ issued'[g] = issued[g]
    BY DEF RedisInv, RedisTypeOK, RedisRelease
  <2>2. lock = [holder |-> g, term |-> issued[g]]
    BY <2>1 DEF RedisInv, KeyKeptWhileLeading, KeyMatches
  <2>3. ~KeyMatches(h)
    BY <2>1, <2>2 DEF KeyMatches
  <2>4. lock' = lock
    BY <2>3 DEF RedisRelease, Released
  <2>5. QED
    BY <2>1, <2>2, <2>4 DEF KeyMatches
<1> QED
  BY <1>1, <1>2, <1>3, <1>4 DEF RedisInv

\* Redis drops the key: its term joins the lapsed ones.
LEMMA ExpireInv ==
  ASSUME RedisInv, RedisExpire
  PROVE  RedisInv'
<1> USE MaxIncrAssumption
<1>1. RedisTypeOK'
  <2>1. lock.term \in 1..MaxIncr
    BY DEF RedisInv, RedisTypeOK, RedisNumbers, RedisExpire
  <2>2. lock' \in [holder : Process \cup {NoProcess}, term : 0..MaxIncr]
    BY DEF RedisExpire, NoKey
  <2>3. dropped' \subseteq 1..MaxIncr
    BY <2>1 DEF RedisInv, RedisTypeOK, RedisExpire
  <2>4. QED
    BY <2>2, <2>3 DEF RedisInv, RedisTypeOK, RedisExpire
<1>2. RedisNumbers'
  BY DEF RedisInv, RedisTypeOK, RedisNumbers, RedisExpire
<1>3. TermsUnique'
  BY DEF RedisInv, TermsUnique, RedisExpire
<1>4. KeyKeptWhileLeading'
  BY DEF RedisInv, RedisTypeOK, KeyKeptWhileLeading, KeyMatches,
     RedisExpire
<1> QED
  BY <1>1, <1>2, <1>3, <1>4 DEF RedisInv

\* RedisInv holds in every reachable state.
THEOREM RedisInvariant == RedisSpec => []RedisInv
<1>1. RedisInv /\ [RedisNext]_redisVars => RedisInv'
  <2> SUFFICES ASSUME RedisInv, [RedisNext]_redisVars PROVE RedisInv'
    OBVIOUS
  <2>1. CASE RedisNext
    BY <2>1, IncrTermInv, SetLockInv, RetreatInv, ReleaseInv, ExpireInv DEF RedisNext
  <2>2. CASE UNCHANGED redisVars
    BY <2>2 DEF redisVars, RedisInv, RedisTypeOK, RedisNumbers,
       TermsUnique, KeyKeptWhileLeading, KeyMatches
  <2>3. QED
    BY <2>1, <2>2
<1>2. QED
  BY RedisInitInv, <1>1, PTL DEF RedisSpec

\* No two processes hold the same term of the Redis counter (INCR in acquire).
THEOREM RedisTermsUnique == RedisSpec => []TermsUnique
<1>1. RedisInv => TermsUnique
  BY DEF RedisInv
<1>2. QED
  BY RedisInvariant, <1>1, PTL

\* A leader's key goes to its TTL and to no other process's release
\* (_LUA_RELEASE).
THEOREM RedisKeyKept == RedisSpec => []KeyKeptWhileLeading
<1>1. RedisInv => KeyKeptWhileLeading
  BY DEF RedisInv
<1>2. QED
  BY RedisInvariant, <1>1, PTL

-----------------------------------------------------------------------------
(* The distributed locks *)

\* Nobody has a key at first.
LEMMA LockInitInv == LockInit => LockInv
BY LockAssumption DEF LockInit, LockInv, LockTypeOK, KeyOfSetter,
   KeysKept

\* Every step of the loop, of an operation and of the connections keeps the
\* state well typed.
LEMMA LockTypeStep == LockInv /\ [LockNext]_lockVars => LockTypeOK'
<1> SUFFICES ASSUME LockInv, [LockNext]_lockVars PROVE LockTypeOK'
  OBVIOUS
<1> USE LockAssumption DEF LockInv, LockTypeOK, KeyOfSetter, LockFault,
   loopVars, opVars, Acquires, KeyAfterAcquire,
        KeyAfterRelease, Renews
<1>1. ASSUME NEW p \in Pod, LoopBegins(p) PROVE LockTypeOK'
  BY <1>1 DEF LoopBegins
<1>2. ASSUME NEW p \in Pod, LoopEnds(p) PROVE LockTypeOK'
  BY <1>2 DEF LoopEnds
<1>3. ASSUME NEW p \in Pod, RenewLoop(p) PROVE LockTypeOK'
  BY <1>3 DEF RenewLoop
<1>4. ASSUME NEW p \in Pod, RenewLoopFails(p) PROVE LockTypeOK'
  BY <1>4 DEF RenewLoopFails
<1>5. ASSUME NEW p \in Pod, StopLoop(p) PROVE LockTypeOK'
  BY <1>5 DEF StopLoop
<1>6. ASSUME NEW p \in Pod, Disconnect(p) \/ Reconnect(p) PROVE LockTypeOK'
  BY <1>6 DEF Disconnect, Reconnect
<1>7. ASSUME NEW o \in Op, Enter(o) PROVE LockTypeOK'
  BY <1>7 DEF Enter
<1>8. ASSUME NEW o \in Op, EnterRefused(o) PROVE LockTypeOK'
  BY <1>8 DEF EnterRefused
<1>9. ASSUME NEW o \in Op, Leave(o) PROVE LockTypeOK'
  BY <1>9 DEF Leave
<1>10. CASE LoopKeyExpires
  BY <1>10 DEF LoopKeyExpires
<1>11. CASE OpKeyExpires
  BY <1>11 DEF OpKeyExpires
<1>12. CASE UNCHANGED lockVars
  BY <1>12 DEF lockVars
<1>13. QED
  BY <1>1, <1>2, <1>3, <1>4, <1>5, <1>6, <1>7, <1>8, <1>9, <1>10, <1>11, <1>12 DEF LockNext

\* Every step preserves the inductive invariant: a pod with a client enters only
\* when there is no key, one without is astray, and the release script deletes
\* only the pod's own key.
LEMMA LockStep == LockInv /\ [LockNext]_lockVars => LockInv'
<1> SUFFICES ASSUME LockInv, [LockNext]_lockVars PROVE LockInv'
  OBVIOUS
<1>0. LockTypeOK'
  BY LockTypeStep
<1> USE LockAssumption, <1>0
    DEF LockInv, LockTypeOK, KeyOfSetter, KeysKept,
       LockFault, loopVars, opVars, Acquires,
        KeyAfterAcquire, KeyAfterRelease, Renews
<1>1. ASSUME NEW p \in Pod, LoopBegins(p) PROVE LockInv'
  BY <1>1 DEF LoopBegins
<1>2. ASSUME NEW p \in Pod, LoopEnds(p) PROVE LockInv'
  BY <1>2 DEF LoopEnds
<1>3. ASSUME NEW p \in Pod, RenewLoop(p) PROVE LockInv'
  BY <1>3 DEF RenewLoop
<1>4. ASSUME NEW p \in Pod, RenewLoopFails(p) PROVE LockInv'
  BY <1>4 DEF RenewLoopFails
<1>5. ASSUME NEW p \in Pod, StopLoop(p) PROVE LockInv'
  BY <1>5 DEF StopLoop
<1>6. ASSUME NEW p \in Pod, Disconnect(p) \/ Reconnect(p) PROVE LockInv'
  BY <1>6 DEF Disconnect, Reconnect
<1>7. ASSUME NEW o \in Op, Enter(o) PROVE LockInv'
  BY <1>7 DEF Enter
<1>8. ASSUME NEW o \in Op, EnterRefused(o) PROVE LockInv'
  BY <1>8 DEF EnterRefused
<1>9. ASSUME NEW o \in Op, Leave(o) PROVE LockInv'
  BY <1>9 DEF Leave
<1>10. CASE LoopKeyExpires
  BY <1>10 DEF LoopKeyExpires
<1>11. CASE OpKeyExpires
  BY <1>11 DEF OpKeyExpires
<1>12. CASE UNCHANGED lockVars
  BY <1>12 DEF lockVars
<1>13. QED
  BY <1>1, <1>2, <1>3, <1>4, <1>5, <1>6, <1>7, <1>8, <1>9, <1>10, <1>11, <1>12 DEF LockNext

\* The inductive invariant holds in every reachable state.
THEOREM LockInvariant == LockSpec => []LockInv
<1>1. LockInit => LockInv
  BY LockInitInv
<1>2. LockInv /\ [LockNext]_lockVars => LockInv'
  BY LockStep
<1>3. QED
  BY <1>1, <1>2, PTL DEF LockSpec

\* A loop or an operation that entered with a key keeps it until it gives it
\* back or the key expires: no release, renewal or second loop of another pod
\* takes it away (RELEASE_LOCK_SCRIPT, RENEW_LOCK_SCRIPT).
THEOREM LockKeysKept == LockSpec => []KeysKept
<1>1. LockInv => KeysKept
  BY DEF LockInv
<1>2. QED
  BY <1>1, LockInvariant, PTL
=============================================================================
