-------------------------- MODULE DistributedLock --------------------------
(***************************************************************************)
(* The Redis lock of the orchestrator's pods.  A key has one value per     *)
(* pod, however many tasks of the pod ask for it.  Modelled are one        *)
(* background loop under run_with_lock, with the key loopKey, and the      *)
(* operations on one project under hold or wait_for, with the key opKey.   *)
(* A pod that has lost its connection gets no client for a while           *)
(* (get_redis_client), and takes every lock without asking.                *)
(***************************************************************************)
EXTENDS Naturals

CONSTANTS Pod, Op, Nobody,
          PodOf,         \* the pod an operation runs in
          MaxLockFaults  \* bound on lost connections, failed calls, stalls, crashes

ASSUME LockAssumption ==
  /\ Nobody \notin Pod \cup Op /\ Pod \cap Op = {}
  /\ PodOf \in [Op -> Pod]
  /\ MaxLockFaults \in Nat

VARIABLES loopKey,   \* pod in tesslate:lock:{loop}, Nobody without a key
          loop,      \* each pod's run_with_lock: asleep, its loop running, or
                     \* over with nobody having looked
          opKey,     \* pod in tesslate:lock:env:{project}
          setBy,     \* the operation that set it (observer)
          op,        \* each operation
          up,        \* pods with a Redis client
          astray,    \* pods (for the loop) and operations that began without a
                     \* client, or whose key expired under them (observer)
          lockFaults

lockVars == <<loopKey, loop, opKey, setBy, op, up, astray, lockFaults>>
loopVars == <<loopKey, loop>>
opVars == <<opKey, setBy, op>>

LockTypeOK ==
  /\ loopKey \in Pod \cup {Nobody} /\ opKey \in Pod \cup {Nobody}
  /\ setBy \in Op \cup {Nobody}
  /\ loop \in [Pod -> {"asleep", "running", "over"}]
  /\ op \in [Op -> {"new", "inside", "over"}]
  /\ up \subseteq Pod /\ astray \subseteq Pod \cup Op
  /\ lockFaults \in 0..MaxLockFaults

LockInit ==
  /\ loopKey = Nobody /\ opKey = Nobody /\ setBy = Nobody
  /\ loop = [p \in Pod |-> "asleep"]
  /\ op = [o \in Op |-> "new"]
  /\ up = Pod /\ astray = {}
  /\ lockFaults = 0

LockFault == lockFaults < MaxLockFaults /\ lockFaults' = lockFaults + 1

----------------------------------------------------------------------------
(* The three calls, on a key with value k.                                 *)

\* acquire: SET NX, or no client.
Acquires(p, k) == p \in up => k = Nobody

KeyAfterAcquire(p, k) == IF p \in up THEN p ELSE k

\* Mistake: DEL without the script's comparison.
KeyDeleted(p, k) == IF p \in up THEN Nobody ELSE k

\* release: RELEASE_LOCK_SCRIPT, or no client.
KeyAfterRelease(p, k) == IF p \in up /\ k = p THEN Nobody ELSE k

\* Mistake: a key that is gone counts as renewed.
RenewsMissing(p, k) == p \in up => k \in {p, Nobody}

\* renew: RENEW_LOCK_SCRIPT, or no client.
Renews(p, k) == p \in up => k = p

----------------------------------------------------------------------------
(* run_with_lock.                                                          *)

LoopBegins(p) ==
  /\ loop[p] = "asleep"
  /\ Acquires(p, loopKey)
  /\ loopKey' = KeyAfterAcquire(p, loopKey)
  /\ loop' = [loop EXCEPT ![p] = "running"]
  /\ astray' = IF p \in up THEN astray \ {p} ELSE astray \cup {p}
  /\ UNCHANGED <<opVars, up, lockFaults>>

\* The loop returns or raises; _run_with_renewal looks when it has slept.
LoopEnds(p) ==
  /\ loop[p] = "running"
  /\ loop' = [loop EXCEPT ![p] = "over"]
  /\ UNCHANGED <<loopKey, opVars, up, astray, lockFaults>>

\* Mistake: while True.
EndNoticedNever(p) == FALSE

\* "while not loop_task.done()", after one more renewal.
EndNoticed(p) == loop[p] = "over"

\* A loop that is over is not awaited and its lock not released: the pod sleeps,
\* and the key waits for its TTL.
RenewLoop(p) ==
  /\ loop[p] # "asleep"
  /\ Renews(p, loopKey)
  /\ EndNoticed(p)
  /\ loop' = [loop EXCEPT ![p] = "asleep"]
  /\ UNCHANGED <<loopKey, opVars, up, astray, lockFaults>>

\* The key is another's or gone, or the call fails: the loop is cancelled and
\* awaited.  Only here the exception of a loop that raised arrives, and the lock is
\* released (run_with_lock, except Exception).
RenewLoopFails(p) ==
  /\ loop[p] # "asleep"
  /\ (~Renews(p, loopKey) /\ UNCHANGED lockFaults) \/ LockFault
  /\ loop' = [loop EXCEPT ![p] = "asleep"]
  /\ \/ UNCHANGED loopKey
     \/ loop[p] = "over" /\ loopKey' = KeyAfterRelease(p, loopKey)
  /\ UNCHANGED <<opVars, up, astray>>

\* CancelledError, at shutdown; another pod takes its place.
StopLoop(p) ==
  /\ loop[p] # "asleep"
  /\ LockFault
  /\ loop' = [loop EXCEPT ![p] = "asleep"]
  /\ loopKey' = KeyAfterRelease(p, loopKey)
  /\ UNCHANGED <<opVars, up, astray>>

\* The TTL: with nobody to renew it, or a stall longer than it.
LoopKeyExpires ==
  /\ loopKey # Nobody
  /\ IF loop[loopKey] = "asleep" THEN UNCHANGED lockFaults ELSE LockFault
  /\ loopKey' = Nobody
  /\ astray' = astray \cup {loopKey}
  /\ UNCHANGED <<loop, opVars, up>>

----------------------------------------------------------------------------
(* hold and wait_for.                                                      *)

Enter(o) ==
  /\ op[o] = "new"
  /\ Acquires(PodOf[o], opKey)
  /\ opKey' = KeyAfterAcquire(PodOf[o], opKey)
  /\ setBy' = IF PodOf[o] \in up THEN o ELSE setBy
  /\ op' = [op EXCEPT ![o] = "inside"]
  /\ astray' = IF PodOf[o] \in up THEN astray ELSE astray \cup {o}
  /\ UNCHANGED <<loopVars, up, lockFaults>>

\* RuntimeError of hold; TimeoutError of wait_for, which asks again until then.
EnterRefused(o) ==
  /\ op[o] = "new"
  /\ (~Acquires(PodOf[o], opKey) /\ UNCHANGED lockFaults) \/ LockFault
  /\ op' = [op EXCEPT ![o] = "over"]
  /\ UNCHANGED <<loopVars, opKey, setBy, up, astray>>

\* The finally; an error leaves the key to its TTL.
Leave(o) ==
  /\ op[o] = "inside"
  /\ op' = [op EXCEPT ![o] = "over"]
  /\ \/ /\ opKey' = KeyAfterRelease(PodOf[o], opKey)
        /\ setBy' = IF opKey' = Nobody THEN Nobody ELSE setBy
        /\ UNCHANGED lockFaults
     \/ LockFault /\ UNCHANGED <<opKey, setBy>>
  /\ UNCHANGED <<loopVars, up, astray>>

\* The TTL: its operation is over, or takes longer than it.
OpKeyExpires ==
  /\ opKey # Nobody
  /\ IF op[setBy] = "over" THEN UNCHANGED lockFaults ELSE LockFault
  /\ opKey' = Nobody /\ setBy' = Nobody
  /\ astray' = astray \cup {setBy}
  /\ UNCHANGED <<loopVars, op, up>>

----------------------------------------------------------------------------

\* A ping fails, or the first connection does: no client until the cooldown ends.
Disconnect(p) ==
  /\ p \in up
  /\ LockFault
  /\ up' = up \ {p}
  /\ UNCHANGED <<loopVars, opVars, astray>>

Reconnect(p) ==
  /\ p \notin up
  /\ up' = up \cup {p}
  /\ UNCHANGED <<loopVars, opVars, astray, lockFaults>>

LockNext ==
  \/ \E p \in Pod :
       \/ LoopBegins(p) \/ LoopEnds(p) \/ RenewLoop(p) \/ RenewLoopFails(p)
       \/ StopLoop(p) \/ Disconnect(p) \/ Reconnect(p)
  \/ \E o \in Op : Enter(o) \/ EnterRefused(o) \/ Leave(o)
  \/ LoopKeyExpires \/ OpKeyExpires

LockSpec == LockInit /\ [][LockNext]_lockVars

\* run_with_lock never returns: it tries again, and renews while the loop runs;
\* connections come back, and keys without a renewal expire.
LockFairSpec ==
  /\ LockSpec
  /\ \A p \in Pod : /\ WF_lockVars(LoopBegins(p)) /\ WF_lockVars(RenewLoop(p))
                    /\ WF_lockVars(RenewLoopFails(p) /\ UNCHANGED lockFaults)
                    /\ WF_lockVars(Reconnect(p))
  /\ WF_lockVars(LoopKeyExpires /\ UNCHANGED lockFaults)

----------------------------------------------------------------------------
(* Properties.                                                             *)

\* Whoever entered with a key that did not expire still has it, so that nobody
\* else enters with one: neither a second loop nor an operation of another pod
\* that outstayed its key takes it away (RELEASE_LOCK_SCRIPT, RENEW_LOCK_SCRIPT).
KeysKept ==
  /\ \A p \in Pod : loop[p] = "running" /\ p \notin astray => loopKey = p
  /\ \A o \in Op : op[o] = "inside" /\ o \notin astray =>
        \/ setBy = o
        \/ \E n \in Op \cap astray : PodOf[n] = PodOf[o]

\* A pod that runs the loop without its key (it had no client when it asked, or
\* stalled) stops once it can ask again (_run_with_renewal).
SecondLoopStops ==
  \A p \in Pod : (loop[p] = "running" /\ loopKey # p)
                    ~> (loop[p] # "running" \/ loopKey = p)

\* The loop is never gone for good: whether it crashed, its pod died or lost the
\* lock, some pod runs it again (run_with_lock: "another pod picks it up").
LoopComesBack == []<>(\E p \in Pod : loop[p] = "running")

\* Only one pod runs this loop at a time (module usage note).
OneLoop == \A p, q \in Pod : loop[p] = "running" /\ loop[q] = "running" => p = q

\* An operation that leaves does not release the lock another one set (release:
\* only if we hold it).
ReleasesItsOwn ==
  [][\A o \in Op : op[o] = "inside" /\ op'[o] = "over" /\ opKey' # opKey => setBy = o]_lockVars

----------------------------------------------------------------------------
(* The inductive invariant behind KeysKept.                                *)

\* The key of the project and the operation that set it go together.
KeyOfSetter ==
  /\ setBy = Nobody <=> opKey = Nobody
  /\ setBy # Nobody => opKey = PodOf[setBy]

LockInv == LockTypeOK /\ KeyOfSetter /\ KeysKept
=============================================================================
