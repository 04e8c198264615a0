-------------------------- MODULE KubernetesLease --------------------------
(***************************************************************************)
(* The Kubernetes backend of the controller lease: one Lease object, read  *)
(* and written back whole.  The API server refuses a write whose           *)
(* resourceVersion is not the stored one, so what matters of the version   *)
(* is whether anybody wrote since the read (current).  Every call runs in  *)
(* a thread (asyncio.to_thread) that a cancelled caller leaves behind.     *)
(* The supervisor is reduced to what it asks of the backend.               *)
(***************************************************************************)
EXTENDS Naturals

CONSTANTS Holder,     \* controller processes
          None,
          MaxTerm,    \* bound on leaseTransitions
          MaxFaults   \* bound on failed calls, lost answers, crashes

ASSUME K8sNoneAssumption == None \notin Holder
ASSUME K8sBoundsAssumption == MaxTerm \in Nat /\ MaxFaults \in Nat

VARIABLES lease,     \* the Lease object: holder, transitions, not yet expired
          at,        \* where each process is
          token,     \* term of the token it holds, 0 if none
          seen,      \* leaseTransitions in the object it read last
          current,   \* processes whose read object is still the stored version
          late,      \* the same for a renewal whose caller was cancelled
          faults,
          lapsed     \* terms that expired while they were held (observer)

vars == <<lease, at, token, seen, current, late, faults, lapsed>>

TypeOK ==
  /\ lease \in [holder : Holder \cup {None}, transitions : 0..MaxTerm, fresh : BOOLEAN]
  /\ at \in [Holder -> {"idle", "acquiring", "leading", "renewing", "releasing", "freeing", "dead"}]
  /\ token \in [Holder -> 0..MaxTerm]
  /\ seen \in [Holder -> 0..MaxTerm]
  /\ current \subseteq Holder /\ late \subseteq Holder
  /\ faults \in 0..MaxFaults
  /\ lapsed \subseteq 1..MaxTerm

\* No object: an absent Lease and one with no transitions are taken alike.
Init ==
  /\ lease = [holder |-> None, transitions |-> 0, fresh |-> FALSE]
  /\ at = [h \in Holder |-> "idle"]
  /\ token = [h \in Holder |-> 0]
  /\ seen = [h \in Holder |-> 0]
  /\ current = {} /\ late = {}
  /\ faults = 0
  /\ lapsed = {}

Fault == faults < MaxFaults /\ faults' = faults + 1

----------------------------------------------------------------------------
(* Calls to the API server.                                                *)

\* _read.
Read(h) ==
  /\ seen' = [seen EXCEPT ![h] = lease.transitions]
  /\ current' = current \cup {h}

\* Mistake: the object is rebuilt for the write, without its resourceVersion.
UnmodifiedUnknown(h) == TRUE

\* Nobody wrote since h read (the resourceVersion that _replace sends back; for
\* _create: the object does still not exist).
Unmodified(h) == h \in current

\* _create or _replace that the API server accepts.
Write(object) ==
  /\ lease' = object
  /\ current' = {} /\ late' = {}

\* Mistake: the two tests of acquire are swapped.
UpForGrabsSwapped(h) == ~lease.fresh \/ lease.holder # h

\* Mistake: the lease waits to be given back.
UpForGrabsReleased(h) == lease.holder \in {None, h}

\* Expired, given back, or h's own.
UpForGrabs(h) == ~lease.fresh \/ lease.holder = h

NextTerm(h) == seen[h] + 1

\* The test of renew and release.
Matches(h) == lease.holder = h /\ lease.transitions = token[h]

----------------------------------------------------------------------------
(* acquire.  A lease that is not up for grabs, or a failed read, changes   *)
(* nothing.                                                                *)

AcquireRead(h) ==
  /\ at[h] = "idle"
  /\ lease.transitions < MaxTerm
  /\ UpForGrabs(h)
  /\ Read(h)
  /\ at' = [at EXCEPT ![h] = "acquiring"]
  /\ UNCHANGED <<lease, token, late, faults, lapsed>>

\* The process leads, or never gets the answer and starts over.
AcquireWrite(h) ==
  /\ at[h] = "acquiring"
  /\ Unmodified(h)
  /\ Write([holder |-> h, transitions |-> NextTerm(h), fresh |-> TRUE])
  /\ \/ /\ at' = [at EXCEPT ![h] = "leading"]
        /\ token' = [token EXCEPT ![h] = NextTerm(h)]
        /\ UNCHANGED faults
     \/ /\ Fault
        /\ at' = [at EXCEPT ![h] = "idle"]
        /\ UNCHANGED token
  /\ UNCHANGED <<seen, lapsed>>

\* A conflict, or the call fails.
AcquireFails(h) ==
  /\ at[h] = "acquiring"
  /\ (~Unmodified(h) /\ UNCHANGED faults) \/ Fault
  /\ at' = [at EXCEPT ![h] = "idle"]
  /\ UNCHANGED <<lease, token, seen, current, late, lapsed>>

----------------------------------------------------------------------------
(* renew.                                                                  *)

RenewRead(h) ==
  /\ at[h] = "leading"
  /\ Matches(h)
  /\ Read(h)
  /\ at' = [at EXCEPT ![h] = "renewing"]
  /\ UNCHANGED <<lease, token, late, faults, lapsed>>

\* The lease is another's, or the read fails, or the supervisor shuts down.
StandDown(h) ==
  /\ at[h] = "leading"
  /\ at' = [at EXCEPT ![h] = "releasing"]
  /\ UNCHANGED <<lease, token, seen, current, late, faults, lapsed>>

Renewed == [lease EXCEPT !.fresh = TRUE]

RenewWrite(h) ==
  /\ at[h] = "renewing"
  /\ Unmodified(h)
  /\ Write(Renewed)
  /\ \/ at' = [at EXCEPT ![h] = "leading"] /\ UNCHANGED faults
     \/ at' = [at EXCEPT ![h] = "releasing"] /\ Fault
  /\ UNCHANGED <<token, seen, lapsed>>

RenewFails(h) ==
  /\ at[h] = "renewing"
  /\ (~Unmodified(h) /\ UNCHANGED faults) \/ Fault
  /\ at' = [at EXCEPT ![h] = "releasing"]
  /\ UNCHANGED <<lease, token, seen, current, late, lapsed>>

\* _run_as_leader cancels the renewal (shutdown, or a tick lost the lease); the
\* thread it waited for is still going to write.
RenewCancelled(h) ==
  /\ at[h] = "renewing"
  /\ at' = [at EXCEPT ![h] = "releasing"]
  /\ late' = IF Unmodified(h) THEN late \cup {h} ELSE late
  /\ UNCHANGED <<lease, token, seen, current, faults, lapsed>>

LateRenewal(h) ==
  /\ h \in late
  /\ Write(Renewed)
  /\ UNCHANGED <<at, token, seen, faults, lapsed>>

----------------------------------------------------------------------------
(* release.                                                                *)

ReleaseRead(h) ==
  /\ at[h] = "releasing"
  /\ Matches(h)
  /\ Read(h)
  /\ at' = [at EXCEPT ![h] = "freeing"]
  /\ UNCHANGED <<lease, token, late, faults, lapsed>>

Ended(h) ==
  /\ at' = [at EXCEPT ![h] = "idle"]
  /\ token' = [token EXCEPT ![h] = 0]

ReleaseWrite(h) ==
  /\ at[h] = "freeing"
  /\ Unmodified(h)
  /\ Write([lease EXCEPT !.holder = None, !.fresh = FALSE])
  /\ Ended(h)
  /\ UNCHANGED <<seen, faults, lapsed>>

\* Not this token's lease any more, a conflict, or a failed call: nothing is
\* given back.
ReleaseFails(h) ==
  /\ \/ at[h] = "releasing" /\ ~Matches(h) /\ UNCHANGED faults
     \/ at[h] = "freeing" /\ ~Unmodified(h) /\ UNCHANGED faults
     \/ at[h] \in {"releasing", "freeing"} /\ Fault
  /\ Ended(h)
  /\ UNCHANGED <<lease, seen, current, late, lapsed>>

\* The process dies or has shut down, and its threads with it; a replacement has
\* a name of its own (_make_holder_id).
Crash(h) ==
  /\ at[h] # "dead"
  /\ Fault
  /\ at' = [at EXCEPT ![h] = "dead"]
  /\ token' = [token EXCEPT ![h] = 0]
  /\ late' = late \ {h}
  /\ UNCHANGED <<lease, seen, current, lapsed>>

\* renewTime + leaseDurationSeconds passes, by the clock of whoever looks.
Expire ==
  /\ lease.fresh
  /\ lease' = [lease EXCEPT !.fresh = FALSE]
  /\ lapsed' = lapsed \cup {lease.transitions}
  /\ UNCHANGED <<at, token, seen, current, late, faults>>

Acquire(h) == AcquireRead(h) \/ AcquireWrite(h) \/ AcquireFails(h)
Renew(h) == RenewRead(h) \/ RenewWrite(h) \/ RenewFails(h)
Release(h) == ReleaseRead(h) \/ ReleaseWrite(h) \/ ReleaseFails(h)

Next ==
  \/ \E h \in Holder :
        \/ Acquire(h) \/ Renew(h) \/ Release(h)
        \/ StandDown(h) \/ RenewCancelled(h) \/ LateRenewal(h) \/ Crash(h)
  \/ Expire

Spec == Init /\ [][Next]_vars

\* The supervisor keeps acquiring, renewing and releasing, and stands down when
\* its lease is another's.
FairSpec ==
  /\ Spec
  /\ \A h \in Holder :
       /\ WF_vars(Acquire(h)) /\ WF_vars(Renew(h)) /\ WF_vars(Release(h))
       /\ WF_vars(StandDown(h) /\ ~Matches(h))

----------------------------------------------------------------------------
(* Properties.                                                             *)

\* A leader loses the lease to expiry and to nothing else: neither an acquire
\* nor a release or renewal decided on an older read (a cancelled one included)
\* touches a lease that was renewed or taken since (K8sLease, resourceVersion).
KeptUntilLapsed ==
  \A h \in Holder :
    at[h] \in {"leading", "renewing"} /\ token[h] \notin lapsed => Matches(h)

\* What LeaseToken says of every backend: terms increase across acquires, and
\* the lease changes hands by a new term or by being given back.
Contract == INSTANCE LeaseContract WITH term <- lease.transitions, owner <- lease.holder
K8sImplementsContract == Contract!Spec

\* A lease that expired or was given back is held again in the end: contenders
\* that conflict do not keep each other from it (acquire, renew).
K8sFailover ==
  ~lease.fresh ~> (lease.fresh \/ lease.transitions = MaxTerm)

----------------------------------------------------------------------------
(* The inductive invariant behind them.                                    *)

\* Whoever has not been deposed by a write knows what it read: an acquire saw
\* the stored term, and a lease that was nobody's, its own, or had expired; a
\* renewal or release saw its own term.
ReadsCurrent ==
  \A h \in current :
    /\ at[h] = "acquiring" =>
         /\ seen[h] = lease.transitions
         /\ lease.holder \in {None, h} \/ lease.transitions \in lapsed
    /\ at[h] \in {"renewing", "freeing"} => Matches(h)

\* A lease that is not fresh was given back or has expired.
NotFreshIsFree == lease.fresh \/ lease.holder = None \/ lease.transitions \in lapsed

\* Terms count from one.
Numbers ==
  /\ \A h \in Holder :
       /\ at[h] \in {"leading", "renewing", "releasing", "freeing"} => token[h] > 0
       /\ at[h] = "acquiring" => seen[h] < MaxTerm
  /\ lease.fresh \/ late # {} => lease.transitions > 0

K8sInv == TypeOK /\ Numbers /\ ReadsCurrent /\ NotFreshIsFree /\ KeptUntilLapsed
=============================================================================
