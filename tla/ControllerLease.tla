-------------------------- MODULE ControllerLease --------------------------
(***************************************************************************)
(* The controller plane's leader election and the writes it fences: the    *)
(* controller_leases row of DBLease, the supervisor of controller_main     *)
(* that every controller process runs, and its periodic tick (cron         *)
(* producer, heartbeat sweep, approval sweep), whose transactions verify   *)
(* the term of the row before they commit.                                 *)
(*                                                                         *)
(* A Holder is one incarnation of a controller process: _make_holder_id    *)
(* gives every start a fresh id, so a process that crashes comes back as   *)
(* another Holder.  Time is abstracted: lease.live is "expires_at is in    *)
(* the future", and it may turn false at any moment.  Nothing a holder     *)
(* does depends on its own clock (the token's expires_at is never read).   *)
(* Reads and writes follow Postgres: SELECT ... FOR UPDATE keeps the row   *)
(* locked until the transaction ends, and UPDATEs of the row wait for it.  *)
(***************************************************************************)
EXTENDS Naturals, FiniteSets

CONSTANTS Holder,      \* controller process incarnations
          None,        \* NULL
          MaxFaults    \* bound on crashes, lost answers, errors, late renewals

ASSUME NoneAssumption == None \notin Holder
ASSUME MaxFaultsAssumption == MaxFaults \in Nat

VARIABLES lease,      \* the controller_leases row; term 0 is "no row yet"
          rowLock,    \* the process whose open transaction locks the row
          sup,        \* where each supervisor is
          token,      \* term of the token it leads with, 0 if none
          lost,       \* its lease_lost event
          shutdown,   \* its shutdown_event
          tick,       \* where its _leader_tick_loop task is
          stale,      \* tick stages that ever committed under an old term (observer)
          faults      \* faults so far

leaseVars == <<lease, rowLock>>
supVars   == <<sup, token, lost, shutdown>>
vars == <<lease, rowLock, sup, token, lost, shutdown, tick, stale, faults>>

SweepStage == {"heartbeat", "approval"}
Stage      == {"cron"} \cup SweepStage

\* "off": not running; a stage: about to run it; a stage with "verified": its
\* transaction has verified the lease and not ended; "exited": the task returned.
TickState == {"off", "cron", "cron_verified", "heartbeat", "heartbeat_verified",
              "approval", "approval_verified", "exited"}

Verified(s) == CASE s = "cron" -> "cron_verified"
                 [] s = "heartbeat" -> "heartbeat_verified"
                 [] s = "approval" -> "approval_verified"

\* Mistake: the tick runs past its last stage.
NextStagePastEnd(s) == CASE s = "cron" -> "heartbeat"
                         [] s = "heartbeat" -> "approval"
                         [] s = "approval" -> "done"

NextStage(s) == CASE s = "cron" -> "heartbeat"
                  [] s = "heartbeat" -> "approval"
                  [] s = "approval" -> "cron"

SupState == {"down", "standby", "promoting", "leading", "releasing",
             "stopped", "crashed"}

Alive(h) == sup[h] \in {"standby", "promoting", "leading", "releasing"}

TypeOK ==
  /\ lease \in [holder : Holder \cup {None}, term : Nat, live : BOOLEAN]
  /\ rowLock \in Holder \cup {None}
  /\ sup \in [Holder -> SupState]
  /\ token \in [Holder -> Nat]
  /\ lost \in [Holder -> BOOLEAN]
  /\ shutdown \in [Holder -> BOOLEAN]
  /\ tick \in [Holder -> TickState]
  /\ stale \subseteq Stage
  /\ faults \in 0..MaxFaults

Init ==
  /\ lease = [holder |-> None, term |-> 0, live |-> FALSE]
  /\ rowLock = None
  /\ sup = [h \in Holder |-> "down"]
  /\ token = [h \in Holder |-> 0]
  /\ lost = [h \in Holder |-> FALSE]
  /\ shutdown = [h \in Holder |-> FALSE]
  /\ tick = [h \in Holder |-> "off"]
  /\ stale = {}
  /\ faults = 0

Fault == faults < MaxFaults /\ faults' = faults + 1

----------------------------------------------------------------------------
(* The lease row: DBLease.acquire, renew, release.                         *)

\* Mistake: acquire forgets to look at expires_at.
AcquirableUnexpired(h) == lease.holder \in {None, h}

\* acquire's test: the row is missing, expired, or already ours.
Acquirable(h) == ~lease.live \/ lease.holder = h

\* Mistake: a takeover keeps the term, as a renewal does.
GrantedNoBump(h) ==
  [holder |-> h, live |-> TRUE,
   term |-> IF lease.term = 0 THEN 1 ELSE lease.term]

Granted(h) == [holder |-> h, term |-> lease.term + 1, live |-> TRUE]

\* The WHERE clause of renew and release.
Owns(h) == lease.holder = h /\ lease.term = token[h]

\* Mistake: renew writes the row without its WHERE clause.
RenewedBlindly(h) == [lease EXCEPT !.holder = h, !.live = TRUE]

Renewed(h) == IF Owns(h) THEN [lease EXCEPT !.live = TRUE] ELSE lease

\* Mistake: release clears the row without its WHERE clause.
ReleasedBlindly(h) == [lease EXCEPT !.holder = None, !.live = FALSE]

Released(h) ==
  IF Owns(h) THEN [lease EXCEPT !.holder = None, !.live = FALSE] ELSE lease

\* The clock passes expires_at of a lease nobody is renewing any more.
ExpireAbandoned ==
  /\ lease.live
  /\ \A h \in Holder : Owns(h) => sup[h] \notin {"promoting", "leading"}
  /\ lease' = [lease EXCEPT !.live = FALSE]
  /\ UNCHANGED <<rowLock, sup, token, lost, shutdown, tick, stale, faults>>

\* It passes although the owner still leads: its renewal is late (a long
\* sweep at promotion, a stalled event loop, a slow database).
ExpireLate ==
  /\ lease.live
  /\ \E h \in Holder : Owns(h) /\ sup[h] \in {"promoting", "leading"}
  /\ Fault
  /\ lease' = [lease EXCEPT !.live = FALSE]
  /\ UNCHANGED <<rowLock, sup, token, lost, shutdown, tick, stale>>

----------------------------------------------------------------------------
(* The supervisor: run_controller, _run_as_leader, _renew_loop.            *)

Start(h) ==
  /\ sup[h] = "down"
  /\ sup' = [sup EXCEPT ![h] = "standby"]
  /\ UNCHANGED <<lease, rowLock, token, lost, shutdown, tick, stale, faults>>

\* SIGTERM / SIGINT.
Signal(h) ==
  /\ Alive(h) /\ ~shutdown[h]
  /\ shutdown' = [shutdown EXCEPT ![h] = TRUE]
  /\ UNCHANGED <<lease, rowLock, sup, token, lost, tick, stale, faults>>

\* An acquire that returns a token; a fresh lease_lost event comes with it.
\* (One that finds the lease held changes nothing and the loop goes round.)
Acquire(h) ==
  /\ sup[h] = "standby" /\ ~shutdown[h]
  /\ rowLock = None
  /\ Acquirable(h)
  /\ lease' = Granted(h)
  /\ token' = [token EXCEPT ![h] = lease.term + 1]
  /\ sup' = [sup EXCEPT ![h] = "promoting"]
  /\ lost' = [lost EXCEPT ![h] = FALSE]
  /\ UNCHANGED <<rowLock, shutdown, tick, stale, faults>>

\* The commit takes effect but its answer is lost: acquire logs and returns None.
AcquireUnacked(h) ==
  /\ sup[h] = "standby" /\ ~shutdown[h]
  /\ rowLock = None
  /\ Acquirable(h)
  /\ Fault
  /\ lease' = Granted(h)
  /\ UNCHANGED <<rowLock, sup, token, lost, shutdown, tick, stale>>

\* sweep_once has returned or raised; the child tasks are created.
Promote(h) ==
  /\ sup[h] = "promoting"
  /\ sup' = [sup EXCEPT ![h] = "leading"]
  /\ tick' = [tick EXCEPT ![h] = "cron"]
  /\ UNCHANGED <<lease, rowLock, token, lost, shutdown, stale, faults>>

\* Mistake: the renew loop ignores renew's answer.
RenewIgnored(h) ==
  /\ sup[h] = "leading" /\ ~lost[h] /\ ~shutdown[h]
  /\ rowLock = None
  /\ lease' = Renewed(h)
  /\ UNCHANGED <<rowLock, sup, token, lost, shutdown, tick, stale, faults>>

Renew(h) ==
  /\ sup[h] = "leading" /\ ~lost[h] /\ ~shutdown[h]
  /\ rowLock = None
  /\ lease' = Renewed(h)
  /\ lost' = [lost EXCEPT ![h] = ~Owns(h)]
  /\ UNCHANGED <<rowLock, sup, token, shutdown, tick, stale, faults>>

\* renew raises or reports failure, before or after its UPDATE took effect.
RenewError(h) ==
  /\ sup[h] = "leading" /\ ~lost[h] /\ ~shutdown[h]
  /\ Fault
  /\ \/ lease' = lease
     \/ rowLock = None /\ lease' = Renewed(h)
  /\ lost' = [lost EXCEPT ![h] = TRUE]
  /\ UNCHANGED <<rowLock, sup, token, shutdown, tick, stale>>

\* The children are cancelled; a transaction one of them had open rolls back.
StandDown(h) ==
  /\ sup[h] = "leading"
  /\ lost[h] \/ shutdown[h]
  /\ sup' = [sup EXCEPT ![h] = "releasing"]
  /\ tick' = [tick EXCEPT ![h] = "off"]
  /\ rowLock' = IF rowLock = h THEN None ELSE rowLock
  /\ UNCHANGED <<lease, token, lost, shutdown, stale, faults>>

Release(h) ==
  /\ sup[h] = "releasing"
  /\ rowLock = None
  /\ lease' = Released(h)
  /\ sup' = [sup EXCEPT ![h] = "standby"]
  /\ token' = [token EXCEPT ![h] = 0]
  /\ UNCHANGED <<rowLock, lost, shutdown, tick, stale, faults>>

\* release raises before its UPDATE: the best-effort release is skipped.
ReleaseError(h) ==
  /\ sup[h] = "releasing"
  /\ Fault
  /\ sup' = [sup EXCEPT ![h] = "standby"]
  /\ token' = [token EXCEPT ![h] = 0]
  /\ UNCHANGED <<lease, rowLock, lost, shutdown, tick, stale>>

Stop(h) ==
  /\ sup[h] = "standby" /\ shutdown[h]
  /\ sup' = [sup EXCEPT ![h] = "stopped"]
  /\ UNCHANGED <<lease, rowLock, token, lost, shutdown, tick, stale, faults>>

\* The process dies; the database rolls its open transaction back.
Crash(h) ==
  /\ Alive(h)
  /\ Fault
  /\ sup' = [sup EXCEPT ![h] = "crashed"]
  /\ token' = [token EXCEPT ![h] = 0]
  /\ tick' = [tick EXCEPT ![h] = "off"]
  /\ rowLock' = IF rowLock = h THEN None ELSE rowLock
  /\ UNCHANGED <<lease, lost, shutdown, stale>>

----------------------------------------------------------------------------
(* _leader_tick_loop.  A stage runs one transaction: it verifies that the  *)
(* row's term is still the token's, writes, and commits.                   *)

\* Stage s commits with h's token: is that term still the row's?
CommitUnder(h, s) == IF lease.term = token[h] THEN stale ELSE stale \cup {s}

\* Mistake: the cron producer verifies without FOR UPDATE.
CronVerifyUnlocked(h) ==
  /\ tick[h] = "cron"
  /\ lease.term = token[h]
  /\ tick' = [tick EXCEPT ![h] = "cron_verified"]
  /\ UNCHANGED <<lease, rowLock, sup, token, lost, shutdown, stale, faults>>

\* cron_producer.tick verifies with FOR UPDATE: the row stays locked.
CronVerify(h) ==
  /\ tick[h] = "cron"
  /\ rowLock = None
  /\ lease.term = token[h]
  /\ rowLock' = h
  /\ tick' = [tick EXCEPT ![h] = "cron_verified"]
  /\ UNCHANGED <<lease, sup, token, lost, shutdown, stale, faults>>

CronCommit(h) ==
  /\ tick[h] = "cron_verified"
  /\ rowLock' = None
  /\ stale' = CommitUnder(h, "cron")
  /\ tick' = [tick EXCEPT ![h] = NextStage("cron")]
  /\ UNCHANGED <<lease, sup, token, lost, shutdown, faults>>

\* The transaction fails for another reason: logged, next stage.
CronError(h) ==
  /\ tick[h] = "cron_verified"
  /\ rowLock' = None
  /\ tick' = [tick EXCEPT ![h] = NextStage("cron")]
  /\ UNCHANGED <<lease, sup, token, lost, shutdown, stale, faults>>

\* The sweeps verify with a plain SELECT, the last time just before commit.
SweepVerify(h, s) ==
  /\ tick[h] = s
  /\ lease.term = token[h]
  /\ tick' = [tick EXCEPT ![h] = Verified(s)]
  /\ UNCHANGED <<lease, rowLock, sup, token, lost, shutdown, stale, faults>>

SweepCommit(h, s) ==
  /\ tick[h] = Verified(s)
  /\ stale' = CommitUnder(h, s)
  /\ tick' = [tick EXCEPT ![h] = NextStage(s)]
  /\ UNCHANGED <<lease, rowLock, sup, token, lost, shutdown, faults>>

\* Nothing to sweep (no verify at all), or an error that is logged.
SweepNothing(h, s) ==
  /\ tick[h] \in {s, Verified(s)}
  /\ tick' = [tick EXCEPT ![h] = NextStage(s)]
  /\ UNCHANGED <<lease, rowLock, sup, token, lost, shutdown, stale, faults>>

\* LeaseLost: the tick loop returns.  No event is set; the renew loop is what
\* ends this leadership.
TickLeaseLost(h) ==
  /\ tick[h] \in Stage
  /\ tick[h] = "cron" => rowLock = None
  /\ lease.term # token[h]
  /\ tick' = [tick EXCEPT ![h] = "exited"]
  /\ UNCHANGED <<lease, rowLock, sup, token, lost, shutdown, stale, faults>>

----------------------------------------------------------------------------
Supervise(h) ==
  \/ Start(h) \/ Signal(h) \/ Acquire(h) \/ AcquireUnacked(h) \/ Promote(h)
  \/ Renew(h) \/ RenewError(h) \/ StandDown(h) \/ Release(h) \/ ReleaseError(h)
  \/ Stop(h) \/ Crash(h)

TickStep(h) ==
  \/ CronVerify(h) \/ CronCommit(h) \/ CronError(h) \/ TickLeaseLost(h)
  \/ \E s \in SweepStage :
        SweepVerify(h, s) \/ SweepCommit(h, s) \/ SweepNothing(h, s)

Next ==
  \/ \E h \in Holder : Supervise(h) \/ TickStep(h)
  \/ ExpireAbandoned
  \/ ExpireLate

Spec == Init /\ [][Next]_vars
----------------------------------------------------------------------------
(* Fairness.  Started processes keep taking steps; a query that waits for  *)
(* the row lock gets it in the end (Postgres queues waiters), hence strong *)
(* fairness where the lock is needed.  Signals and faults are never owed.  *)

Fairness ==
  /\ WF_vars(ExpireAbandoned)
  /\ \A h \in Holder :
       /\ WF_vars(Start(h)) /\ WF_vars(Promote(h)) /\ WF_vars(StandDown(h))
       /\ WF_vars(Stop(h)) /\ WF_vars(CronCommit(h) \/ CronError(h))
       /\ SF_vars(Acquire(h)) /\ SF_vars(Renew(h)) /\ SF_vars(Release(h))

FairSpec == Spec /\ Fairness

----------------------------------------------------------------------------
(* Properties.                                                             *)

\* Leadership periods are exclusive: two processes never lead with the same
\* term, however late answers, expiries, crashes and re-acquires fall
\* (DBLease.acquire bumps the term on every take, renewals never do).
TermsExclusive ==
  \A g, h \in Holder : g # h /\ token[g] > 0 => token[g] # token[h]

\* A process that leads with the row's current term is the row's holder:
\* nobody else's acquire, renew or release can take the row from it and leave
\* its term in place (the WHERE clauses of renew and release, the bump in
\* acquire), so a term check alone is enough of a fence.
CurrentTermHeld ==
  \A h \in Holder :
     token[h] > 0 /\ token[h] = lease.term => lease.holder = h

\* The cron producer never commits under a stale term: FOR UPDATE keeps every
\* acquire out between its verify and its commit (cron_producer.tick).
CronFenced == "cron" \notin stale

\* What heartbeat_sweep's docstring says of the sweeps: a term mismatch stands
\* the supervisor down "without writing under a stale term".
SweepsFenced == stale \cap SweepStage = {}

\* The facts the exclusive terms and the cron fence rest on: no token is newer
\* than the row, only leaders tick, and a cron transaction that has verified
\* its term keeps the row locked (FOR UPDATE), so the term stays current.
TokensNotAhead == \A h \in Holder : token[h] <= lease.term
OnlyLeadersTick == \A h \in Holder : tick[h] # "off" => sup[h] = "leading"
VerifiedKeepsLock ==
  \A h \in Holder :
     tick[h] = "cron_verified" => rowLock = h /\ token[h] = lease.term

\* The inductive invariant of the specification.
LeaseInv ==
  /\ TypeOK
  /\ TokensNotAhead
  /\ TermsExclusive
  /\ CurrentTermHeld
  /\ OnlyLeadersTick
  /\ VerifiedKeepsLock
  /\ CronFenced

\* The row follows the lease contract: terms only grow, and the holder only
\* changes with a new term or back to nobody.
Contract == INSTANCE LeaseContract WITH term <- lease.term, owner <- lease.holder
ImplementsContract == Contract!Spec

\* A leader whose tick loop met LeaseLost stops leading: the renew loop finds
\* the same mismatch (controller_main, LeaseLost handling).
LeaseLostStandsDown ==
  \A h \in Holder : (tick[h] = "exited") ~> (sup[h] # "leading")

Leads(h) == sup[h] = "leading" /\ token[h] = lease.term

Candidates == {h \in Holder : sup[h] \in {"down", "standby", "promoting",
                                          "leading", "releasing"} /\ ~shutdown[h]}

\* Fail-over works: whatever crashes, lost answers or late renewals happened,
\* some process comes to lead with the current term, unless none is left.
FailoverCompletes == []<>(Candidates = {} \/ \E h \in Holder : Leads(h))
=============================================================================
