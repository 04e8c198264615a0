---------------------------- MODULE RedisLease ----------------------------
(***************************************************************************)
(* The Redis backend of the controller lease: a term counter (INCR), then  *)
(* the lock key (SET NX EX), two commands with other processes in between; *)
(* renew and release compare the key's value "holder:term" in Lua scripts, *)
(* which Redis runs atomically.  The supervisor around it is the one of    *)
(* ControllerLease, reduced here to what it asks of the backend.           *)
(***************************************************************************)
EXTENDS Naturals

CONSTANTS Process,   \* controller processes
          NoProcess,
          MaxIncr    \* bound on acquire attempts

ASSUME RedisNoneAssumption == NoProcess \notin Process
ASSUME MaxIncrAssumption == MaxIncr \in Nat

VARIABLES counter,   \* tesslate:lease:{name}:term
          lock,      \* tesslate:lease:{name}: holder and term, or no key
          stage,     \* where each process is
          issued,    \* the term its INCR returned, 0 if none
          granted,   \* term of the newest key that was set (observer)
          dropped    \* terms whose key Redis dropped at its TTL (observer)

redisVars == <<counter, lock, stage, issued, granted, dropped>>

NoKey == [holder |-> NoProcess, term |-> 0]

RedisTypeOK ==
  /\ counter \in 0..MaxIncr
  /\ lock \in [holder : Process \cup {NoProcess}, term : 0..MaxIncr]
  /\ stage \in [Process -> {"idle", "numbered", "leading", "releasing"}]
  /\ issued \in [Process -> 0..MaxIncr]
  /\ granted \in 0..MaxIncr
  /\ dropped \subseteq 1..MaxIncr

RedisInit ==
  /\ counter = 0
  /\ lock = NoKey
  /\ stage = [h \in Process |-> "idle"]
  /\ issued = [h \in Process |-> 0]
  /\ granted = 0
  /\ dropped = {}

\* Mistake: the term is read, not incremented, when nobody holds the key.
NumberedByRead == IF lock = NoKey /\ counter > 0 THEN counter ELSE counter + 1

\* INCR.
Numbered == counter + 1

\* acquire, first command.
IncrTerm(h) ==
  /\ stage[h] = "idle"
  /\ counter < MaxIncr
  /\ counter' = Numbered
  /\ issued' = [issued EXCEPT ![h] = Numbered]
  /\ stage' = [stage EXCEPT ![h] = "numbered"]
  /\ UNCHANGED <<lock, granted, dropped>>

\* acquire, second command: SET NX finds no key and sets it; the process leads,
\* or the answer is lost: LeaseUnavailableError, the process starts over and
\* the key waits for its TTL.
SetLock(h) ==
  /\ stage[h] = "numbered"
  /\ lock = NoKey
  /\ lock' = [holder |-> h, term |-> issued[h]]
  /\ granted' = issued[h]
  /\ \/ stage' = [stage EXCEPT ![h] = "leading"] /\ UNCHANGED issued
     \/ stage' = [stage EXCEPT ![h] = "idle"] /\ issued' = [issued EXCEPT ![h] = 0]
  /\ UNCHANGED <<counter, dropped>>

\* SET NX finds the key, or either command fails: no token.
NoLock(h) ==
  /\ stage[h] = "numbered"
  /\ stage' = [stage EXCEPT ![h] = "idle"]
  /\ issued' = [issued EXCEPT ![h] = 0]
  /\ UNCHANGED <<counter, lock, granted, dropped>>

\* The test of both scripts.
KeyMatches(h) == lock = [holder |-> h, term |-> issued[h]]

\* Mistake: a plain DEL, without the script's comparison.
ReleasedBlindly(h) == NoKey

Released(h) == IF KeyMatches(h) THEN NoKey ELSE lock

\* renew of a key that is gone or another's (or an error): the supervisor stands
\* down.  (A successful renew leaves the key as it is; the TTL is not modelled.)
RedisRenewFails(h) ==
  /\ stage[h] = "leading"
  /\ stage' = [stage EXCEPT ![h] = "releasing"]
  /\ UNCHANGED <<counter, lock, issued, granted, dropped>>

RedisRelease(h) ==
  /\ stage[h] = "releasing"
  /\ lock' = Released(h)
  /\ stage' = [stage EXCEPT ![h] = "idle"]
  /\ issued' = [issued EXCEPT ![h] = 0]
  /\ UNCHANGED <<counter, granted, dropped>>

\* The process dies, or its release raises; the key stays until its TTL.
RedisCrash(h) ==
  /\ stage[h] # "idle"
  /\ stage' = [stage EXCEPT ![h] = "idle"]
  /\ issued' = [issued EXCEPT ![h] = 0]
  /\ UNCHANGED <<counter, lock, granted, dropped>>

\* EX: Redis drops the key.
RedisExpire ==
  /\ lock # NoKey
  /\ lock' = NoKey
  /\ dropped' = dropped \cup {lock.term}
  /\ UNCHANGED <<counter, stage, issued, granted>>

RedisNext ==
  \/ \E h \in Process :
        \/ IncrTerm(h) \/ SetLock(h) \/ NoLock(h)
        \/ RedisRenewFails(h) \/ RedisRelease(h) \/ RedisCrash(h)
  \/ RedisExpire

RedisSpec == RedisInit /\ [][RedisNext]_redisVars

----------------------------------------------------------------------------
(* Properties.                                                             *)

\* No two processes ever hold the same term (INCR in RedisLease.acquire).
TermsUnique ==
  \A g, h \in Process : g # h /\ issued[g] > 0 => issued[g] # issued[h]

\* A leader loses its key to its TTL and to nothing else: no late release of a
\* deposed leader erases it (the comparison in _LUA_RELEASE).
KeyKeptWhileLeading ==
  \A h \in Process : stage[h] = "leading" /\ issued[h] \notin dropped => KeyMatches(h)

\* Terms come from the counter, and a process that is not idle has one.
RedisNumbers ==
  /\ \A h \in Process : issued[h] <= counter /\ (stage[h] # "idle" => issued[h] > 0)
  /\ lock # NoKey => lock.holder # NoProcess /\ lock.term > 0

\* The inductive invariant of the specification.
RedisInv == RedisTypeOK /\ RedisNumbers /\ TermsUnique /\ KeyKeptWhileLeading

\* What LeaseToken says of every backend: terms increase across acquires.
RedisContract ==
  INSTANCE LeaseContract WITH Holder <- Process, None <- NoProcess,
                              term <- granted, owner <- lock.holder
RedisImplementsContract == RedisContract!Spec
=============================================================================
