--------------------------- MODULE ChatTaskProofs ---------------------------
(***************************************************************************)
(* For any set of tasks, any cap and any number of tries, faults and       *)
(* requests: a task without the chat's lock is being stopped, a task that  *)
(* is over has given back its lock and slot, the chat shows running for a  *)
(* task that is still to write its status or that left it so, and nobody   *)
(* takes a live task's lock.                                               *)
(***************************************************************************)
EXTENDS ChatTask, TLAPS

\* A chat without tasks satisfies the invariant.
LEMMA ChatInit == Init => ChatInv
BY ChatNoneAssumption, ChatBoundsAssumption
   DEF Init, ChatInv, TypeOK, FlagsSomebody, StoppedOrBeating, HolderReleases,
       SlotsOfAdmitted, AttemptIsFresh, SupersededLeft, GivenBack, RunningHasCause, NoRequest,
       Early, Looping, BeforeEnd, Working

\* Every step of an endpoint, a task, a heartbeat or a TTL keeps the state well
\* typed.
LEMMA ChatTypeStep == TypeOK /\ FlagsSomebody /\ [Next]_vars => TypeOK'
<1> SUFFICES ASSUME TypeOK, FlagsSomebody, [Next]_vars PROVE TypeOK'
  OBVIOUS
<1> USE ChatBoundsAssumption
    DEF TypeOK, At, NoFault, Fault, Harm, Early, Looping, Working, Executing, NoRequest,
        sendVars, workVars, reqVars
<1>1. ASSUME NEW t \in Task, CheckCap(t) PROVE TypeOK'
  BY <1>1 DEF CheckCap
<1>2. ASSUME NEW t \in Task, Refuse(t) PROVE TypeOK'
  BY <1>2 DEF Refuse
<1>3. ASSUME NEW t \in Task, Reserve(t) PROVE TypeOK'
  BY <1>3 DEF Reserve
<1>4. ASSUME NEW t \in Task, AgeOut(t) PROVE TypeOK'
  BY <1>4 DEF AgeOut
<1>5. ASSUME NEW t \in Task, AcquireLock(t) PROVE TypeOK'
  BY <1>5 DEF AcquireLock, Begin, Free
<1>6. ASSUME NEW t \in Task, NotAcquired(t) PROVE TypeOK'
  BY <1>6 DEF NotAcquired, Begin, Free
<1>7. ASSUME NEW t \in Task, LoadChat(t) PROVE TypeOK'
  BY <1>7 DEF LoadChat
<1>8. ASSUME NEW t \in Task, Prepare(t) PROVE TypeOK'
  BY <1>8 DEF Prepare, ShownFor
<1>9. ASSUME NEW t \in Task, EnterLoop(t) PROVE TypeOK'
  BY <1>9 DEF EnterLoop
<1>10. ASSUME NEW t \in Task, NoAgent(t) PROVE TypeOK'
  BY <1>10 DEF NoAgent
<1>11. ASSUME NEW t \in Task, PrepareFails(t) PROVE TypeOK'
  BY <1>11 DEF PrepareFails, ResetStatus, ShownFor
<1>12. ASSUME NEW t \in Task, AgentEnds(t) PROVE TypeOK'
  BY <1>12 DEF AgentEnds
<1>13. ASSUME NEW t \in Task, SeesCancelled(t) PROVE TypeOK'
  BY <1>13 DEF SeesCancelled
<1>14. ASSUME NEW t \in Task, ReadsHolder(t) PROVE TypeOK'
  BY <1>14 DEF ReadsHolder, LeftBy
<1>15. ASSUME NEW t \in Task, Interrupt(t) PROVE TypeOK'
  BY <1>15 DEF Interrupt, LeftBy
<1>16. ASSUME NEW t \in Task, Finalize(t) PROVE TypeOK'
  BY <1>16 DEF Finalize, FinalStatus, ResetStatus, ShownFor, Lasting
<1>17. ASSUME NEW t \in Task, ReleaseLock(t) PROVE TypeOK'
  BY <1>17 DEF ReleaseLock, Released
<1>18. ASSUME NEW t \in Task, ReleaseSlot(t) PROVE TypeOK'
  BY <1>18 DEF ReleaseSlot, Forgets
<1>19. ASSUME NEW t \in Task, CleanupInterrupted(t) PROVE TypeOK'
  BY <1>19 DEF CleanupInterrupted, Released, Forgets
<1>20. ASSUME NEW t \in Task, Crash(t) PROVE TypeOK'
  BY <1>20 DEF Crash, Forgets
<1>21. ASSUME NEW t \in Task, Extend(t) PROVE TypeOK'
  BY <1>21 DEF Extend
<1>22. ASSUME NEW t \in Task, SignalLost(t) PROVE TypeOK'
  BY <1>22 DEF SignalLost, Signalled
<1>23. ASSUME NEW t \in Task, Cancel(t) PROVE TypeOK'
  BY <1>23 DEF Cancel
<1>24. ASSUME NEW t \in Task, FlagExpires(t) PROVE TypeOK'
  BY <1>24 DEF FlagExpires
<1>25. CASE LockExpires
  BY <1>25 DEF LockExpires
<1>26. CASE HealRead
  BY <1>26 DEF HealRead
<1>27. CASE HealCheck
  BY <1>27 DEF HealCheck
<1>28. CASE ForceCancel
  BY <1>28 DEF ForceCancel
<1>29. CASE ForceRead
  <2>1. CASE lock = None
    BY <1>29, <2>1 DEF ForceRead, Deleting
  <2>2. CASE lock # None
    BY <1>29, <2>2 DEF ForceRead
  <2>3. QED
    BY <2>1, <2>2
<1>30. CASE ForceFlag
  BY <1>30 DEF ForceFlag, Deleting, FlagsSomebody
<1>31. CASE ForceDelete
  BY <1>31 DEF ForceDelete
<1>32. CASE UNCHANGED vars
  BY <1>32 DEF vars
<1>33. QED
  BY <1>1, <1>2, <1>3, <1>4, <1>5, <1>6, <1>7, <1>8, <1>9, <1>10, <1>11, <1>12,
     <1>13, <1>14, <1>15, <1>16, <1>17, <1>18, <1>19, <1>20, <1>21, <1>22, <1>23,
     <1>24, <1>25, <1>26, <1>27, <1>28, <1>29, <1>30, <1>31, <1>32
     DEF Next, Send, Heartbeat, CancelSeen

\* Every step preserves the inductive invariant: the lock is taken by a task that
\* is going to work, with its heartbeat, and leaves it before it leaves.
LEMMA ChatStep == ChatInv /\ [Next]_vars => ChatInv'
<1> SUFFICES ASSUME ChatInv, [Next]_vars PROVE ChatInv'
  OBVIOUS
<1>0. TypeOK'
  BY ChatTypeStep DEF ChatInv
<1> USE ChatNoneAssumption, ChatBoundsAssumption, <1>0
    DEF ChatInv, TypeOK, FlagsSomebody, StoppedOrBeating, HolderReleases,
        SlotsOfAdmitted, AttemptIsFresh, SupersededLeft, GivenBack, RunningHasCause, At,
        NoFault, Fault, Harm, Early, Looping, BeforeEnd, Working, Executing, NoRequest, sendVars, workVars, reqVars
<1>1. ASSUME NEW t \in Task, CheckCap(t) PROVE ChatInv'
  BY <1>1 DEF CheckCap
<1>2. ASSUME NEW t \in Task, Refuse(t) PROVE ChatInv'
  BY <1>2 DEF Refuse
<1>3. ASSUME NEW t \in Task, Reserve(t) PROVE ChatInv'
  BY <1>3 DEF Reserve
<1>4. ASSUME NEW t \in Task, AgeOut(t) PROVE ChatInv'
  BY <1>4 DEF AgeOut
<1>5. ASSUME NEW t \in Task, AcquireLock(t) PROVE ChatInv'
  BY <1>5 DEF AcquireLock, Begin, Free
<1>6. ASSUME NEW t \in Task, NotAcquired(t) PROVE ChatInv'
  BY <1>6 DEF NotAcquired, Begin, Free
<1>7. ASSUME NEW t \in Task, LoadChat(t) PROVE ChatInv'
  BY <1>7 DEF LoadChat
<1>8. ASSUME NEW t \in Task, Prepare(t) PROVE ChatInv'
  BY <1>8 DEF Prepare, ShownFor
<1>9. ASSUME NEW t \in Task, EnterLoop(t) PROVE ChatInv'
  BY <1>9 DEF EnterLoop
<1>10. ASSUME NEW t \in Task, NoAgent(t) PROVE ChatInv'
  BY <1>10 DEF NoAgent
<1>11. ASSUME NEW t \in Task, PrepareFails(t) PROVE ChatInv'
  BY <1>11 DEF PrepareFails, ResetStatus, ShownFor
<1>12. ASSUME NEW t \in Task, AgentEnds(t) PROVE ChatInv'
  BY <1>12 DEF AgentEnds
<1>13. ASSUME NEW t \in Task, SeesCancelled(t) PROVE ChatInv'
  BY <1>13 DEF SeesCancelled
<1>14. ASSUME NEW t \in Task, ReadsHolder(t) PROVE ChatInv'
  BY <1>14 DEF ReadsHolder, LeftBy
<1>15. ASSUME NEW t \in Task, Interrupt(t) PROVE ChatInv'
  BY <1>15 DEF Interrupt, LeftBy
<1>16. ASSUME NEW t \in Task, Finalize(t) PROVE ChatInv'
  BY <1>16 DEF Finalize, FinalStatus, ResetStatus, ShownFor, Lasting
<1>17. ASSUME NEW t \in Task, ReleaseLock(t) PROVE ChatInv'
  BY <1>17 DEF ReleaseLock, Released
<1>18. ASSUME NEW t \in Task, ReleaseSlot(t) PROVE ChatInv'
  BY <1>18 DEF ReleaseSlot, Forgets
<1>19. ASSUME NEW t \in Task, CleanupInterrupted(t) PROVE ChatInv'
  BY <1>19 DEF CleanupInterrupted, Released, Forgets
<1>20. ASSUME NEW t \in Task, Crash(t) PROVE ChatInv'
  BY <1>20 DEF Crash, Forgets
<1>21. ASSUME NEW t \in Task, Extend(t) PROVE ChatInv'
  BY <1>21 DEF Extend
<1>22. ASSUME NEW t \in Task, SignalLost(t) PROVE ChatInv'
  BY <1>22 DEF SignalLost, Signalled
<1>23. ASSUME NEW t \in Task, Cancel(t) PROVE ChatInv'
  BY <1>23 DEF Cancel
<1>24. ASSUME NEW t \in Task, FlagExpires(t) PROVE ChatInv'
  BY <1>24 DEF FlagExpires
<1>25. CASE LockExpires
  BY <1>25 DEF LockExpires
<1>26. CASE HealRead
  BY <1>26 DEF HealRead
<1>27. CASE HealCheck
  BY <1>27 DEF HealCheck
<1>28. CASE ForceCancel
  BY <1>28 DEF ForceCancel
<1>29. CASE ForceRead
  BY <1>29 DEF ForceRead, Deleting
<1>30. CASE ForceFlag
  BY <1>30 DEF ForceFlag, Deleting
<1>31. CASE ForceDelete
  BY <1>31 DEF ForceDelete
<1>32. CASE UNCHANGED vars
  BY <1>32 DEF vars
<1>33. QED
  BY <1>1, <1>2, <1>3, <1>4, <1>5, <1>6, <1>7, <1>8, <1>9, <1>10, <1>11, <1>12,
     <1>13, <1>14, <1>15, <1>16, <1>17, <1>18, <1>19, <1>20, <1>21, <1>22, <1>23,
     <1>24, <1>25, <1>26, <1>27, <1>28, <1>29, <1>30, <1>31, <1>32
     DEF Next, Send, Heartbeat, CancelSeen

\* The inductive invariant holds in every reachable state.
THEOREM ChatInvariant == Spec => []ChatInv
<1>1. QED
  BY ChatInit, ChatStep, PTL DEF Spec

\* A task that works without its chat's lock is flagged, or its heartbeat is
\* there to find out (_heartbeat_lock, is_cancelled).
THEOREM LosersAreWatched == Spec => []Watched
<1>1. ChatInv => Watched
  BY DEF ChatInv, StoppedOrBeating, Watched
<1>2. QED
  BY <1>1, ChatInvariant, PTL

\* However a task ends, and whatever was retried before, lock and slot are given
\* back unless a fault of its own kept them (execute_agent_task, the outer
\* finally).
THEOREM LockAndSlotGivenBack == Spec => []GivenBack
<1>1. ChatInv => GivenBack
  BY DEF ChatInv
<1>2. QED
  BY <1>1, ChatInvariant, PTL

\* The chat shows running only while the last task that entered with it is still
\* to write the final status, or because that task left it so: to a new holder of
\* its lock, a cancellation outside the loop's try or a fault (execute_agent_task).
THEOREM RunningIsAccountedFor == Spec => []RunningHasCause
<1>1. ChatInv => RunningHasCause
  BY DEF ChatInv
<1>2. QED
  BY <1>1, ChatInvariant, PTL

\* A task that works, was not cancelled and has its heartbeat loses the lock to
\* its own release, a request that clears it or a stall, never to another task
\* (_ACQUIRE_OR_TAKEOVER_SCRIPT, _RELEASE_LOCK_SCRIPT).
THEOREM LiveLockIsKept == Spec => LockKept
<1> DEFINE Loses(t) == lock = t /\ pc[t] \in Working /\ t \notin flag /\ hb[t] = "on"
                          /\ lock' # t
           Excused(t) == pc[t] = "ending" \/ req.at = "delete" \/ faults' > faults
<1>1. ASSUME TypeOK, [Next]_vars, NEW t \in Task, Loses(t) PROVE Excused(t)
  <2> USE ChatNoneAssumption, ChatBoundsAssumption DEF TypeOK
  <2>1. ASSUME NEW u \in Task, AcquireLock(u) \/ NotAcquired(u) PROVE Excused(t)
    BY <1>1, <2>1 DEF AcquireLock, NotAcquired, Free
  <2>2. ASSUME NEW u \in Task, ReleaseLock(u) \/ CleanupInterrupted(u) PROVE Excused(t)
    BY <1>1, <2>2 DEF ReleaseLock, CleanupInterrupted, Released, At
  <2>3. CASE LockExpires
    BY <1>1, <2>3 DEF LockExpires, Fault
  <2>4. CASE ForceDelete
    BY <2>4 DEF ForceDelete
  <2>5. ASSUME NEW u \in Task,
               \/ Send(u) \/ AgeOut(u) \/ NoAgent(u) \/ LoadChat(u) \/ Prepare(u)
               \/ PrepareFails(u) \/ EnterLoop(u) \/ AgentEnds(u) \/ CancelSeen(u) \/ Interrupt(u) \/ Finalize(u)
               \/ ReleaseSlot(u) \/ Crash(u) \/ Heartbeat(u) \/ Cancel(u)
               \/ FlagExpires(u)
        PROVE  UNCHANGED lock
    BY <2>5 DEF Send, CheckCap, Refuse, Reserve, AgeOut, NoAgent, LoadChat, Prepare,
       PrepareFails, EnterLoop, AgentEnds, CancelSeen, SeesCancelled, ReadsHolder, Interrupt, Finalize, ReleaseSlot,
       Crash, Heartbeat, Extend, SignalLost, Cancel, FlagExpires, sendVars
  <2>6. CASE HealRead \/ HealCheck \/ ForceCancel \/ ForceRead \/ ForceFlag
    BY <1>1, <2>6 DEF HealRead, HealCheck, ForceCancel, ForceRead, ForceFlag
  <2>7. CASE UNCHANGED vars
    BY <1>1, <2>7 DEF vars
  <2>8. QED
    BY <1>1, <2>1, <2>2, <2>3, <2>4, <2>5, <2>6, <2>7 DEF Next
<1>2. TypeOK /\ [Next]_vars => [\A t \in Task : Loses(t) => Excused(t)]_vars
  BY <1>1
<1>3. ChatInv => TypeOK
  BY DEF ChatInv
<1>4. QED
  BY <1>2, <1>3, ChatInvariant, PTL DEF Spec, LockKept
=============================================================================
