---------------------------- MODULE RunAdmission ----------------------------
(***************************************************************************)
(* What a dispatch takes from the shared Redis counters and what it gives  *)
(* back: the daily budget of its automation and of the parent automation   *)
(* (budget.py) and, when a pause cannot be checkpointed, one slot of the   *)
(* approval-pressure pool (approval_pressure.py, dispatcher.py).           *)
(*                                                                         *)
(* Every Redis command is a step: other dispatches, the end of the day, a  *)
(* Redis error or a dying worker come between any two.                     *)
(***************************************************************************)
EXTENDS Integers, Sequences, FiniteSets

CONSTANTS Dispatches,    \* calls of dispatch_automation
          Automations,   \* automation_definitions rows
          None,          \* NULL
          Parent,        \* parent_automation_id
          DayCap,        \* max_spend_per_day_usd, None for no cap
          RunCost,       \* contract.max_spend_per_run_usd
          PressureCap,   \* compute_cap(...)
          MaxFaults      \* bound on Redis errors and worker deaths

ASSUME AdmissionAssumption ==
  /\ IsFiniteSet(Dispatches)
  /\ None \notin Automations
  \* ck_automation_definitions_depth_range: a parent has no parent.
  /\ Parent \in [Automations -> Automations \cup {None}]
  /\ \A a \in Automations :
       Parent[a] # None => Parent[a] # a /\ Parent[Parent[a]] = None
  /\ DayCap \in [Automations -> Nat \cup {None}]
  /\ None \notin Nat
  /\ RunCost \in Nat \ {0}
  /\ PressureCap \in Nat \ {0}
  /\ MaxFaults \in Nat

VARIABLES
  counter,   \* tesslate:budget:daily:{automation}, or Absent
  ttl,       \* whether that key has an expiry
  disp,      \* each dispatch: where it is, its automation, loop index, debited
  slots,     \* tesslate:approvals:inflight:pool
  faults,
  \* observation only
  slotless,  \* some token was issued without an INCR
  held,      \* the counters that carry a dispatch's debit
  carried,   \* the counter was credited with a debit it never carried
  token      \* dispatches whose INCR of the pool has not been undone

budgetVars == <<counter, ttl, held, carried>>
slotVars   == <<slots, slotless, token>>
vars       == <<counter, ttl, disp, slots, slotless, faults, held, carried, token>>

Absent == -1

Capped == {a \in Automations : DayCap[a] # None}

\* The automation and its parent, in the order in which they are debited.
WalkParentChain(a) == IF Parent[a] = None THEN <<a>> ELSE <<a, Parent[a]>>

Holders(a) == {d \in Dispatches : a \in held[d]}

Ended   == {"refused", "failed", "crashed", "deferred", "done"}
Places  == {"idle", "init", "reserve", "exists", "incr", "mint", "running",
            "acquire", "holding", "reset"} \cup Ended
Waiting == Places \ (Ended \cup {"idle"})

Init ==
  /\ counter  = [a \in Automations |-> Absent]
  /\ ttl      = [a \in Automations |-> FALSE]
  /\ disp     = [d \in Dispatches |-> [pc |-> "idle", automation |-> None, i |-> 0, n |-> 0]]
  /\ slots    = 0
  /\ slotless = FALSE
  /\ faults   = 0
  /\ held     = [d \in Dispatches |-> {}]
  /\ carried  = [a \in Automations |-> FALSE]
  /\ token    = {}

At(d, pc)      == disp[d].pc = pc
Chain(d)       == WalkParentChain(disp[d].automation)
Member(d)      == Chain(d)[disp[d].i]
Goto(d, pc, i) == disp' = [disp EXCEPT ![d].pc = pc, ![d].i = i]

-----------------------------------------------------------------------------
(* allocate_run_budget *)

\* Phase B.5 is reached with a contract that caps the run's spend.
Dispatch(d, a) ==
  /\ At(d, "idle")
  /\ disp' = [disp EXCEPT ![d] = [pc |-> "init", automation |-> a, i |-> 1, n |-> 0]]
  /\ UNCHANGED <<budgetVars, slotVars, faults>>

\* The next place of the init loop after member i.
AfterInit(d) == IF disp[d].i = Len(Chain(d)) THEN Goto(d, "reserve", 1)
                ELSE Goto(d, "init", disp[d].i + 1)

\* Mistake: SET without NX.
InitializeDailyAlways(d) ==
  LET a == Member(d) IN
  /\ At(d, "init")
  /\ AfterInit(d)
  /\ IF DayCap[a] # None
     THEN /\ counter' = [counter EXCEPT ![a] = DayCap[a]]
          /\ ttl'     = [ttl EXCEPT ![a] = TRUE]
          /\ carried' = [carried EXCEPT ![a] = FALSE]
     ELSE UNCHANGED <<counter, ttl, carried>>
  /\ UNCHANGED <<held, slotVars, faults>>

\* SET key cap NX EX end-of-day, for a member that has a cap.
SetDaily(a) ==
  /\ IF DayCap[a] # None /\ counter[a] = Absent
     THEN /\ counter' = [counter EXCEPT ![a] = DayCap[a]]
          /\ ttl'     = [ttl EXCEPT ![a] = TRUE]
          /\ carried' = [carried EXCEPT ![a] = FALSE]
     ELSE UNCHANGED <<counter, ttl, carried>>
  /\ UNCHANGED held

InitializeDailyIfAbsent(d) ==
  /\ At(d, "init")
  /\ AfterInit(d)
  /\ SetDaily(Member(d))
  /\ UNCHANGED <<slotVars, faults>>

\* The debit loop goes on to the next member, or to the mint.
AfterReserve(d) ==
  disp' = [disp EXCEPT ![d].n = disp[d].i,
                       ![d].i = disp[d].i + 1,
                       ![d].pc = IF disp[d].i = Len(Chain(d)) THEN "mint" ELSE "reserve"]

\* The script debits the counter.
Debit(d) ==
  LET a == Member(d) IN
  /\ counter' = [counter EXCEPT ![a] = @ - RunCost]
  /\ held'    = [held EXCEPT ![d] = @ \cup {a}]
  /\ UNCHANGED <<ttl, carried>>

\* Mistake: the script does not compare.
ReserveDailyUnchecked(d) ==
  /\ At(d, "reserve")
  /\ counter[Member(d)] # Absent
  /\ Debit(d)
  /\ AfterReserve(d)
  /\ UNCHANGED <<slotVars, faults>>

\* _LUA_RESERVE_DAILY: DECRBY, unless it would go below zero.
AtomicReserveDaily(d) ==
  /\ At(d, "reserve")
  /\ counter[Member(d)] # Absent
  /\ counter[Member(d)] - RunCost >= 0
  /\ Debit(d)
  /\ AfterReserve(d)
  /\ UNCHANGED <<slotVars, faults>>

\* The script finds no key: "no daily cap configured". The member counts as
\* debited all the same.
ReserveUncapped(d) ==
  /\ At(d, "reserve")
  /\ counter[Member(d)] = Absent
  /\ AfterReserve(d)
  /\ UNCHANGED <<budgetVars, slotVars, faults>>

\* Where the refund loop over the n debited members continues at index i.
Refunding(d, n, i) ==
  disp' = [disp EXCEPT ![d].n = n, ![d].i = i,
                       ![d].pc = IF i > n THEN "refused" ELSE "exists"]

\* Mistake: nothing is refunded.
ReserveRefusedKeepsDebits(d) ==
  /\ At(d, "reserve")
  /\ counter[Member(d)] # Absent
  /\ counter[Member(d)] - RunCost < 0
  /\ Goto(d, "refused", 0)
  /\ UNCHANGED <<budgetVars, slotVars, faults>>

\* DailyBudgetExceeded: refund what was debited, then fail the preflight.
ReserveRefused(d) ==
  /\ At(d, "reserve")
  /\ counter[Member(d)] # Absent
  /\ counter[Member(d)] - RunCost < 0
  /\ Refunding(d, disp[d].n, 1)
  /\ UNCHANGED <<budgetVars, slotVars, faults>>

\* create_scoped_key and the ledger row.
Mint(d) ==
  /\ At(d, "mint")
  /\ Goto(d, "running", 0)
  /\ UNCHANGED <<budgetVars, slotVars, faults>>

\* The proxy or the insert fails: refund every member.
MintFails(d) ==
  /\ At(d, "mint")
  /\ Refunding(d, disp[d].n, 1)
  /\ UNCHANGED <<budgetVars, slotVars, faults>>

\* _refund_daily, first command: EXISTS.
RefundExists(d) ==
  /\ At(d, "exists")
  /\ IF counter[Member(d)] = Absent THEN Refunding(d, disp[d].n, disp[d].i + 1)
     ELSE Goto(d, "incr", disp[d].i)
  /\ UNCHANGED <<budgetVars, slotVars, faults>>

\* _refund_daily, second command: INCRBY, which makes a key without expiry if
\* the counter is gone by now.
Credit(d) ==
  LET a == Member(d) IN
  /\ counter' = [counter EXCEPT ![a] = RunCost + (IF @ = Absent THEN 0 ELSE @)]
  /\ held'    = [held EXCEPT ![d] = @ \ {a}]
  /\ carried' = [carried EXCEPT ![a] = @ \/ a \notin held[d]]
  /\ UNCHANGED ttl

RefundIncrBy(d) ==
  /\ At(d, "incr")
  /\ Credit(d)
  /\ Refunding(d, disp[d].n, disp[d].i + 1)
  /\ UNCHANGED <<slotVars, faults>>

\* A Redis error is no DailyBudgetExceeded: it leaves allocate_run_budget
\* without a refund and fails the preflight. The command it hit may have run.
BudgetRedisError(d) ==
  /\ faults < MaxFaults
  /\ faults' = faults + 1
  /\ disp[d].pc \in {"init", "reserve", "exists", "incr"}
  /\ Goto(d, "failed", 0)
  /\ \/ UNCHANGED budgetVars
     \/ At(d, "init") /\ SetDaily(Member(d))
     \/ At(d, "reserve") /\ counter[Member(d)] - RunCost >= 0 /\ Debit(d)
     \/ At(d, "incr") /\ Credit(d)
  /\ UNCHANGED slotVars

\* Midnight UTC: the key expires, with every debit it carried.
Expire(a) ==
  /\ counter[a] # Absent
  /\ ttl[a]
  /\ counter' = [counter EXCEPT ![a] = Absent]
  /\ ttl'     = [ttl EXCEPT ![a] = FALSE]
  /\ held'    = [d \in Dispatches |-> held[d] \ {a}]
  /\ carried' = [carried EXCEPT ![a] = FALSE]
  /\ UNCHANGED <<disp, slotVars, faults>>

-----------------------------------------------------------------------------
(* The action, and the pressure fallback of a pause without a checkpoint *)

\* The action ends or pauses with a checkpoint. Nothing calls
\* deallocate_run_budget: the debits stay until the day ends.
Finish(d) ==
  /\ At(d, "running")
  /\ Goto(d, "done", 0)
  /\ UNCHANGED <<budgetVars, slotVars, faults>>

\* _checkpoint_and_pause raises: _handle_checkpoint_pressure_fallback.
CheckpointFails(d) ==
  /\ At(d, "running")
  /\ Goto(d, "acquire", 0)
  /\ UNCHANGED <<budgetVars, slotVars, faults>>

\* Mistake: the script compares with <=.
TryAcquireSlotOffByOne(d) ==
  /\ At(d, "acquire")
  /\ slots <= PressureCap
  /\ slots' = slots + 1
  /\ token' = token \cup {d}
  /\ Goto(d, "holding", 0)
  /\ UNCHANGED <<budgetVars, slotless, faults>>

\* LUA_TRY_INCR.
TryAcquireSlot(d) ==
  /\ At(d, "acquire")
  /\ slots < PressureCap
  /\ slots' = slots + 1
  /\ token' = token \cup {d}
  /\ Goto(d, "holding", 0)
  /\ UNCHANGED <<budgetVars, slotless, faults>>

\* The cap is reached: the run is deferred or, with no attempt left, failed.
CapBreached(d) ==
  /\ At(d, "acquire")
  /\ slots >= PressureCap
  /\ \/ Goto(d, "deferred", 0)
     \/ Goto(d, "done", 0)
  /\ UNCHANGED <<budgetVars, slotVars, faults>>

\* redis.eval raises: the caller proceeds with a token that was never counted.
AcquireRedisError(d) ==
  /\ faults < MaxFaults
  /\ faults' = faults + 1
  /\ At(d, "acquire")
  /\ Goto(d, "holding", 0)
  /\ \/ slotless' = TRUE /\ UNCHANGED <<slots, token>>
     \/ /\ slots < PressureCap
        /\ slots' = slots + 1
        /\ token' = token \cup {d}
        /\ UNCHANGED slotless
  /\ UNCHANGED budgetVars

\* _finalize_failure, then DECR. Below zero the counter is set to 0 next.
ReleaseSlot(d) ==
  /\ At(d, "holding")
  /\ slots' = slots - 1
  /\ token' = token \ {d}
  /\ Goto(d, IF slots - 1 < 0 THEN "reset" ELSE "done", 0)
  /\ UNCHANGED <<budgetVars, slotless, faults>>

\* redis.decr raises: logged, the slot stays taken.
ReleaseRedisError(d) ==
  /\ faults < MaxFaults
  /\ faults' = faults + 1
  /\ At(d, "holding")
  /\ Goto(d, "done", 0)
  /\ \/ UNCHANGED <<slots, token>>
     \/ slots' = slots - 1 /\ token' = token \ {d}
  /\ UNCHANGED <<budgetVars, slotless>>

\* The warning branch of the release: SET pool 0.
ResetSlots(d) ==
  /\ At(d, "reset")
  /\ slots' = 0
  /\ Goto(d, "done", 0)
  /\ UNCHANGED <<budgetVars, slotless, token, faults>>

\* The worker dies; whatever it holds in Redis stays there.
Crash(d) ==
  /\ faults < MaxFaults
  /\ faults' = faults + 1
  /\ disp[d].pc \in Waiting
  /\ Goto(d, "crashed", 0)
  /\ UNCHANGED <<budgetVars, slotVars>>

BudgetStep(d) ==
  \/ \E a \in Automations : Dispatch(d, a)
  \/ InitializeDailyIfAbsent(d)
  \/ AtomicReserveDaily(d)
  \/ ReserveUncapped(d)
  \/ ReserveRefused(d)
  \/ Mint(d)
  \/ MintFails(d)
  \/ RefundExists(d)
  \/ RefundIncrBy(d)
  \/ BudgetRedisError(d)

PressureStep(d) ==
  \/ Finish(d)
  \/ CheckpointFails(d)
  \/ TryAcquireSlot(d)
  \/ CapBreached(d)
  \/ AcquireRedisError(d)
  \/ ReleaseSlot(d)
  \/ ReleaseRedisError(d)
  \/ ResetSlots(d)
  \/ Crash(d)

Next ==
  \/ \E d \in Dispatches : BudgetStep(d) \/ PressureStep(d)
  \/ \E a \in Automations : Expire(a)

Spec == Init /\ [][Next]_vars

-----------------------------------------------------------------------------
(* Properties *)

DispatchType == [pc : Places, automation : Automations \cup {None}, i : 0..3, n : 0..2]

\* Every variable has its type; a day's counter is never below zero, which is
\* the floor of _LUA_RESERVE_DAILY.
TypeOK ==
  /\ counter  \in [Automations -> Nat \cup {Absent}]
  /\ ttl      \in [Automations -> BOOLEAN]
  /\ disp     \in [Dispatches -> DispatchType]
  /\ slots    \in Int
  /\ slotless \in BOOLEAN
  /\ faults   \in 0..MaxFaults
  /\ held     \in [Dispatches -> SUBSET Automations]
  /\ carried  \in [Automations -> BOOLEAN]
  /\ token    \in SUBSET Dispatches

\* The day's cap is not oversold and nothing of it disappears: what a capped
\* automation's counter has left and what the dispatches have debited from it
\* make up the cap, whatever interleaving of reservations, roll-backs, errors
\* and deaths led here, unless a roll-back of the day before was credited to it
\* (allocate_run_budget, _refund_daily).
CapAccounted ==
  \A a \in Capped :
    counter[a] # Absent /\ ~carried[a]
      => counter[a] + RunCost * Cardinality(Holders(a)) = DayCap[a]

\* An allocation that was refused, by the cap of the automation, by that of its
\* parent or by a failed mint, leaves no debit on any counter
\* (the roll-back loops of allocate_run_budget).
RefusedHoldsNothing ==
  \A d \in Dispatches : At(d, "refused") => held[d] = {}

\* The pool never hands out more slots than its cap, and every slot taken is
\* one of a dispatch that took it and has not given it back, as long as no
\* Redis error made up a token (try_acquire_pressure_slot,
\* release_pressure_slot).
SlotsAccounted ==
  ~slotless => /\ slots = Cardinality(token)
               /\ slots <= PressureCap

\* "TTL = end of day UTC so the counter naturally rolls over without needing a
\* cron sweep" (budget.py): every counter will expire.
CountersRollOver ==
  \A a \in Automations : counter[a] # Absent => ttl[a]

-----------------------------------------------------------------------------
(* The inductive invariant behind them *)

\* The loops of allocate_run_budget stay within the chain: n members are debited
\* when the debit loop is at member n + 1, all of them at the mint, and the
\* refund loop is at one of them.
LoopIndex ==
  \A d \in Dispatches :
    /\ ~At(d, "idle") => disp[d].automation \in Automations
    /\ At(d, "init") => disp[d].i \in 1..Len(Chain(d)) /\ disp[d].n = 0
    /\ At(d, "reserve") => disp[d].i \in 1..Len(Chain(d)) /\ disp[d].n = disp[d].i - 1
    /\ At(d, "mint") => disp[d].n = Len(Chain(d))
    /\ At(d, "exists") \/ At(d, "incr") => disp[d].i \in 1..disp[d].n
                                          /\ disp[d].n <= Len(Chain(d))

\* A dispatch holds debits of the members its debit loop has passed and its
\* refund loop has not.
DebitsInLoop ==
  \A d \in Dispatches :
    /\ disp[d].pc \in {"idle", "init"} => held[d] = {}
    /\ disp[d].pc \in {"reserve", "mint"} =>
         \A a \in held[d] : \E k \in 1..disp[d].n : a = Chain(d)[k]
    /\ disp[d].pc \in {"exists", "incr"} =>
         \A a \in held[d] : \E k \in disp[d].i..disp[d].n : a = Chain(d)[k]

\* A counter that is gone carries no debit.
AbsentHoldsNothing ==
  \A a \in Automations : counter[a] = Absent => Holders(a) = {}

\* A dispatch takes its slot once, holds it until it gives it back, and drives
\* the pool below zero only with a token that was made up.
TokensHeld ==
  \A d \in Dispatches :
    /\ disp[d].pc \in (Waiting \ {"holding", "reset"}) \cup {"idle"} => d \notin token
    /\ ~slotless => /\ At(d, "holding") => d \in token
                    /\ ~At(d, "reset")

AdmissionInv ==
  /\ TypeOK
  /\ LoopIndex /\ DebitsInLoop /\ RefusedHoldsNothing
  /\ AbsentHoldsNothing /\ CapAccounted
  /\ TokensHeld /\ SlotsAccounted
=============================================================================
