------------------------- MODULE RunAdmissionProofs -------------------------
(***************************************************************************)
(* For any finite set of dispatches, any automations with caps and any     *)
(* number of Redis errors and worker deaths: no cap is oversold, a refused *)
(* allocation holds nothing, and the pressure pool is accounted for.       *)
(***************************************************************************)
EXTENDS RunAdmission, FiniteSetTheorems, TLAPS

-----------------------------------------------------------------------------
(* The operators *)

\* An automation's chain is the automation itself and, if it has one, its parent,
\* which is another automation.
LEMMA ChainFacts ==
  ASSUME NEW a \in Automations
  PROVE  /\ Len(WalkParentChain(a)) \in {1, 2}
         /\ WalkParentChain(a)[1] = a
         /\ Len(WalkParentChain(a)) = 2 =>
              /\ WalkParentChain(a)[2] \in Automations
              /\ WalkParentChain(a)[2] # a
<1>1. CASE Parent[a] = None
  BY <1>1 DEF WalkParentChain
<1>2. CASE Parent[a] # None
  BY <1>2, AdmissionAssumption DEF WalkParentChain
<1>3. QED
  BY <1>1, <1>2

\* A member reached by the loops is an automation, and no member comes twice.
LEMMA MemberFacts ==
  ASSUME NEW a \in Automations, NEW i \in 1..Len(WalkParentChain(a))
  PROVE  /\ WalkParentChain(a)[i] \in Automations
         /\ \A k \in 1..Len(WalkParentChain(a)) :
              WalkParentChain(a)[k] = WalkParentChain(a)[i] => k = i
<1> DEFINE L == Len(WalkParentChain(a))
<1>1. L \in {1, 2}
  BY ChainFacts
<1>2. \A k \in 1..L : k = 1 \/ (k = 2 /\ L = 2)
  <2>1. CASE L = 1
    <3>1. \A k \in 1..1 : k = 1
      OBVIOUS
    <3>2. QED
      BY <2>1, <3>1
  <2>2. CASE L = 2
    <3>1. \A k \in 1..2 : k = 1 \/ k = 2
      OBVIOUS
    <3>2. QED
      BY <2>2, <3>1
  <2>3. QED
    BY <1>1, <2>1, <2>2
<1>3. QED
  BY <1>2, ChainFacts

\* The debits of one counter are finitely many.
LEMMA HoldersFinite ==
  ASSUME NEW a
  PROVE  IsFiniteSet(Holders(a)) /\ Cardinality(Holders(a)) \in Nat
<1>1. IsFiniteSet(Dispatches) /\ Holders(a) \subseteq Dispatches
  BY AdmissionAssumption DEF Holders
<1>2. IsFiniteSet(Holders(a))
  BY <1>1, FS_Subset
<1>3. QED
  BY <1>2, FS_CardinalityType

\* The pool's tokens likewise.
LEMMA TokensFinite ==
  TypeOK => IsFiniteSet(token) /\ Cardinality(token) \in Nat
<1> SUFFICES ASSUME TypeOK PROVE IsFiniteSet(token) /\ Cardinality(token) \in Nat
  OBVIOUS
<1>1. IsFiniteSet(Dispatches) /\ token \subseteq Dispatches
  BY AdmissionAssumption DEF TypeOK
<1>2. IsFiniteSet(token)
  BY <1>1, FS_Subset
<1>3. QED
  BY <1>2, FS_CardinalityType

\* One debit more costs one RunCost more.
LEMMA OneMore == \A r, c \in Nat : r * (c + 1) = r * c + r
OBVIOUS

-----------------------------------------------------------------------------
(* The day's counters: one lemma for each way in which they change *)

CounterType ==
  /\ counter \in [Automations -> Nat \cup {Absent}]
  /\ ttl     \in [Automations -> BOOLEAN]
  /\ held    \in [Dispatches -> SUBSET Automations]
  /\ carried \in [Automations -> BOOLEAN]

\* The part of the invariant that speaks of the counters alone.
Ledger == CounterType /\ AbsentHoldsNothing /\ CapAccounted

\* SET NX: a counter that was gone carried no debit, so the whole cap is left.
LEMMA LedgerSetDaily ==
  ASSUME Ledger, NEW a \in Automations, SetDaily(a)
  PROVE  Ledger'
<1>0. \A b : Holders(b)' = Holders(b)
  BY DEF SetDaily, Holders
<1>1. CASE DayCap[a] # None /\ counter[a] = Absent
  <2>1. /\ counter' = [counter EXCEPT ![a] = DayCap[a]]
        /\ ttl' = [ttl EXCEPT ![a] = TRUE]
        /\ carried' = [carried EXCEPT ![a] = FALSE]
        /\ held' = held
    BY <1>1 DEF SetDaily
  <2>2. DayCap[a] \in Nat /\ DayCap[a] # Absent
    BY <1>1, AdmissionAssumption DEF Absent
  <2>3. CounterType'
    BY <2>1, <2>2 DEF Ledger, CounterType
  <2>4. AbsentHoldsNothing'
    BY <2>1, <2>2, <1>0 DEF Ledger, CounterType, AbsentHoldsNothing
  <2>5. Holders(a) = {} /\ Cardinality({}) = 0
    BY <1>1, FS_EmptySet DEF Ledger, AbsentHoldsNothing
  <2>6. RunCost * 0 = 0
    BY AdmissionAssumption
  <2>7. CapAccounted'
    <3> SUFFICES ASSUME NEW b \in Capped, counter'[b] # Absent, ~carried'[b]
                 PROVE  counter'[b] + RunCost * Cardinality(Holders(b)) = DayCap[b]
      BY <1>0 DEF CapAccounted
    <3>1. CASE b = a
      BY <3>1, <2>1, <2>2, <2>5, <2>6 DEF Ledger, CounterType
    <3>2. CASE b # a
      BY <3>2, <2>1 DEF Ledger, CounterType, CapAccounted, Capped
    <3>3. QED
      BY <3>1, <3>2
  <2>8. QED
    BY <2>3, <2>4, <2>7 DEF Ledger
<1>2. CASE ~(DayCap[a] # None /\ counter[a] = Absent)
  BY <1>0, <1>2 DEF SetDaily, Ledger, CounterType, AbsentHoldsNothing, CapAccounted
<1>3. QED
  BY <1>1, <1>2

\* A debit takes RunCost from what is left and adds a holder.
LEMMA LedgerDebit ==
  ASSUME Ledger, NEW d \in Dispatches,
         Member(d) \in Automations, Member(d) \notin held[d],
         counter[Member(d)] - RunCost >= 0, Debit(d)
  PROVE  Ledger'
<1>0. PICK a \in Automations : a = Member(d)
  OBVIOUS
<1>1. /\ counter' = [counter EXCEPT ![a] = counter[a] - RunCost]
      /\ held' = [held EXCEPT ![d] = held[d] \cup {a}]
      /\ ttl' = ttl /\ carried' = carried
      /\ a \notin held[d]
      /\ counter[a] - RunCost >= 0
  BY <1>0 DEF Debit
<1>2. counter[a] \in Nat /\ counter[a] # Absent /\ counter[a] - RunCost \in Nat
  BY <1>1, AdmissionAssumption DEF Ledger, CounterType, Absent
<1>3. CounterType'
  BY <1>1, <1>2 DEF Ledger, CounterType
<1>4. /\ Holders(a)' = Holders(a) \cup {d} /\ d \notin Holders(a)
      /\ \A b : b # a => Holders(b)' = Holders(b)
  BY <1>1 DEF Holders, Ledger, CounterType
<1>5. AbsentHoldsNothing'
  BY <1>1, <1>2, <1>4 DEF Ledger, CounterType, AbsentHoldsNothing, Absent
<1>6. Cardinality(Holders(a)') = Cardinality(Holders(a)) + 1
  BY <1>4, HoldersFinite, FS_AddElement
<1>7. CapAccounted'
  <2> SUFFICES ASSUME NEW b \in Capped, counter'[b] # Absent, ~carried'[b]
               PROVE  counter'[b] + RunCost * Cardinality(Holders(b)') = DayCap[b]
    BY DEF CapAccounted
  <2>1. CASE b = a
    <3> DEFINE c == Cardinality(Holders(a))
    <3>1. c \in Nat /\ RunCost \in Nat
      BY HoldersFinite, AdmissionAssumption
    <3>2. RunCost * (c + 1) = RunCost * c + RunCost /\ RunCost * c \in Nat
      BY <3>1, OneMore
    <3>3. counter[a] + RunCost * c = DayCap[a]
      BY <1>1, <1>2, <2>1 DEF Ledger, CapAccounted
    <3>4. counter'[a] = counter[a] - RunCost
      BY <1>1 DEF Ledger, CounterType
    <3>5. RunCost * Cardinality(Holders(b)') = RunCost * c + RunCost
      BY <2>1, <1>6, <3>2
    <3> HIDE DEF c
    <3>6. QED
      BY <1>2, <2>1, <3>1, <3>2, <3>3, <3>4, <3>5
  <2>2. CASE b # a
    BY <2>2, <1>1, <1>4 DEF Ledger, CounterType, CapAccounted, Capped
  <2>3. QED
    BY <2>1, <2>2
<1>8. QED
  BY <1>3, <1>5, <1>7 DEF Ledger

\* A refund gives RunCost back and removes a holder; one that comes when the
\* counter no longer carries the debit is marked as carried over.
LEMMA LedgerCredit ==
  ASSUME Ledger, NEW d \in Dispatches, Member(d) \in Automations, Credit(d)
  PROVE  Ledger'
<1>0. PICK a \in Automations : a = Member(d)
  OBVIOUS
<1>1. /\ counter' = [counter EXCEPT ![a] =
                        RunCost + (IF counter[a] = Absent THEN 0 ELSE counter[a])]
      /\ held' = [held EXCEPT ![d] = held[d] \ {a}]
      /\ carried' = [carried EXCEPT ![a] = carried[a] \/ a \notin held[d]]
      /\ ttl' = ttl
  BY <1>0 DEF Credit
<1>2. counter'[a] \in Nat /\ counter'[a] # Absent
  BY <1>1, AdmissionAssumption DEF Ledger, CounterType, Absent
<1>3. CounterType'
  <2>1. carried' \in [Automations -> BOOLEAN]
    BY <1>1 DEF Ledger, CounterType
  <2>2. counter' \in [Automations -> Nat \cup {Absent}]
    BY <1>1, <1>2 DEF Ledger, CounterType
  <2>3. QED
    BY <1>1, <2>1, <2>2 DEF Ledger, CounterType
<1>4. /\ Holders(a)' = Holders(a) \ {d}
      /\ \A b : b # a => Holders(b)' = Holders(b)
  BY <1>1 DEF Holders, Ledger, CounterType
<1>5. AbsentHoldsNothing'
  BY <1>1, <1>2, <1>4 DEF Ledger, CounterType, AbsentHoldsNothing
<1>7. CapAccounted'
  <2> SUFFICES ASSUME NEW b \in Capped, counter'[b] # Absent, ~carried'[b]
               PROVE  counter'[b] + RunCost * Cardinality(Holders(b)') = DayCap[b]
    BY DEF CapAccounted
  <2>1. CASE b = a
    <3> DEFINE c == Cardinality(Holders(a)')
    <3>1. a \in held[d] /\ ~carried[a]
      BY <1>1, <2>1 DEF Ledger, CounterType
    <3>2. d \in Holders(a)
      BY <3>1 DEF Holders
    <3>3. counter[a] # Absent
      BY <3>2 DEF Ledger, AbsentHoldsNothing
    <3>4. counter[a] \in Nat /\ counter'[a] = RunCost + counter[a]
      BY <1>1, <3>3 DEF Ledger, CounterType
    <3>5. Cardinality(Holders(a)) = c + 1 /\ c \in Nat /\ RunCost \in Nat
      <4>1. IsFiniteSet(Holders(a)) /\ Cardinality(Holders(a)) \in Nat
        BY HoldersFinite
      <4>2. IsFiniteSet(Holders(a) \ {d})
            /\ Cardinality(Holders(a) \ {d}) = Cardinality(Holders(a)) - 1
        BY <4>1, <3>2, FS_RemoveElement
      <4>3. Cardinality(Holders(a) \ {d}) \in Nat
        BY <4>2, FS_CardinalityType
      <4>4. QED
        BY <1>4, <4>1, <4>2, <4>3, AdmissionAssumption
    <3>6. counter[a] + RunCost * Cardinality(Holders(a)) = DayCap[a]
      BY <3>1, <3>3, <2>1 DEF Ledger, CapAccounted
    <3>7. RunCost * Cardinality(Holders(a)) = RunCost * c + RunCost /\ RunCost * c \in Nat
      <4> HIDE DEF c
      <4>1. QED
        BY <3>5, OneMore
    <3> HIDE DEF c
    <3>8. counter'[a] + RunCost * c = DayCap[a]
      BY <3>4, <3>5, <3>6, <3>7
    <3>9. QED
      BY <2>1, <3>8 DEF c
  <2>2. CASE b # a
    BY <2>2, <1>1, <1>4 DEF Ledger, CounterType, CapAccounted, Capped
  <2>3. QED
    BY <2>1, <2>2
<1>8. QED
  BY <1>3, <1>5, <1>7 DEF Ledger

\* The end of the day takes the counter and every debit it carried.
LEMMA LedgerExpire ==
  ASSUME Ledger, NEW a \in Automations, Expire(a)
  PROVE  Ledger'
<1>1. CounterType'
  BY DEF Expire, Ledger, CounterType
<1>2. Holders(a)' = {} /\ \A b : b # a => Holders(b)' = Holders(b)
  BY DEF Expire, Holders, Ledger, CounterType
<1>3. counter'[a] = Absent
      /\ \A b \in Automations \ {a} : counter'[b] = counter[b] /\ carried'[b] = carried[b]
  BY DEF Expire, Ledger, CounterType
<1>4. AbsentHoldsNothing'
  BY <1>2, <1>3 DEF Ledger, AbsentHoldsNothing
<1>5. CapAccounted'
  BY <1>2, <1>3 DEF Ledger, CapAccounted, Capped
<1>6. QED
  BY <1>1, <1>4, <1>5 DEF Ledger

\* Most steps leave the counters alone.
LEMMA LedgerSame ==
  ASSUME Ledger, UNCHANGED budgetVars
  PROVE  Ledger'
BY DEF budgetVars, Ledger, CounterType, AbsentHoldsNothing, CapAccounted, Holders

-----------------------------------------------------------------------------
(* The loops of allocate_run_budget *)

\* What LoopIndex, DebitsInLoop and RefusedHoldsNothing say of one dispatch.
InLoop(d) ==
  /\ ~At(d, "idle") => disp[d].automation \in Automations
  /\ At(d, "init") => disp[d].i \in 1..Len(Chain(d)) /\ disp[d].n = 0
  /\ At(d, "reserve") => disp[d].i \in 1..Len(Chain(d)) /\ disp[d].n = disp[d].i - 1
  /\ At(d, "mint") => disp[d].n = Len(Chain(d))
  /\ At(d, "exists") \/ At(d, "incr") => disp[d].i \in 1..disp[d].n
                                        /\ disp[d].n <= Len(Chain(d))
  /\ disp[d].pc \in {"idle", "init", "refused"} => held[d] = {}
  /\ disp[d].pc \in {"reserve", "mint"} =>
       \A a \in held[d] : \E k \in 1..disp[d].n : a = Chain(d)[k]
  /\ disp[d].pc \in {"exists", "incr"} =>
       \A a \in held[d] : \E k \in disp[d].i..disp[d].n : a = Chain(d)[k]

\* The arithmetic of the loops.
LEMMA Range12 ==
  ASSUME NEW l \in {1, 2}, NEW i \in 1..l
  PROVE  i \in 0..2 /\ i + 1 \in 0..3 /\ (i # l => i + 1 \in 1..l)
<1>1. CASE l = 1
  BY <1>1
<1>2. CASE l = 2
  BY <1>2
<1>3. QED
  BY <1>1, <1>2

LEMMA InLoopDef ==
  LoopIndex /\ DebitsInLoop /\ RefusedHoldsNothing <=> \A d \in Dispatches : InLoop(d)
BY DEF LoopIndex, DebitsInLoop, RefusedHoldsNothing, InLoop, At

\* A dispatch that does not move can only lose debits, to the end of the day.
LEMMA InLoopOther ==
  ASSUME NEW e, InLoop(e), disp'[e] = disp[e], held'[e] \subseteq held[e]
  PROVE  InLoop(e)'
BY DEF InLoop, At, Chain

DispType ==
  disp \in [Dispatches -> DispatchType] /\ held \in [Dispatches -> SUBSET Automations]

\* The chain of a dispatch that has started, and the member its loop is at.
LEMMA MemberOf ==
  ASSUME NEW d \in Dispatches, InLoop(d), DispType, ~At(d, "idle")
  PROVE  /\ Len(Chain(d)) \in {1, 2}
         /\ disp[d].pc \in {"init", "reserve", "exists", "incr"} => Member(d) \in Automations
         /\ At(d, "reserve") => Member(d) \notin held[d]
<1>1. disp[d].automation \in Automations
  BY DEF InLoop
<1>2. Len(Chain(d)) \in {1, 2}
  BY <1>1, ChainFacts DEF Chain
<1>3. disp[d].i \in 0..3 /\ disp[d].n \in 0..2
  BY DEF DispType, DispatchType
<1>4. disp[d].pc \in {"init", "reserve", "exists", "incr"} => disp[d].i \in 1..Len(Chain(d))
  BY <1>2, <1>3 DEF InLoop, At
<1>5. disp[d].pc \in {"init", "reserve", "exists", "incr"} => Member(d) \in Automations
  BY <1>1, <1>4, MemberFacts DEF Member, Chain
<1>6. At(d, "reserve") => Member(d) \notin held[d]
  <2> SUFFICES ASSUME At(d, "reserve"), Member(d) \in held[d] PROVE FALSE
    OBVIOUS
  <2>1. PICK k \in 1..disp[d].n : Member(d) = Chain(d)[k]
    BY DEF InLoop, At
  <2>2. disp[d].i \in 1..Len(Chain(d)) /\ k < disp[d].i /\ k \in 1..Len(Chain(d))
    BY <1>2, <1>3, <2>1 DEF InLoop
  <2>3. k = disp[d].i
    BY <1>1, <2>1, <2>2, MemberFacts DEF Member, Chain
  <2>4. QED
    BY <1>3, <2>2, <2>3
<1>7. QED
  BY <1>2, <1>5, <1>6

\* Dispatch d alone moves, within its type.
Moved(d, pc, i, n) ==
  /\ disp' \in [Dispatches -> DispatchType]
  /\ disp'[d].automation = disp[d].automation
  /\ disp'[d].pc = pc /\ disp'[d].i = i /\ disp'[d].n = n
  /\ \A e \in Dispatches \ {d} : disp'[e] = disp[e]

LEMMA MoveEffect ==
  ASSUME DispType, NEW d \in Dispatches, NEW pc \in Places, NEW i \in 0..3, NEW n \in 0..2,
         disp' = [disp EXCEPT ![d].n = n, ![d].i = i, ![d].pc = pc]
  PROVE  Moved(d, pc, i, n)
BY DEF DispType, DispatchType, Moved

LEMMA GotoEffect ==
  ASSUME DispType, NEW d \in Dispatches, NEW pc \in Places, NEW i \in 0..3, Goto(d, pc, i)
  PROVE  Moved(d, pc, i, disp[d].n)
BY DEF DispType, DispatchType, Moved, Goto

\* Outside the loops a dispatch may hold any debits.
LEMMA InLoopLeft ==
  ASSUME NEW d \in Dispatches, InLoop(d), ~At(d, "idle"), NEW i, NEW n,
         NEW pc \in Places \ {"idle", "init", "reserve", "mint", "exists", "incr", "refused"},
         Moved(d, pc, i, n)
  PROVE  InLoop(d)'
BY DEF InLoop, At, Chain, Moved

\* A budget step keeps its dispatch within the loops: the debit loop adds the
\* member it is at, the refund loop leaves a member only when its debit is gone.
LEMMA LoopBudgetStep ==
  ASSUME DispType, Ledger, NEW d \in Dispatches, InLoop(d), BudgetStep(d)
  PROVE  /\ disp' \in [Dispatches -> DispatchType]
         /\ InLoop(d)'
         /\ \A e \in Dispatches \ {d} : disp'[e] = disp[e] /\ held'[e] = held[e]
<1> DEFINE Others == \A e \in Dispatches \ {d} : disp'[e] = disp[e] /\ held'[e] = held[e]
           Goal == disp' \in [Dispatches -> DispatchType] /\ InLoop(d)' /\ Others
           L == Len(Chain(d))
<1>i. disp[d].i \in 0..3 /\ disp[d].n \in 0..2 /\ disp[d].i \in Int /\ disp[d].n \in Int
  BY DEF DispType, DispatchType
<1>l. ~At(d, "idle") => L \in {1, 2}
  BY MemberOf
<1>1. ASSUME NEW a \in Automations, Dispatch(d, a) PROVE Goal
  <2>1. disp' = [disp EXCEPT ![d] = [pc |-> "init", automation |-> a, i |-> 1, n |-> 0]]
        /\ held' = held /\ At(d, "idle")
    BY <1>1 DEF Dispatch, budgetVars
  <2>2. disp' \in [Dispatches -> DispatchType] /\ Others
    BY <2>1 DEF DispType, DispatchType, Places, Ended
  <2>3. disp'[d] = [pc |-> "init", automation |-> a, i |-> 1, n |-> 0]
    BY <2>1 DEF DispType
  <2>4. 1 \in 1..Len(WalkParentChain(a))
    BY ChainFacts
  <2>5. InLoop(d)'
    BY <2>1, <2>3, <2>4 DEF InLoop, At, Chain
  <2>6. QED
    BY <2>2, <2>5
<1>2. CASE InitializeDailyIfAbsent(d)
  <2>1. At(d, "init") /\ AfterInit(d) /\ held' = held
    BY <1>2 DEF InitializeDailyIfAbsent, SetDaily
  <2>2. disp[d].i \in 1..L /\ held[d] = {} /\ L \in {1, 2}
    BY <2>1, <1>l DEF InLoop, At
  <2>3. CASE disp[d].i = L
    <3>1. Goto(d, "reserve", 1)
      BY <2>1, <2>3 DEF AfterInit
    <3>2. Moved(d, "reserve", 1, disp[d].n)
      BY <3>1, GotoEffect DEF Places
    <3>3. InLoop(d)'
      BY <3>2, <2>1, <2>2 DEF InLoop, At, Chain, Moved
    <3>4. QED
      BY <3>2, <3>3, <2>1 DEF Moved
  <2>4. CASE disp[d].i # L
    <3>1. Goto(d, "init", disp[d].i + 1) /\ disp[d].i + 1 \in 0..3 /\ disp[d].i + 1 \in 1..L
      BY <2>1, <2>2, <2>4, Range12 DEF AfterInit
    <3>2. Moved(d, "init", disp[d].i + 1, disp[d].n)
      BY <3>1, GotoEffect DEF Places
    <3>3. InLoop(d)'
      BY <3>2, <3>1, <2>1, <2>2 DEF InLoop, At, Chain, Moved
    <3>4. QED
      BY <3>2, <3>3, <2>1 DEF Moved
  <2>5. QED
    BY <2>3, <2>4
<1>3. CASE AtomicReserveDaily(d) \/ ReserveUncapped(d)
  <2>1. At(d, "reserve") /\ AfterReserve(d)
    BY <1>3 DEF AtomicReserveDaily, ReserveUncapped
  <2>2. held'[d] \subseteq held[d] \cup {Member(d)}
        /\ \A e \in Dispatches \ {d} : held'[e] = held[e]
    BY <1>3 DEF AtomicReserveDaily, ReserveUncapped, Debit, budgetVars, DispType
  <2>3. disp[d].i \in 1..L /\ disp[d].n = disp[d].i - 1 /\ L \in {1, 2}
        /\ disp[d].automation \in Automations
    BY <2>1, <1>l DEF InLoop, At
  <2>4. disp[d].i \in 0..2 /\ disp[d].i + 1 \in 0..3
    BY <2>3, Range12
  <2>5. Moved(d, IF disp[d].i = L THEN "mint" ELSE "reserve", disp[d].i + 1, disp[d].i)
    BY <2>1, <2>4, MoveEffect DEF AfterReserve, Places
  <2>6. \A a \in held'[d] : \E k \in 1..disp[d].i : a = Chain(d)[k]
    <3> SUFFICES ASSUME NEW a \in held'[d] PROVE \E k \in 1..disp[d].i : a = Chain(d)[k]
      OBVIOUS
    <3>1. CASE a = Member(d)
      <4>1. disp[d].i \in 1..disp[d].i
        BY <2>3, <1>i
      <4>2. QED
        BY <3>1, <4>1 DEF Member
    <3>2. CASE a \in held[d]
      <4>1. PICK k \in 1..disp[d].n : a = Chain(d)[k]
        BY <3>2, <2>1 DEF InLoop, At
      <4>2. k \in 1..disp[d].i
        BY <2>3, <1>i
      <4>3. QED
        BY <4>1, <4>2
    <3>3. QED
      BY <2>2, <3>1, <3>2
  <2>7. InLoop(d)'
    <3>1. Chain(d)' = Chain(d)
      BY <2>5 DEF Moved, Chain
    <3>2. CASE disp[d].i = L
      BY <3>1, <3>2, <2>3, <2>5, <2>6 DEF InLoop, At, Moved
    <3>3. CASE disp[d].i # L
      <4>1. disp[d].i + 1 \in 1..L /\ disp[d].i = (disp[d].i + 1) - 1
        BY <2>3, <3>3, <1>i
      <4>2. QED
        BY <3>1, <3>3, <4>1, <2>3, <2>5, <2>6 DEF InLoop, At, Moved
    <3>4. QED
      BY <3>2, <3>3
  <2>8. QED
    BY <2>2, <2>5, <2>7 DEF Moved
\* Entering the refund loop at its first member.
<1>4. CASE ReserveRefused(d) \/ MintFails(d)
  <2>1. (At(d, "reserve") \/ At(d, "mint")) /\ Refunding(d, disp[d].n, 1) /\ held' = held
    BY <1>4 DEF ReserveRefused, MintFails, budgetVars
  <2>2. disp[d].n <= L /\ L \in {1, 2} /\ disp[d].automation \in Automations
    BY <2>1, <1>l, <1>i DEF InLoop, At
  <2>3. \A a \in held[d] : \E k \in 1..disp[d].n : a = Chain(d)[k]
    BY <2>1 DEF InLoop, At
  <2>4. Moved(d, IF 1 > disp[d].n THEN "refused" ELSE "exists", 1, disp[d].n)
    <3>1. (IF 1 > disp[d].n THEN "refused" ELSE "exists") \in Places /\ 1 \in 0..3
      BY DEF Places, Ended
    <3>2. QED
      BY <2>1, <3>1, <1>i, MoveEffect DEF Refunding
  <2>5. Chain(d)' = Chain(d)
    BY <2>4 DEF Moved, Chain
  <2>6. CASE 1 > disp[d].n
    <3>1. held[d] = {}
      BY <2>3, <2>6, <1>i
    <3>2. QED
      BY <3>1, <2>1, <2>2, <2>4, <2>6 DEF InLoop, At, Moved
  <2>7. CASE ~(1 > disp[d].n)
    <3>1. 1 \in 1..disp[d].n
      BY <2>7, <1>i
    <3>2. QED
      BY <3>1, <2>1, <2>2, <2>3, <2>4, <2>5, <2>7 DEF InLoop, At, Moved
  <2>8. QED
    BY <2>6, <2>7
<1>5. CASE Mint(d)
  <2>1. At(d, "mint") /\ Goto(d, "running", 0) /\ held' = held
    BY <1>5 DEF Mint, budgetVars
  <2>2. Moved(d, "running", 0, disp[d].n)
    BY <2>1, GotoEffect DEF Places
  <2>3. InLoop(d)'
    BY <2>1, <2>2, InLoopLeft DEF At, Places, Ended
  <2>4. QED
    BY <2>1, <2>2, <2>3 DEF Moved
\* The refund loop leaves a member: it was credited, or its counter is gone and
\* no debit with it.
<1>6. ASSUME At(d, "exists") \/ At(d, "incr"),
             Refunding(d, disp[d].n, disp[d].i + 1),
             held'[d] \subseteq held[d] \ {Member(d)},
             \A e \in Dispatches \ {d} : held'[e] = held[e]
      PROVE  Goal
  <2>1. disp[d].i \in 1..disp[d].n /\ disp[d].n <= L /\ L \in {1, 2}
        /\ disp[d].automation \in Automations
    BY <1>6, <1>l DEF InLoop, At
  <2>2. disp[d].i + 1 \in 0..3
    BY <2>1, <1>i
  <2>3. Moved(d, IF disp[d].i + 1 > disp[d].n THEN "refused" ELSE "exists",
              disp[d].i + 1, disp[d].n)
    BY <1>6, <1>i, <2>2, MoveEffect DEF Refunding, Places, Ended
  <2>4. Chain(d)' = Chain(d)
    BY <2>3 DEF Moved, Chain
  <2>5. \A a \in held'[d] : \E k \in (disp[d].i + 1)..disp[d].n : a = Chain(d)[k]
    <3> SUFFICES ASSUME NEW a \in held'[d]
                 PROVE  \E k \in (disp[d].i + 1)..disp[d].n : a = Chain(d)[k]
      OBVIOUS
    <3>1. PICK k \in disp[d].i..disp[d].n : a = Chain(d)[k]
      BY <1>6 DEF InLoop, At
    <3>2. k # disp[d].i
      BY <1>6, <3>1 DEF Member
    <3>3. k \in (disp[d].i + 1)..disp[d].n
      BY <3>1, <3>2, <1>i
    <3>4. QED
      BY <3>1, <3>3
  <2>6. CASE disp[d].i + 1 > disp[d].n
    <3>1. held'[d] = {}
      BY <2>5, <2>6, <1>i
    <3>2. QED
      BY <3>1, <1>6, <2>1, <2>3, <2>6 DEF InLoop, At, Moved
  <2>7. CASE ~(disp[d].i + 1 > disp[d].n)
    <3>1. disp[d].i + 1 \in 1..disp[d].n
      BY <2>1, <2>7, <1>i
    <3>2. QED
      BY <3>1, <1>6, <2>1, <2>3, <2>4, <2>5, <2>7 DEF InLoop, At, Moved
  <2>8. QED
    BY <2>6, <2>7
<1>7. CASE RefundExists(d)
  <2>1. At(d, "exists") /\ held' = held
    BY <1>7 DEF RefundExists, budgetVars
  <2>2. CASE counter[Member(d)] = Absent
    <3>1. Member(d) \in Automations
      BY <2>1, MemberOf DEF At
    <3>2. Member(d) \notin held[d]
      BY <2>2, <3>1 DEF Ledger, AbsentHoldsNothing, Holders
    <3>3. Refunding(d, disp[d].n, disp[d].i + 1)
      BY <1>7, <2>2 DEF RefundExists
    <3>4. QED
      BY <1>6, <2>1, <3>2, <3>3
  <2>3. CASE counter[Member(d)] # Absent
    <3>1. Goto(d, "incr", disp[d].i)
      BY <1>7, <2>3 DEF RefundExists
    <3>2. Moved(d, "incr", disp[d].i, disp[d].n)
      BY <3>1, <1>i, GotoEffect DEF Places
    <3>3. InLoop(d)'
      BY <3>2, <2>1 DEF InLoop, At, Chain, Moved
    <3>4. QED
      BY <3>2, <3>3, <2>1 DEF Moved
  <2>4. QED
    BY <2>2, <2>3
<1>8. CASE RefundIncrBy(d)
  <2>1. At(d, "incr") /\ Refunding(d, disp[d].n, disp[d].i + 1)
        /\ held' = [held EXCEPT ![d] = @ \ {Member(d)}]
    BY <1>8 DEF RefundIncrBy, Credit
  <2>2. QED
    BY <1>6, <2>1 DEF DispType
<1>9. CASE BudgetRedisError(d)
  <2>1. disp[d].pc \in {"init", "reserve", "exists", "incr"} /\ Goto(d, "failed", 0)
        /\ \A e \in Dispatches \ {d} : held'[e] = held[e]
    BY <1>9 DEF BudgetRedisError, budgetVars, SetDaily, Debit, Credit, DispType
  <2>2. Moved(d, "failed", 0, disp[d].n)
    BY <2>1, GotoEffect DEF Places, Ended
  <2>3. InLoop(d)'
    BY <2>1, <2>2, InLoopLeft DEF At, Places, Ended
  <2>4. QED
    BY <2>1, <2>2, <2>3 DEF Moved
<1>10. QED
  BY <1>1, <1>2, <1>3, <1>4, <1>5, <1>7, <1>8, <1>9 DEF BudgetStep

\* A step after the mint does not touch the counters and stays out of the loops.
LEMMA LoopPressureStep ==
  ASSUME DispType, NEW d \in Dispatches, InLoop(d), PressureStep(d)
  PROVE  /\ disp' \in [Dispatches -> DispatchType]
         /\ InLoop(d)'
         /\ \A e \in Dispatches \ {d} : disp'[e] = disp[e]
         /\ UNCHANGED budgetVars
<1>1. /\ UNCHANGED budgetVars /\ ~At(d, "idle")
      /\ \E pc \in Places \ {"idle", "init", "reserve", "mint", "exists", "incr", "refused"} :
           Goto(d, pc, 0)
  BY DEF PressureStep, Finish, CheckpointFails, TryAcquireSlot, CapBreached,
         AcquireRedisError, ReleaseSlot, ReleaseRedisError, ResetSlots, Crash,
         At, Waiting, Places, Ended
<1>2. PICK pc \in Places \ {"idle", "init", "reserve", "mint", "exists", "incr", "refused"} :
        Goto(d, pc, 0)
  BY <1>1
<1>3. Moved(d, pc, 0, disp[d].n)
  BY <1>2, GotoEffect
<1>4. InLoop(d)'
  BY <1>1, <1>3, InLoopLeft
<1>5. QED
  BY <1>1, <1>3, <1>4 DEF Moved

-----------------------------------------------------------------------------
(* The pressure pool *)

\* What TokensHeld says of one dispatch.
TokenOf(d) ==
  /\ disp[d].pc \in (Waiting \ {"holding", "reset"}) \cup {"idle"} => d \notin token
  /\ ~slotless => /\ At(d, "holding") => d \in token
                  /\ ~At(d, "reset")

PoolType == slots \in Int /\ slotless \in BOOLEAN /\ token \in SUBSET Dispatches

\* The part of the invariant that speaks of the pool.
Pool == PoolType /\ (\A d \in Dispatches : TokenOf(d)) /\ SlotsAccounted

\* A dispatch that takes a slot did not have one, and the pool was not full.
LEMMA PoolTake ==
  ASSUME DispType, Pool, NEW d \in Dispatches, At(d, "acquire"), slots < PressureCap,
         slots' = slots + 1, token' = token \cup {d}, slotless' = slotless,
         Moved(d, "holding", 0, disp[d].n)
  PROVE  Pool'
<1>1. PoolType'
  BY DEF Pool, PoolType
<1>2. d \notin token
  BY DEF Pool, TokenOf, At, Waiting, Places, Ended
<1>3. \A e \in Dispatches : TokenOf(e)'
  BY <1>2 DEF Pool, TokenOf, At, Moved, Waiting
<1>4. SlotsAccounted'
  <2>1. IsFiniteSet(token)
    BY AdmissionAssumption, FS_Subset DEF Pool, PoolType
  <2>2. Cardinality(token') = Cardinality(token) + 1
    BY <1>2, <2>1, FS_AddElement
  <2>3. QED
    BY <2>2, AdmissionAssumption DEF Pool, PoolType, SlotsAccounted
<1>5. QED
  BY <1>1, <1>3, <1>4 DEF Pool

\* A dispatch that gives its slot back had one, unless some token was made up;
\* so the pool does not go below zero and is never reset.
LEMMA PoolGive ==
  ASSUME DispType, Pool, NEW d \in Dispatches, At(d, "holding"),
         slots' = slots - 1, token' = token \ {d}, slotless' = slotless,
         NEW pc \in {"done", "reset"}, pc = "reset" => slots - 1 < 0,
         Moved(d, pc, 0, disp[d].n)
  PROVE  Pool'
<1>1. PoolType'
  BY DEF Pool, PoolType
<1>2. ~slotless => /\ d \in token /\ Cardinality(token') = Cardinality(token) - 1
                   /\ Cardinality(token') \in Nat
  <2> SUFFICES ASSUME ~slotless
               PROVE  /\ d \in token /\ Cardinality(token') = Cardinality(token) - 1
                      /\ Cardinality(token') \in Nat
    OBVIOUS
  <2>1. IsFiniteSet(token)
    BY AdmissionAssumption, FS_Subset DEF Pool, PoolType
  <2>2. d \in token
    BY DEF Pool, TokenOf
  <2>3. QED
    BY <2>1, <2>2, FS_RemoveElement, FS_CardinalityType
<1>3. ~slotless => slots - 1 >= 0
  BY <1>2 DEF Pool, PoolType, SlotsAccounted
<1>4. TokenOf(d)'
  BY <1>3 DEF Pool, PoolType, TokenOf, At, Moved, Waiting, Places, Ended
<1>5. \A e \in Dispatches \ {d} : TokenOf(e)'
  BY DEF Pool, TokenOf, At, Moved
<1>6. SlotsAccounted'
  BY <1>2, AdmissionAssumption DEF Pool, PoolType, SlotsAccounted
<1>7. QED
  BY <1>1, <1>4, <1>5, <1>6 DEF Pool

\* A step that leaves the pool alone keeps it accounted for, if its dispatch had
\* no slot or has ended.
LEMMA PoolSame ==
  ASSUME Pool, UNCHANGED slotVars, NEW d \in Dispatches,
         \A e \in Dispatches \ {d} : disp'[e] = disp[e],
         disp'[d].pc \notin {"holding", "reset"},
         \/ disp[d].pc \in (Waiting \ {"holding", "reset"}) \cup {"idle"}
         \/ disp'[d].pc \in Ended
  PROVE  Pool'
<1>1. PoolType' /\ SlotsAccounted'
  BY DEF Pool, PoolType, SlotsAccounted, slotVars
<1>2. TokenOf(d)'
  BY DEF Pool, TokenOf, At, slotVars, Waiting, Ended
<1>3. \A e \in Dispatches \ {d} : TokenOf(e)'
  BY DEF Pool, TokenOf, At, slotVars
<1>4. QED
  BY <1>1, <1>2, <1>3 DEF Pool

\* Budget steps come before a dispatch has a slot.
LEMMA PoolBudgetStep ==
  ASSUME DispType, Pool, NEW d \in Dispatches, BudgetStep(d),
         \A e \in Dispatches \ {d} : disp'[e] = disp[e]
  PROVE  Pool'
<1> DEFINE Early == {"idle", "init", "reserve", "mint", "exists", "incr"}
<1>1. UNCHANGED slotVars /\ disp[d].pc \in Early
  BY DEF BudgetStep, Dispatch, InitializeDailyIfAbsent, AtomicReserveDaily, ReserveUncapped,
         ReserveRefused, Mint, MintFails, RefundExists, RefundIncrBy, BudgetRedisError, At
<1>2. disp'[d].pc \notin {"holding", "reset"}
  BY DEF BudgetStep, Dispatch, InitializeDailyIfAbsent, AtomicReserveDaily, ReserveUncapped,
         ReserveRefused, Mint, MintFails, RefundExists, RefundIncrBy, BudgetRedisError,
         AfterInit, AfterReserve, Refunding, Goto, DispType, DispatchType
<1>3. disp[d].pc \in (Waiting \ {"holding", "reset"}) \cup {"idle"}
  BY <1>1 DEF Waiting, Places, Ended
<1>4. QED
  BY <1>1, <1>2, <1>3, PoolSame

\* The steps after the mint.
LEMMA PoolPressureStep ==
  ASSUME DispType, Pool, NEW d \in Dispatches, PressureStep(d)
  PROVE  Pool'
<1>0. ASSUME NEW pc \in Places, Goto(d, pc, 0) PROVE Moved(d, pc, 0, disp[d].n)
  BY <1>0, GotoEffect
<1>1. ASSUME UNCHANGED slotVars, NEW pc \in Ended \cup {"acquire"}, Goto(d, pc, 0),
             \/ disp[d].pc \in (Waiting \ {"holding", "reset"})
             \/ pc \in Ended
      PROVE  Pool'
  <2>1. Moved(d, pc, 0, disp[d].n)
    BY <1>0, <1>1 DEF Places
  <2>2. QED
    BY <1>1, <2>1, PoolSame DEF Moved, Ended
<1>2. CASE Finish(d) \/ CheckpointFails(d)
  BY <1>1, <1>2 DEF Finish, CheckpointFails, At, Waiting, Places, Ended
<1>3. CASE CapBreached(d)
  BY <1>1, <1>3 DEF CapBreached, Ended
<1>4. CASE Crash(d)
  BY <1>1, <1>4 DEF Crash, Ended
<1>5. CASE TryAcquireSlot(d)
  BY <1>0, <1>5, PoolTake DEF TryAcquireSlot, Places
<1>6. CASE AcquireRedisError(d)
  <2>1. At(d, "acquire") /\ Moved(d, "holding", 0, disp[d].n)
    BY <1>0, <1>6 DEF AcquireRedisError, Places
  <2>2. CASE slotless' = TRUE /\ UNCHANGED <<slots, token>>
    <3>1. PoolType' /\ SlotsAccounted'
      BY <2>2 DEF Pool, PoolType, SlotsAccounted
    <3>2. \A e \in Dispatches : TokenOf(e)'
      BY <2>1, <2>2 DEF Pool, TokenOf, At, Moved, Waiting
    <3>3. QED
      BY <3>1, <3>2 DEF Pool
  <2>3. CASE slots < PressureCap /\ slots' = slots + 1 /\ token' = token \cup {d}
             /\ UNCHANGED slotless
    BY <2>1, <2>3, PoolTake
  <2>4. QED
    BY <1>6, <2>2, <2>3 DEF AcquireRedisError
<1>7. CASE ReleaseSlot(d)
  <2>1. PICK pc \in {"done", "reset"} : Goto(d, pc, 0) /\ (pc = "reset" => slots - 1 < 0)
    BY <1>7 DEF ReleaseSlot
  <2>2. Moved(d, pc, 0, disp[d].n)
    BY <1>0, <2>1 DEF Places, Ended
  <2>3. QED
    BY <1>7, <2>1, <2>2, PoolGive DEF ReleaseSlot
<1>8. CASE ReleaseRedisError(d)
  <2>1. At(d, "holding") /\ Goto(d, "done", 0) /\ Moved(d, "done", 0, disp[d].n)
        /\ slotless' = slotless
    BY <1>0, <1>8 DEF ReleaseRedisError, Places, Ended
  <2>2. CASE UNCHANGED <<slots, token>>
    BY <1>1, <2>1, <2>2 DEF slotVars, Ended
  <2>3. CASE slots' = slots - 1 /\ token' = token \ {d}
    BY <2>1, <2>3, PoolGive
  <2>4. QED
    BY <1>8, <2>2, <2>3 DEF ReleaseRedisError
<1>9. CASE ResetSlots(d)
  <2>1. At(d, "reset") /\ Moved(d, "done", 0, disp[d].n) /\ slots' = 0
        /\ slotless' = slotless /\ token' = token
    BY <1>0, <1>9 DEF ResetSlots, Places, Ended
  <2>2. slotless
    BY <2>1 DEF Pool, TokenOf
  <2>3. PoolType' /\ SlotsAccounted'
    BY <2>1, <2>2 DEF Pool, PoolType, SlotsAccounted
  <2>4. \A e \in Dispatches : TokenOf(e)'
    BY <2>1, <2>2 DEF Pool, TokenOf, At, Moved, Waiting, Ended
  <2>5. QED
    BY <2>3, <2>4 DEF Pool
<1>10. QED
  BY <1>2, <1>3, <1>4, <1>5, <1>6, <1>7, <1>8, <1>9 DEF PressureStep

-----------------------------------------------------------------------------
(* The invariant *)

\* The invariant is the conjunction of the parts treated above.
LEMMA AdmissionParts ==
  AdmissionInv <=> /\ faults \in 0..MaxFaults /\ DispType
                   /\ Ledger /\ Pool /\ \A d \in Dispatches : InLoop(d)
<1>1. TokensHeld <=> \A d \in Dispatches : TokenOf(d)
  BY DEF TokensHeld, TokenOf
<1>2. TypeOK <=> faults \in 0..MaxFaults /\ DispType /\ CounterType /\ PoolType
  BY DEF TypeOK, DispType, CounterType, PoolType
<1>3. QED
  BY <1>1, <1>2, InLoopDef DEF AdmissionInv, Ledger, Pool

\* Before any dispatch the counters are absent and the pool is empty.
LEMMA AdmissionInit == Init => AdmissionInv
<1> SUFFICES ASSUME Init PROVE AdmissionInv
  OBVIOUS
<1>1. TypeOK
  <2>1. disp \in [Dispatches -> DispatchType]
    BY DEF Init, DispatchType, Places
  <2>2. ttl \in [Automations -> BOOLEAN] /\ carried \in [Automations -> BOOLEAN]
        /\ slotless \in BOOLEAN
    BY DEF Init
  <2>3. counter \in [Automations -> Nat \cup {Absent}]
        /\ held \in [Dispatches -> SUBSET Automations] /\ token \in SUBSET Dispatches
    BY DEF Init
  <2>4. slots \in Int /\ faults \in 0..MaxFaults
    BY AdmissionAssumption DEF Init
  <2>5. QED
    BY <2>1, <2>2, <2>3, <2>4 DEF TypeOK
<1>2. LoopIndex /\ DebitsInLoop /\ RefusedHoldsNothing
  BY DEF Init, LoopIndex, DebitsInLoop, RefusedHoldsNothing, At
<1>3. AbsentHoldsNothing /\ CapAccounted
  BY DEF Init, AbsentHoldsNothing, CapAccounted, Holders, Capped
<1>4. TokensHeld /\ SlotsAccounted
  BY AdmissionAssumption, FS_EmptySet DEF Init, TokensHeld, SlotsAccounted, At
<1>5. QED
  BY <1>1, <1>2, <1>3, <1>4 DEF AdmissionInv

\* The counters after a budget step.
LEMMA LedgerBudgetStep ==
  ASSUME DispType, Ledger, NEW d \in Dispatches, InLoop(d), BudgetStep(d)
  PROVE  Ledger'
<1>1. CASE UNCHANGED budgetVars
  BY <1>1, LedgerSame
<1>2. CASE At(d, "init") /\ SetDaily(Member(d))
  BY <1>2, MemberOf, LedgerSetDaily DEF At
<1>3. CASE At(d, "reserve") /\ counter[Member(d)] - RunCost >= 0 /\ Debit(d)
  BY <1>3, MemberOf, LedgerDebit DEF At
<1>4. CASE At(d, "incr") /\ Credit(d)
  BY <1>4, MemberOf, LedgerCredit DEF At
<1>5. QED
  BY <1>1, <1>2, <1>3, <1>4
     DEF BudgetStep, Dispatch, InitializeDailyIfAbsent, AtomicReserveDaily, ReserveUncapped,
         ReserveRefused, Mint, MintFails, RefundExists, RefundIncrBy, BudgetRedisError

\* Every step preserves the invariant.
LEMMA AdmissionStep == AdmissionInv /\ [Next]_vars => AdmissionInv'
<1> SUFFICES ASSUME AdmissionInv, [Next]_vars PROVE AdmissionInv'
  OBVIOUS
<1>0. /\ faults \in 0..MaxFaults /\ DispType /\ Ledger /\ Pool
      /\ \A d \in Dispatches : InLoop(d)
  BY AdmissionParts
<1> DEFINE Goal == /\ faults' \in 0..MaxFaults /\ DispType' /\ Ledger' /\ Pool'
                   /\ \A d \in Dispatches : InLoop(d)'
<1>1. ASSUME NEW d \in Dispatches, BudgetStep(d) PROVE Goal
  <2>1. /\ disp' \in [Dispatches -> DispatchType] /\ InLoop(d)'
        /\ \A e \in Dispatches \ {d} : disp'[e] = disp[e] /\ held'[e] = held[e]
    BY <1>0, <1>1, LoopBudgetStep
  <2>2. \A e \in Dispatches : InLoop(e)'
    BY <1>0, <2>1, InLoopOther
  <2>3. Ledger'
    BY <1>0, <1>1, LedgerBudgetStep
  <2>4. Pool'
    BY <1>0, <1>1, <2>1, PoolBudgetStep
  <2>5. DispType'
    BY <2>1, <2>3 DEF DispType, Ledger, CounterType
  <2>6. faults' \in 0..MaxFaults
    BY <1>0, <1>1, AdmissionAssumption
       DEF BudgetStep, Dispatch, InitializeDailyIfAbsent, AtomicReserveDaily, ReserveUncapped,
           ReserveRefused, Mint, MintFails, RefundExists, RefundIncrBy, BudgetRedisError
  <2>7. QED
    BY <2>2, <2>3, <2>4, <2>5, <2>6
<1>2. ASSUME NEW d \in Dispatches, PressureStep(d) PROVE Goal
  <2>1. /\ disp' \in [Dispatches -> DispatchType] /\ InLoop(d)'
        /\ \A e \in Dispatches \ {d} : disp'[e] = disp[e]
        /\ UNCHANGED budgetVars
    BY <1>0, <1>2, LoopPressureStep
  <2>2. \A e \in Dispatches : InLoop(e)'
    BY <1>0, <2>1, InLoopOther DEF budgetVars
  <2>3. Ledger'
    BY <1>0, <2>1, LedgerSame
  <2>4. Pool'
    BY <1>0, <1>2, PoolPressureStep
  <2>5. DispType'
    BY <2>1, <2>3 DEF DispType, Ledger, CounterType
  <2>6. faults' \in 0..MaxFaults
    BY <1>0, <1>2, AdmissionAssumption
       DEF PressureStep, Finish, CheckpointFails, TryAcquireSlot, CapBreached,
           AcquireRedisError, ReleaseSlot, ReleaseRedisError, ResetSlots, Crash
  <2>7. QED
    BY <2>2, <2>3, <2>4, <2>5, <2>6
<1>3. ASSUME NEW a \in Automations, Expire(a) PROVE Goal
  <2>1. disp' = disp /\ faults' = faults /\ UNCHANGED slotVars
        /\ \A d \in Dispatches : held'[d] \subseteq held[d]
    BY <1>3 DEF Expire
  <2>2. \A e \in Dispatches : InLoop(e)'
    BY <1>0, <2>1, InLoopOther
  <2>3. Ledger'
    BY <1>0, <1>3, LedgerExpire
  <2>4. Pool'
    BY <1>0, <2>1 DEF Pool, PoolType, SlotsAccounted, TokenOf, At, slotVars
  <2>5. QED
    BY <1>0, <2>1, <2>2, <2>3, <2>4 DEF DispType, Ledger, CounterType
<1>4. ASSUME UNCHANGED vars PROVE Goal
  <2>1. UNCHANGED budgetVars /\ UNCHANGED slotVars /\ UNCHANGED <<disp, faults, held>>
    BY <1>4 DEF vars, budgetVars, slotVars
  <2>2. \A e \in Dispatches : InLoop(e)'
    BY <1>0, <2>1, InLoopOther
  <2>3. Pool'
    BY <1>0, <2>1 DEF Pool, PoolType, SlotsAccounted, TokenOf, At, slotVars
  <2>4. Ledger'
    BY <1>0, <2>1, LedgerSame
  <2>5. QED
    BY <1>0, <2>1, <2>2, <2>3, <2>4 DEF DispType
<1>5. Goal
  <2> HIDE DEF Goal
  <2>1. QED
    BY <1>1, <1>2, <1>3, <1>4 DEF Next
<1>6. LoopIndex' /\ DebitsInLoop' /\ RefusedHoldsNothing'
  BY <1>5 DEF LoopIndex, DebitsInLoop, RefusedHoldsNothing, InLoop, At
<1>7. TokensHeld'
  BY <1>5 DEF Pool, TokensHeld, TokenOf
<1>8. TypeOK'
  BY <1>5 DEF TypeOK, DispType, Ledger, CounterType, Pool, PoolType
<1>9. QED
  BY <1>5, <1>6, <1>7, <1>8 DEF AdmissionInv, Ledger, Pool

\* The inductive invariant holds in every reachable state.
THEOREM AdmissionInvariant == Spec => []AdmissionInv
<1>1. QED
  BY AdmissionInit, AdmissionStep, PTL DEF Spec

\* Every variable keeps its type; in particular no day's counter goes below
\* zero (the floor of _LUA_RESERVE_DAILY).
THEOREM AdmissionTypeCorrect == Spec => []TypeOK
<1>1. AdmissionInv => TypeOK
  BY DEF AdmissionInv
<1>2. QED
  BY <1>1, AdmissionInvariant, PTL

\* What is left on a capped counter and what the dispatches hold of it make up
\* the cap, unless a roll-back crossed midnight (allocate_run_budget,
\* _refund_daily).
THEOREM CapIsAccounted == Spec => []CapAccounted
<1>1. AdmissionInv => CapAccounted
  BY DEF AdmissionInv
<1>2. QED
  BY <1>1, AdmissionInvariant, PTL

\* A refused allocation leaves no debit anywhere (the roll-back loops of
\* allocate_run_budget).
THEOREM RefusalIsClean == Spec => []RefusedHoldsNothing
<1>1. AdmissionInv => RefusedHoldsNothing
  BY DEF AdmissionInv
<1>2. QED
  BY <1>1, AdmissionInvariant, PTL

\* The pressure pool counts its tokens and stays within its cap as long as no
\* Redis error made one up (try_acquire_pressure_slot, release_pressure_slot).
THEOREM SlotsAreAccounted == Spec => []SlotsAccounted
<1>1. AdmissionInv => SlotsAccounted
  BY DEF AdmissionInv
<1>2. QED
  BY <1>1, AdmissionInvariant, PTL
=============================================================================
