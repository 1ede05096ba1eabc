-------------------------- MODULE RuntimeRpc_proofs --------------------------
(***************************************************************************)
(* The runtime plane and the RPC provider it reads the chain through, each *)
(* with its own specification.                                             *)
(*                                                                         *)
(* The plane, for every chain, limit, budget and window, and any number of *)
(* faults: simulations stay within the budget of every window, and a       *)
(* failing call costs the engine less than one cycle of blocks.            *)
(*                                                                         *)
(* The provider, for every threshold and cooldown and any set of callers:  *)
(* of every number of endpoints, one in its cooldown is left alone while   *)
(* another is available; of two, a call that no other overlaps tries each  *)
(* that was available before it raises.  That a selection finds the        *)
(* endpoint it asks for at all is NthExists: the places in the sorted list *)
(* are as many as the endpoints, and no two endpoints share one.           *)
(***************************************************************************)
EXTENDS RuntimePlane, RpcProvider, FiniteSetTheorems, TLAPS

-----------------------------------------------------------------------------
(* The runtime plane: types.                                               *)

PlaneTypes ==
    /\ TypeOK
    /\ head <= MaxHead
    /\ phase = "idle" => txs = << >>
    /\ phase = "routing" => Elements(txs) \subseteq delivered
    /\ phase = "fetching" => cursor < next /\ next <= last /\ last <= head /\ Len(txs) < Limit

LEMMA PlaneConstants ==
    /\ MaxHead \in Nat /\ Limit \in Nat /\ Limit >= 1 /\ MaxBlocks \in Nat /\ MaxBlocks >= 1
    /\ SimBudget \in Nat /\ SimBudget >= 1 /\ Window \in Nat /\ Window >= 1
    /\ Kept \in Nat /\ Window <= Kept /\ MaxFaults \in Nat
    /\ \A b \in Blocks : TxsOf[b] \in Seq(Txs)
  BY PlaneAssumption

LEMMA ElementsOf ==
    ASSUME NEW s \in Seq(Txs)
    PROVE  /\ Elements(s) \subseteq Txs
           /\ s # << >> => s[1] \in Elements(s) /\ Tail(s) \in Seq(Txs)
                           /\ Elements(Tail(s)) \subseteq Elements(s) /\ Head(s) \in Txs
  BY DEF Elements

LEMMA ElementsOfConcat ==
    ASSUME NEW s \in Seq(Txs), NEW t \in Seq(Txs)
    PROVE  /\ s \o t \in Seq(Txs)
           /\ Elements(s \o t) = Elements(s) \cup Elements(t)
<1>1. /\ s \o t \in Seq(Txs) /\ Len(s \o t) = Len(s) + Len(t)
      /\ \A i \in 1..Len(s) : (s \o t)[i] = s[i]
      /\ \A i \in 1..Len(t) : (s \o t)[Len(s) + i] = t[i]
      /\ \A i \in 1..(Len(s) + Len(t)) : i \in 1..Len(s) \/ (s \o t)[i] = t[i - Len(s)]
  OBVIOUS
<1>2. Elements(s) \subseteq Elements(s \o t)
  BY <1>1 DEF Elements
<1>3. Elements(t) \subseteq Elements(s \o t)
  <2> SUFFICES ASSUME NEW i \in 1..Len(t) PROVE t[i] \in Elements(s \o t)
    BY DEF Elements
  <2>1. Len(s) + i \in 1..Len(s \o t) /\ (s \o t)[Len(s) + i] = t[i]
    BY <1>1
  <2> DEFINE u == s \o t
  <2>2. u \in Seq(Txs)
    BY <1>1
  <2> HIDE DEF u
  <2>3. \A k \in 1..Len(u) : u[k] \in Elements(u)
    BY <2>2 DEF Elements
  <2> QED
    BY <2>1, <2>3 DEF u
<1>4. Elements(s \o t) \subseteq Elements(s) \cup Elements(t)
  <2> SUFFICES ASSUME NEW i \in 1..Len(s \o t)
               PROVE  (s \o t)[i] \in Elements(s) \cup Elements(t)
    BY <1>1 DEF Elements
  <2>1. CASE i \in 1..Len(s)
    <3>1. s[i] \in Elements(s)
      BY <2>1 DEF Elements
    <3>2. (s \o t)[i] = s[i]
      BY <1>1, <2>1
    <3> QED
      BY <3>1, <3>2
  <2>2. CASE i \notin 1..Len(s)
    <3>1. i - Len(s) \in 1..Len(t) /\ (s \o t)[i] = t[i - Len(s)]
      BY <1>1, <2>2
    <3> QED
      BY <3>1 DEF Elements
  <2> QED
    BY <2>1, <2>2
<1> QED
  BY <1>1, <1>2, <1>3, <1>4

\* At least the first transaction of a block is taken.
LEMMA TakenFacts ==
    ASSUME PlaneTypes, phase = "fetching"
    PROVE  /\ next \in Blocks /\ Taken(next) \in Seq(Txs)
           /\ TxsOf[next] # << >> =>
                 Taken(next) # << >> /\ TxsOf[next][1] \in Elements(Taken(next))
<1> DEFINE t == TxsOf[next]
           n == Smaller(Len(t), Limit - Len(txs))
<1>1. next \in Blocks
  BY PlaneConstants DEF PlaneTypes, TypeOK, Blocks
<1>2. t \in Seq(Txs) /\ Len(t) \in Nat /\ Len(txs) \in Nat /\ Len(txs) < Limit
  BY <1>1, PlaneConstants DEF PlaneTypes, TypeOK
<1>3. n \in Nat /\ n <= Len(t) /\ (t # << >> => n >= 1)
  BY <1>2, PlaneConstants DEF Smaller
<1> HIDE DEF t, n
<1>4. /\ SubSeq(t, 1, n) \in Seq(Txs) /\ Len(SubSeq(t, 1, n)) = n
      /\ \A i \in 1..n : SubSeq(t, 1, n)[i] = t[i]
  BY <1>2, <1>3
<1>5. Taken(next) = SubSeq(t, 1, n)
  BY DEF Taken, t, n
<1>6. t # << >> => Taken(next) # << >> /\ t[1] \in Elements(Taken(next))
  <2> SUFFICES ASSUME t # << >> PROVE Taken(next) # << >> /\ t[1] \in Elements(Taken(next))
    OBVIOUS
  <2> DEFINE k == SubSeq(t, 1, n)
  <2>1. 1 \in 1..n /\ Len(k) >= 1 /\ k[1] = t[1] /\ k \in Seq(Txs)
    BY <1>3, <1>4
  <2> HIDE DEF k
  <2>2. k # << >> /\ k[1] \in Elements(k)
    BY <2>1 DEF Elements
  <2> QED
    BY <1>5, <2>1, <2>2 DEF k
<1> QED
  BY <1>1, <1>4, <1>5, <1>6 DEF t

LEMMA InitPlaneTypes == Init => PlaneTypes
  BY PlaneConstants DEF Init, PlaneTypes, TypeOK, Elements

\* What the end of a fetch leaves, when got is all that was fetched.
LEMMA AdvanceTypes ==
    ASSUME PlaneTypes, phase = "fetching", NEW got \in Seq(Txs), Advance(got),
           cursor' \in {cursor, next}, last' = last, head' = head
    PROVE  /\ next' = next + 1 /\ txs' \in Seq(Txs) /\ delivered' \subseteq Txs
           /\ phase' \in {"idle", "fetching", "routing"} /\ cursor' < next'
           /\ phase' = "idle" => txs' = << >>
           /\ phase' = "routing" => Elements(txs') \subseteq delivered'
           /\ phase' = "fetching" => next' <= last' /\ Len(txs') < Limit
           /\ txs' = got
           /\ phase' = "fetching" => delivered' = delivered
           /\ delivered' \cup Elements(txs') = delivered \cup Elements(got)
  BY ElementsOf DEF PlaneTypes, TypeOK, Advance

LEMMA GetBlockTypes == PlaneTypes /\ GetBlock => PlaneTypes'
<1> SUFFICES ASSUME PlaneTypes, GetBlock PROVE PlaneTypes'
  OBVIOUS
<1>1. /\ phase = "fetching" /\ head' = head /\ routed' = routed /\ ages' = ages /\ listed' = listed
      /\ faults' <= MaxFaults
  BY DEF GetBlock, budgetVars
<1>2. /\ cursor \in Nat /\ next \in Nat /\ last \in Nat /\ head \in Nat /\ faults \in Nat
      /\ cursor < next /\ next <= last /\ last <= head /\ head <= MaxHead
      /\ txs \in Seq(Txs)
  BY <1>1 DEF PlaneTypes, TypeOK
<1>3. CASE BlockFound
  <2>1. txs \o Taken(next) \in Seq(Txs)
    BY <1>1, <1>2, TakenFacts, ElementsOfConcat
  <2>2. /\ cursor' = next /\ Advance(txs \o Taken(next)) /\ last' = last /\ faults' = faults
    BY <1>3 DEF BlockFound, CursorAfter
  <2> QED
    <3>1. /\ next' = next + 1 /\ txs' \in Seq(Txs) /\ delivered' \subseteq Txs
          /\ phase' \in {"idle", "fetching", "routing"} /\ cursor' < next'
          /\ phase' = "idle" => txs' = << >>
          /\ phase' = "routing" => Elements(txs') \subseteq delivered'
          /\ phase' = "fetching" => next' <= last' /\ Len(txs') < Limit
      BY <1>1, <2>1, <2>2, AdvanceTypes
    <3> QED
      BY <1>1, <1>2, <2>2, <3>1, PlaneConstants DEF PlaneTypes, TypeOK
<1>4. CASE BlockMissing
  <2>1. /\ cursor' = cursor /\ Advance(txs) /\ last' = last
        /\ faults' = faults \/ faults' = faults + 1
    BY <1>4 DEF BlockMissing
  <2> QED
    BY <1>1, <1>2, <2>1, AdvanceTypes, PlaneConstants DEF PlaneTypes, TypeOK
<1>5. CASE BlockRaises
  BY <1>1, <1>2, <1>5, PlaneConstants DEF PlaneTypes, TypeOK, BlockRaises, CursorKept
<1> QED
  BY <1>3, <1>4, <1>5 DEF GetBlock

LEMMA RouteTypes == PlaneTypes /\ Route => PlaneTypes'
<1> SUFFICES ASSUME PlaneTypes, Route PROVE PlaneTypes'
  OBVIOUS
<1>1. /\ phase = "routing" /\ txs \in Seq(Txs) /\ txs # << >> /\ txs' = Tail(txs)
      /\ head' = head /\ faults' = faults
      /\ cursor' = cursor /\ next' = next /\ last' = last /\ delivered' = delivered
  BY DEF Route, PlaneTypes, TypeOK, chainVars, sourceVars
<1>2. /\ txs' \in Seq(Txs) /\ Elements(txs') \subseteq delivered' /\ routed' \subseteq Txs
      /\ phase' \in {"idle", "routing"} /\ (phase' = "idle" => txs' = << >>)
  BY <1>1, ElementsOf DEF Route, PlaneTypes, TypeOK
<1>3. ages' \in Seq(0..Kept) /\ listed' \subseteq DOMAIN ages'
  <2>1. CASE Simulate
    <3>1. ages \in Seq(0..Kept) /\ listed \subseteq 1..Len(ages) /\ 0 \in 0..Kept
      BY PlaneConstants DEF PlaneTypes, TypeOK
    <3>2. ages' = Append(ages, 0) /\ listed' = Cleaned(listed) \cup {Len(ages) + 1}
      BY <2>1 DEF Simulate
    <3>3. ages' \in Seq(0..Kept) /\ DOMAIN ages' = 1..(Len(ages) + 1)
      BY <3>1, <3>2
    <3>4. listed' \subseteq 1..(Len(ages) + 1)
      <4>1. PICK n \in Nat : n = Len(ages)
        BY <3>1
      <4>2. PICK kept : kept = Cleaned(listed)
        OBVIOUS
      <4>3. kept \subseteq 1..n
        BY <3>1, <4>1, <4>2 DEF Cleaned
      <4> QED
        BY <3>2, <4>1, <4>2, <4>3
    <3> QED
      BY <3>3, <3>4
  <2>2. CASE UNCHANGED budgetVars
    BY <2>2 DEF budgetVars, PlaneTypes, TypeOK
  <2> QED
    BY <2>1, <2>2 DEF Route
<1> QED
  BY <1>1, <1>2, <1>3 DEF PlaneTypes, TypeOK

LEMMA NextPlaneTypes == PlaneTypes /\ [Next]_vars => PlaneTypes'
<1> SUFFICES ASSUME PlaneTypes, [Next]_vars PROVE PlaneTypes'
  OBVIOUS
<1>1. CASE StartCycle
  <2>1. PICK latest \in {head, head - 1} :
          /\ latest > cursor
          /\ faults' = faults + (head - latest) /\ faults' <= MaxFaults
          /\ next' = cursor + 1
          /\ last' = cursor + Smaller(latest - cursor, MaxBlocks)
    BY <1>1 DEF StartCycle
  <2>2. /\ phase = "idle" /\ phase' = "fetching" /\ head' = head /\ cursor' = cursor
        /\ txs' = txs /\ routed' = routed /\ delivered' = delivered /\ ages' = ages
        /\ listed' = listed
    BY <1>1 DEF StartCycle, budgetVars
  <2>3. /\ head \in Nat /\ head <= MaxHead /\ cursor \in Nat /\ faults \in Nat /\ txs = << >>
    BY <2>2 DEF PlaneTypes, TypeOK
  <2>4. /\ next' = cursor + 1 /\ next' <= last' /\ last' <= head /\ last' \in Nat
        /\ faults' \in Nat
    BY <2>1, <2>3, PlaneConstants DEF Smaller
  <2>5. Len(txs') < Limit
    BY <2>2, <2>3, PlaneConstants
  <2> QED
    BY <2>1, <2>2, <2>3, <2>4, <2>5, PlaneConstants DEF PlaneTypes, TypeOK
<1>2. CASE GetBlock
  BY <1>2, GetBlockTypes
<1>3. CASE Route
  BY <1>3, RouteTypes
<1>4. CASE NewBlock
  BY <1>4, PlaneConstants
     DEF NewBlock, PlaneTypes, TypeOK, sourceVars, budgetVars
<1>5. CASE Tick
  <2>1. ages' \in Seq(0..Kept) /\ DOMAIN ages' = DOMAIN ages
    <3>1. ages \in Seq(0..Kept) /\ ages' = [i \in DOMAIN ages |-> Smaller(ages[i] + 1, Kept)]
      BY <1>5 DEF Tick, PlaneTypes, TypeOK
    <3>2. \A i \in 1..Len(ages) : Smaller(ages[i] + 1, Kept) \in 0..Kept
      BY <3>1, PlaneConstants DEF Smaller
    <3>3. ages' \in [1..Len(ages) -> 0..Kept] /\ Len(ages) \in Nat
      BY <3>1, <3>2
    <3> QED
      BY <3>1, <3>3
  <2> QED
    BY <1>5, <2>1 DEF Tick, PlaneTypes, TypeOK, chainVars, sourceVars
<1>6. CASE UNCHANGED vars
  BY <1>6 DEF vars, chainVars, sourceVars, budgetVars, PlaneTypes, TypeOK
<1> QED
  BY <1>1, <1>2, <1>3, <1>4, <1>5, <1>6 DEF Next, Cycle

\* The state of the source, the router and the budget keeps its types; a cycle only asks
\* for blocks of the chain.
THEOREM PlaneTypeCorrect == Spec => []TypeOK
<1>1. PlaneTypes => TypeOK
  BY DEF PlaneTypes
<1> QED
  BY <1>1, InitPlaneTypes, NextPlaneTypes, PTL DEF Spec

-----------------------------------------------------------------------------
(* The runtime plane: the budget.                                          *)

\* Every simulation of the last window still has its timestamp on the list.
BudgetIInv == InWindow(DOMAIN ages) \subseteq listed /\ BudgetKept

LEMMA SeqElements ==
    ASSUME NEW A, NEW s \in Seq(A)
    PROVE  \A i \in 1..Len(s) : s[i] \in A
  OBVIOUS

LEMMA AppendedElement ==
    ASSUME NEW A, NEW s \in Seq(A), NEW a \in A
    PROVE  /\ DOMAIN Append(s, a) = 1..(Len(s) + 1) /\ Append(s, a)[Len(s) + 1] = a
           /\ \A i \in 1..Len(s) : Append(s, a)[i] = s[i]
  OBVIOUS

LEMMA SubsetOfInterval ==
    ASSUME NEW n \in Nat, NEW S, S \subseteq 1..n
    PROVE  IsFiniteSet(S) /\ Cardinality(S) \in Nat
<1>1. IsFiniteSet(1..n)
  BY FS_Interval
<1>2. IsFiniteSet(S)
  BY <1>1, FS_Subset
<1> QED
  BY <1>2, FS_CardinalityType

LEMMA SimulateBudget ==
    ASSUME PlaneTypes, BudgetIInv, Simulate
    PROVE  BudgetIInv'
<1> DEFINE n == Len(ages)
           old == InWindow(DOMAIN ages)
<1>1. /\ ages \in Seq(0..Kept) /\ listed \subseteq DOMAIN ages /\ DOMAIN ages = 1..n
      /\ n \in Nat /\ ages' = Append(ages, 0)
      /\ listed' = Cleaned(listed) \cup {n + 1}
      /\ Cardinality(InWindow(listed)) < SimBudget
  BY DEF PlaneTypes, TypeOK, Simulate, HasBudget
<1>2. /\ DOMAIN ages' = 1..(n + 1) /\ ages'[n + 1] = 0
      /\ \A i \in 1..n : ages'[i] = ages[i] /\ ages[i] \in 0..Kept
  <2>1. 0 \in 0..Kept
    BY PlaneConstants
  <2> QED
    <3>1. \A i \in 1..n : ages[i] \in 0..Kept
      BY <1>1, SeqElements
    <3>2. /\ DOMAIN Append(ages, 0) = 1..(n + 1) /\ Append(ages, 0)[n + 1] = 0
          /\ \A i \in 1..n : Append(ages, 0)[i] = ages[i]
      BY <1>1, <2>1, AppendedElement
    <3> QED
      BY <1>1, <3>1, <3>2
<1>3. InWindow(listed) = old /\ IsFiniteSet(old)
  <2>1. old \subseteq listed
    BY DEF BudgetIInv
  <2>2. old = InWindow(listed)
    BY <1>1, <2>1 DEF InWindow
  <2>3. old \subseteq 1..n
    BY <1>1 DEF InWindow
  <2> QED
    BY <1>1, <2>2, <2>3, SubsetOfInterval
<1>4. InWindow(DOMAIN ages)' = old \cup {n + 1}
  <2>1. InWindow(DOMAIN ages)' = {i \in 1..(n + 1) : ages'[i] < Window}
    BY <1>2 DEF InWindow
  <2>2. old = {i \in 1..n : ages[i] < Window}
    BY <1>1 DEF InWindow
  <2>3. ASSUME NEW i \in 1..(n + 1)
        PROVE  ages'[i] < Window <=> i \in old \cup {n + 1}
    <3>1. CASE i = n + 1
      BY <1>2, <3>1, PlaneConstants
    <3>2. CASE i # n + 1
      <4>1. i \in 1..n
        BY <1>1, <3>2
      <4> QED
        BY <1>2, <2>2, <3>2, <4>1
    <3> QED
      BY <3>1, <3>2
  <2>4. old \cup {n + 1} \subseteq 1..(n + 1)
    BY <1>1, <2>2
  <2> QED
    BY <2>1, <2>3, <2>4
<1>5. InWindow(DOMAIN ages)' \subseteq listed'
  <2>1. old \subseteq Cleaned(listed)
    <3> SUFFICES ASSUME NEW i \in old PROVE i \in Cleaned(listed)
      OBVIOUS
    <3>1. i \in listed /\ ages[i] < Window /\ i \in 1..n
      BY <1>1 DEF InWindow, BudgetIInv
    <3>2. ages[i] < Kept
      BY <1>2, <3>1, PlaneConstants
    <3> QED
      BY <3>1, <3>2 DEF Cleaned
  <2> QED
    BY <1>1, <1>4, <2>1
<1>6. Cardinality(old \cup {n + 1}) <= SimBudget
  <2>1. Cardinality(old) < SimBudget /\ Cardinality(old) \in Nat
    BY <1>1, <1>3, FS_CardinalityType
  <2>2. Cardinality(old \cup {n + 1}) <= Cardinality(old) + 1
    <3>1. Cardinality(old \cup {n + 1}) \in {Cardinality(old), Cardinality(old) + 1}
      BY <1>3, FS_AddElement
    <3> QED
      BY <2>1, <3>1
  <2>3. Cardinality(old \cup {n + 1}) \in Nat
    BY <1>3, FS_AddElement, FS_CardinalityType
  <2> QED
    BY <2>1, <2>2, <2>3, PlaneConstants
<1> QED
  BY <1>4, <1>5, <1>6 DEF BudgetIInv, BudgetKept

LEMMA TickBudget ==
    ASSUME PlaneTypes, BudgetIInv, Tick
    PROVE  BudgetIInv'
<1> DEFINE old == InWindow(DOMAIN ages)
           new == InWindow(DOMAIN ages)'
<1>1. /\ ages \in Seq(0..Kept) /\ DOMAIN ages = 1..Len(ages) /\ Len(ages) \in Nat
      /\ ages' = [i \in DOMAIN ages |-> Smaller(ages[i] + 1, Kept)] /\ listed' = listed
  BY DEF PlaneTypes, TypeOK, Tick
<1>2. \A i \in DOMAIN ages : ages[i] \in 0..Kept /\ ages'[i] = Smaller(ages[i] + 1, Kept)
  <2>1. \A i \in 1..Len(ages) : ages[i] \in 0..Kept
    BY <1>1, SeqElements
  <2>2. \A i \in DOMAIN ages : ages'[i] = Smaller(ages[i] + 1, Kept)
    BY <1>1
  <2> QED
    BY <1>1, <2>1, <2>2
<1>3. new \subseteq old
  <2>1. DOMAIN ages' = DOMAIN ages
    BY <1>1
  <2> SUFFICES ASSUME NEW i \in DOMAIN ages, ages'[i] < Window PROVE ages[i] < Window
    BY <2>1 DEF InWindow
  <2> QED
    BY <1>2, PlaneConstants DEF Smaller
<1>4. IsFiniteSet(old)
  BY <1>1, SubsetOfInterval DEF InWindow
<1>5. Cardinality(new) <= Cardinality(old) /\ Cardinality(new) \in Nat /\ Cardinality(old) \in Nat
  BY <1>3, <1>4, FS_Subset, FS_CardinalityType
<1> QED
  BY <1>1, <1>3, <1>5, PlaneConstants DEF BudgetIInv, BudgetKept

\* However the simulations and the cycles lie, no window sees more simulations start than
\* the budget: what is dropped from the list is older than every window that matters.
THEOREM BudgetHolds == Spec => []BudgetKept
<1>1. Init => BudgetIInv
  <2> SUFFICES ASSUME Init PROVE BudgetIInv
    OBVIOUS
  <2>1. DOMAIN ages = {}
    BY DEF Init
  <2>2. InWindow(DOMAIN ages) = {}
    BY <2>1 DEF InWindow
  <2> QED
    <3>1. Cardinality({}) <= SimBudget
      BY FS_EmptySet, PlaneConstants
    <3> QED
      BY <2>2, <3>1 DEF BudgetIInv, BudgetKept
<1>2. PlaneTypes /\ BudgetIInv /\ [Next]_vars => BudgetIInv'
  <2> SUFFICES ASSUME PlaneTypes, BudgetIInv, [Next]_vars PROVE BudgetIInv'
    OBVIOUS
  <2>1. CASE UNCHANGED budgetVars
    BY <2>1 DEF budgetVars, BudgetIInv, BudgetKept, InWindow
  <2>2. CASE Simulate
    BY <2>2, SimulateBudget
  <2>3. CASE Tick
    BY <2>3, TickBudget
  <2> QED
    BY <2>1, <2>2, <2>3
       DEF Next, Cycle, StartCycle, GetBlock, Route, NewBlock, vars
<1>3. BudgetIInv => BudgetKept
  BY DEF BudgetIInv
<1> QED
  BY <1>1, <1>2, <1>3, InitPlaneTypes, NextPlaneTypes, PTL DEF Spec

-----------------------------------------------------------------------------
(* The runtime plane: the cost of a fault.                                 *)

\* Blocks up to b whose first transaction is not delivered, whatever is being fetched.
Undelivered(b) == {x \in 1..b : TxsOf[x] # << >> /\ TxsOf[x][1] \notin delivered}

\* The last block the cycle has decided about: with cycles of one block, a missing block
\* will be fetched again.
Examined == IF phase = "fetching" /\ MaxBlocks > 1 THEN next - 1 ELSE cursor

\* What so many faults may cost.
Cost(f) == f * (MaxBlocks - 1)

\* The blocks of a cycle up to the one to be fetched, and what was lost before it began.
CycleFrom(from) ==
    /\ from <= next /\ last < from + MaxBlocks
    /\ next = from => cursor = from - 1
    /\ Cardinality(Undelivered(from - 1)) <= Cost(faults)

FaultIInv ==
    /\ Cardinality(Unheard(Examined)) <= Cost(faults)
    /\ phase = "fetching" => \E from \in Nat \ {0} : CycleFrom(from)

LEMMA BlocksUpTo ==
    ASSUME NEW b \in Nat
    PROVE  /\ IsFiniteSet(Unheard(b)) /\ IsFiniteSet(Undelivered(b))
           /\ Cardinality(Unheard(b)) \in Nat /\ Cardinality(Undelivered(b)) \in Nat
  BY SubsetOfInterval DEF Unheard, Undelivered

\* More transactions known, or fewer blocks looked at, leave fewer blocks unheard.
LEMMA FewerUnheard ==
    ASSUME NEW S, NEW T, IsFiniteSet(T), S \subseteq T, NEW k \in Int, Cardinality(T) <= k
    PROVE  Cardinality(S) <= k
  BY FS_Subset, FS_CardinalityType

LEMMA OneMoreUnheard ==
    ASSUME NEW S, NEW T, IsFiniteSet(T), NEW x, S \subseteq T \cup {x},
           NEW k \in Nat, Cardinality(T) <= k
    PROVE  Cardinality(S) <= k + 1
<1>1. IsFiniteSet(T \cup {x}) /\ Cardinality(T) \in Nat
      /\ Cardinality(T \cup {x}) \in {Cardinality(T), Cardinality(T) + 1}
  BY FS_AddElement, FS_CardinalityType
<1>2. Cardinality(T \cup {x}) <= k + 1
  BY <1>1
<1> QED
  BY <1>1, <1>2, FewerUnheard

\* The bound grows with the faults, by less than a cycle each.
LEMMA CostGrows ==
    ASSUME NEW f \in Nat
    PROVE  /\ Cost(f) \in Nat /\ Cost(f + 1) = Cost(f) + (MaxBlocks - 1)
           /\ \A g \in Nat : f <= g => Cost(f) <= Cost(g)
<1>1. PICK m \in Nat : m = MaxBlocks - 1
  BY PlaneConstants
<1>2. f * m \in Nat /\ (f + 1) * m = f * m + m
  OBVIOUS
<1>3. \A g \in Nat : f <= g => f * m <= g * m
  OBVIOUS
<1> QED
  BY <1>1, <1>2, <1>3 DEF Cost

LEMMA StartCycleFaults ==
    ASSUME PlaneTypes, FaultIInv, StartCycle
    PROVE  FaultIInv'
<1>1. PICK latest \in {head, head - 1} :
        /\ latest > cursor /\ faults' = faults + (head - latest)
        /\ next' = cursor + 1
        /\ last' = cursor + Smaller(latest - cursor, MaxBlocks)
  BY DEF StartCycle
<1>2. /\ phase = "idle" /\ phase' = "fetching" /\ cursor' = cursor /\ txs' = txs
      /\ delivered' = delivered /\ txs = << >>
      /\ cursor \in Nat /\ head \in Nat /\ faults \in Nat
  BY DEF StartCycle, PlaneTypes, TypeOK
<1>3. faults' \in Nat /\ faults <= faults' /\ last' < (cursor + 1) + MaxBlocks
  BY <1>1, <1>2, PlaneConstants DEF Smaller
<1>4. Cost(faults) <= Cost(faults') /\ Cost(faults') \in Int
  BY <1>2, <1>3, CostGrows, PlaneConstants
<1>5. Examined = cursor /\ Examined' = cursor
  BY <1>1, <1>2 DEF Examined
<1>6. Elements(txs) = {}
  BY <1>2 DEF Elements
<1>7. Unheard(Examined)' = Unheard(cursor) /\ Undelivered(cursor)' = Unheard(cursor)
  BY <1>2, <1>5, <1>6 DEF Unheard, Undelivered
<1>8. Cardinality(Unheard(cursor)) <= Cost(faults')
  BY <1>2, <1>4, <1>5, BlocksUpTo, PlaneConstants, CostGrows DEF FaultIInv
<1>9. Undelivered((cursor + 1) - 1)' = Unheard(cursor)
  BY <1>2, <1>7
<1>10. CycleFrom(cursor + 1)'
  BY <1>1, <1>2, <1>3, <1>8, <1>9 DEF CycleFrom
<1> QED
  BY <1>2, <1>7, <1>8, <1>10 DEF FaultIInv

\* While a cycle goes on, what was lost before it stays the same.
LEMMA CycleGoesOn ==
    ASSUME PlaneTypes, FaultIInv, phase = "fetching", phase' = "fetching",
           next' = next + 1, last' = last, delivered' = delivered,
           faults' \in Nat, faults <= faults'
    PROVE  \E from \in Nat \ {0} : CycleFrom(from)'
<1>1. PICK from \in Nat \ {0} : CycleFrom(from)
  BY DEF FaultIInv
<1>2. /\ faults \in Nat /\ next \in Nat
      /\ Cost(faults) <= Cost(faults')
      /\ Cost(faults) \in Nat /\ Cost(faults') \in Nat
  <2>1. faults \in Nat /\ next \in Nat
    BY PlaneConstants DEF PlaneTypes, TypeOK
  <2> QED
    BY <2>1, CostGrows
<1>3. Undelivered(from - 1)' = Undelivered(from - 1)
  BY DEF Undelivered
<1>4. Cardinality(Undelivered(from - 1)) \in Nat
  BY BlocksUpTo
<1>5. from <= next' /\ next' # from /\ last' < from + MaxBlocks
  BY <1>1, <1>2 DEF CycleFrom
<1> QED
  BY <1>1, <1>2, <1>3, <1>4, <1>5 DEF CycleFrom

\* What the cycle has looked at up to the block to be fetched.
LEMMA ExaminedBefore ==
    ASSUME PlaneTypes, FaultIInv, phase = "fetching"
    PROVE  /\ Examined = next - 1 \/ MaxBlocks = 1
           /\ MaxBlocks = 1 => cursor = next - 1 /\ next = last
           /\ Examined = IF MaxBlocks > 1 THEN next - 1 ELSE cursor
           /\ next \in Nat /\ next >= 1 /\ last \in Nat /\ next <= last
           /\ cursor \in Nat /\ cursor < next /\ faults \in Nat
<1>1. PICK from \in Nat \ {0} : CycleFrom(from)
  BY DEF FaultIInv
<1>2. /\ next \in Nat /\ last \in Nat /\ next <= last /\ cursor \in Nat /\ cursor < next
      /\ faults \in Nat
  BY PlaneConstants DEF PlaneTypes, TypeOK
<1>3. MaxBlocks = 1 => from = next /\ next = last
  BY <1>1, <1>2 DEF CycleFrom
<1> QED
  BY <1>1, <1>2, <1>3, PlaneConstants DEF CycleFrom, Examined

\* What is known of the blocks examined so far.
LEMMA UnheardNow ==
    ASSUME PlaneTypes, FaultIInv
    PROVE  /\ Examined \in Nat /\ cursor \in Nat /\ cursor <= Examined /\ faults \in Nat
           /\ IsFiniteSet(Unheard(Examined)) /\ Cardinality(Unheard(Examined)) \in Nat
           /\ Cardinality(Unheard(Examined)) <= Cost(faults)
           /\ Cost(faults) \in Nat /\ Cost(faults + 1) = Cost(faults) + (MaxBlocks - 1)
<1>1. Examined \in Nat /\ cursor \in Nat /\ cursor <= Examined /\ faults \in Nat
  <2>1. CASE phase = "fetching"
    BY <2>1, ExaminedBefore, PlaneConstants
  <2>2. CASE phase # "fetching"
    BY <2>2, PlaneConstants DEF Examined, PlaneTypes, TypeOK
  <2> QED
    BY <2>1, <2>2
<1>2. IsFiniteSet(Unheard(Examined)) /\ Cardinality(Unheard(Examined)) \in Nat
  BY <1>1, BlocksUpTo
<1>3. Cost(faults) \in Nat /\ Cost(faults + 1) = Cost(faults) + (MaxBlocks - 1)
  BY <1>1, CostGrows
<1> QED
  BY <1>1, <1>2, <1>3 DEF FaultIInv

LEMMA BlockFoundFaults ==
    ASSUME PlaneTypes, FaultIInv, GetBlock, BlockFound
    PROVE  FaultIInv'
<1> DEFINE b == next
           got == txs \o Taken(next)
<1>1. /\ phase = "fetching" /\ TxsOf[b] # << >> /\ cursor' = b /\ Advance(got)
      /\ last' = last /\ faults' = faults /\ head' = head
  BY DEF GetBlock, BlockFound, CursorAfter
<1>2. /\ b \in Blocks /\ txs \in Seq(Txs) /\ Taken(b) \in Seq(Txs)
      /\ TxsOf[b][1] \in Elements(Taken(b))
  BY <1>1, TakenFacts DEF PlaneTypes, TypeOK
<1>3. got \in Seq(Txs) /\ Elements(got) = Elements(txs) \cup Elements(Taken(b))
  BY <1>2, ElementsOfConcat
<1>4. /\ next' = next + 1
      /\ phase' = "fetching" => delivered' = delivered
      /\ delivered' \cup Elements(txs') = delivered \cup Elements(got)
  BY <1>1, <1>3, AdvanceTypes
<1>5. Examined' = b
  BY <1>1, <1>4, ExaminedBefore DEF Examined
<1>6. Unheard(Examined)' \subseteq Unheard(Examined)
  <2>1. Examined = b - 1 /\ b \in Nat /\ b >= 1
    BY <1>1, ExaminedBefore, PlaneConstants
  <2> SUFFICES ASSUME NEW x \in 1..b, TxsOf[x] # << >>,
                      TxsOf[x][1] \notin delivered' \cup Elements(txs')
               PROVE  x \in 1..(b - 1) /\ TxsOf[x][1] \notin delivered \cup Elements(txs)
    BY <1>5, <2>1 DEF Unheard
  <2>2. x # b
    BY <1>2, <1>3, <1>4
  <2> QED
    BY <1>3, <1>4, <2>1, <2>2
<1>7. Cardinality(Unheard(Examined)') <= Cost(faults)
  BY <1>6, UnheardNow, FewerUnheard
<1>8. phase' = "fetching" => \E from \in Nat \ {0} : CycleFrom(from)'
  BY <1>1, <1>4, CycleGoesOn, ExaminedBefore
<1> QED
  BY <1>1, <1>7, <1>8 DEF FaultIInv

LEMMA BlockMissingFaults ==
    ASSUME PlaneTypes, FaultIInv, GetBlock, BlockMissing
    PROVE  FaultIInv'
<1>1. /\ phase = "fetching" /\ cursor' = cursor /\ Advance(txs) /\ last' = last /\ head' = head
      /\ faults' = IF TxsOf[next] = << >> THEN faults ELSE faults + 1
  BY DEF GetBlock, BlockMissing
<1>2. txs \in Seq(Txs) /\ faults \in Nat
  BY PlaneConstants DEF PlaneTypes, TypeOK
<1>3. /\ next' = next + 1
      /\ phase' = "fetching" => delivered' = delivered
      /\ delivered' \cup Elements(txs') = delivered \cup Elements(txs)
  BY <1>1, <1>2, AdvanceTypes
<1>4. \A b \in Nat : Unheard(b)' = Unheard(b)
  BY <1>3 DEF Unheard
<1>5. Cardinality(Unheard(Examined)') <= Cost(faults')
  <2>1. /\ Examined \in Nat /\ Cost(faults) \in Nat /\ faults' \in Nat
        /\ Cost(faults + 1) = Cost(faults) + (MaxBlocks - 1)
        /\ Cardinality(Unheard(Examined)) <= Cost(faults) /\ IsFiniteSet(Unheard(Examined))
    BY <1>1, <1>2, UnheardNow, PlaneConstants
  <2>2. CASE MaxBlocks = 1 \/ phase' # "fetching"
    <3>1. Examined' = cursor /\ cursor \in Nat /\ cursor <= Examined
      BY <1>1, <2>2, ExaminedBefore DEF Examined
    <3>2. Unheard(Examined)' \subseteq Unheard(Examined)
      BY <1>4, <2>1, <3>1 DEF Unheard
    <3>3. Cost(faults) <= Cost(faults')
      BY <1>1, <2>1, PlaneConstants
    <3>4. Cost(faults') \in Int /\ Cardinality(Unheard(Examined)) \in Nat
      BY <2>1, <1>1, UnheardNow, PlaneConstants
    <3>5. Cardinality(Unheard(Examined)) <= Cost(faults')
      BY <2>1, <3>3, <3>4
    <3> QED
      BY <2>1, <3>2, <3>4, <3>5, FewerUnheard
  <2>3. CASE MaxBlocks > 1 /\ phase' = "fetching"
    <3>1. Examined = next - 1 /\ Examined' = next /\ next \in Nat /\ next >= 1
      BY <1>1, <1>3, <2>3, ExaminedBefore DEF Examined
    <3>2. Unheard(Examined)' = Unheard(next)
      BY <1>4, <3>1
    <3>3. CASE TxsOf[next] = << >>
      <4>1. Unheard(next) \subseteq Unheard(Examined)
        BY <3>1, <3>3 DEF Unheard
      <4> QED
        BY <1>1, <2>1, <3>2, <3>3, <4>1, FewerUnheard
    <3>4. CASE TxsOf[next] # << >>
      <4>1. Unheard(next) \subseteq Unheard(Examined) \cup {next}
        BY <3>1 DEF Unheard
      <4>2. Cardinality(Unheard(next)) <= Cost(faults) + 1
        BY <2>1, <4>1, OneMoreUnheard
      <4>3. faults' = faults + 1 /\ Cardinality(Unheard(next)) \in Nat
        BY <1>1, <3>1, <3>4, BlocksUpTo
      <4> QED
        BY <2>1, <2>3, <3>2, <4>2, <4>3, PlaneConstants
    <3> QED
      BY <3>3, <3>4
  <2> QED
    BY <2>2, <2>3, PlaneConstants
<1>6. phase' = "fetching" => \E from \in Nat \ {0} : CycleFrom(from)'
  BY <1>1, <1>2, <1>3, CycleGoesOn
<1> QED
  BY <1>5, <1>6 DEF FaultIInv

\* What is dropped are blocks of this cycle, all but the one whose call raised.
LEMMA BlockRaisesFaults ==
    ASSUME PlaneTypes, FaultIInv, GetBlock, BlockRaises
    PROVE  FaultIInv'
<1>1. /\ phase = "fetching" /\ phase' = "idle" /\ cursor' = cursor /\ txs' = << >>
      /\ faults' = faults + 1 /\ delivered' = delivered
  BY DEF GetBlock, BlockRaises, CursorKept
<1>2. PICK from \in Nat \ {0} : CycleFrom(from)
  BY <1>1 DEF FaultIInv
<1>3. /\ next \in Nat /\ last \in Nat /\ cursor \in Nat /\ faults \in Nat
      /\ cursor < next /\ next <= last /\ last < from + MaxBlocks /\ from <= next
  BY <1>1, <1>2, ExaminedBefore DEF CycleFrom
<1>4. Unheard(Examined)' = Undelivered(cursor)
  <2>1. Elements(txs') = {} /\ Examined' = cursor
    BY <1>1 DEF Elements, Examined
  <2> QED
    BY <1>1, <2>1 DEF Unheard, Undelivered
<1> DEFINE lost == Undelivered(from - 1)
           cycle == from..(next - 1)
<1>5. Undelivered(cursor) \subseteq lost \cup cycle
  BY <1>3 DEF Undelivered
<1>6. IsFiniteSet(lost) /\ Cardinality(lost) \in Nat /\ Cardinality(lost) <= Cost(faults)
  BY <1>2, BlocksUpTo DEF CycleFrom
<1>7. IsFiniteSet(cycle) /\ Cardinality(cycle) \in Nat /\ Cardinality(cycle) <= MaxBlocks - 1
  <2>1. from \in Int /\ next - 1 \in Int
    BY <1>3
  <2>2. IsFiniteSet(cycle) /\ Cardinality(cycle) = IF from > next - 1 THEN 0 ELSE (next - 1) - from + 1
    BY <2>1, FS_Interval
  <2> QED
    BY <1>3, <2>2, PlaneConstants
<1> HIDE DEF lost, cycle
<1>8. /\ IsFiniteSet(lost \cup cycle) /\ Cardinality(lost \cap cycle) \in Nat
      /\ Cardinality(lost \cup cycle)
            = Cardinality(lost) + Cardinality(cycle) - Cardinality(lost \cap cycle)
  <2>1. IsFiniteSet(lost \cap cycle)
    BY <1>6, FS_Subset
  <2> QED
    BY <1>6, <1>7, <2>1, FS_Union, FS_CardinalityType
<1>9. Cost(faults) \in Nat /\ Cost(faults') = Cost(faults) + (MaxBlocks - 1)
  BY <1>1, <1>3, CostGrows
<1>10. Cardinality(lost \cup cycle) <= Cost(faults') /\ Cost(faults') \in Int
  BY <1>6, <1>7, <1>8, <1>9, PlaneConstants
<1>11. Cardinality(Undelivered(cursor)) <= Cost(faults')
  BY <1>5, <1>8, <1>10, FewerUnheard
<1> QED
  BY <1>1, <1>4, <1>11 DEF FaultIInv

LEMMA RouteFaults ==
    ASSUME PlaneTypes, FaultIInv, Route
    PROVE  FaultIInv'
<1>1. /\ phase = "routing" /\ phase' \in {"idle", "routing"} /\ txs' = Tail(txs)
      /\ cursor' = cursor /\ delivered' = delivered /\ faults' = faults
      /\ txs \in Seq(Txs) /\ txs # << >> /\ Elements(txs) \subseteq delivered
  BY DEF Route, chainVars, sourceVars, PlaneTypes, TypeOK
<1>2. Elements(txs') \subseteq delivered
  BY <1>1, ElementsOf
<1>3. Examined' = cursor /\ Examined = cursor
  BY <1>1 DEF Examined
<1>4. Unheard(Examined)' = Unheard(Examined)
  BY <1>1, <1>2, <1>3 DEF Unheard
<1> QED
  BY <1>1, <1>4 DEF FaultIInv

\* A call that finds nothing, raises or lags costs the engine at most MaxBlocks - 1 of the
\* blocks the cursor passes, wherever in a cycle it happens and whatever the blocks hold.
THEOREM FaultsAreCheap == Spec => []FaultsCostFewBlocks
<1>1. Init => FaultIInv
  <2> SUFFICES ASSUME Init PROVE FaultIInv
    OBVIOUS
  <2>1. phase = "idle" /\ Examined = 0 /\ faults = 0
    BY DEF Init, Examined
  <2>2. Unheard(Examined) = {}
    BY <2>1 DEF Unheard
  <2>3. Cost(0) = 0
    BY PlaneConstants DEF Cost
  <2> QED
    BY <2>1, <2>2, <2>3, FS_EmptySet DEF FaultIInv
<1>2. PlaneTypes /\ FaultIInv /\ [Next]_vars => FaultIInv'
  <2> SUFFICES ASSUME PlaneTypes, FaultIInv, [Next]_vars PROVE FaultIInv'
    OBVIOUS
  <2>1. CASE StartCycle
    BY <2>1, StartCycleFaults
  <2>2. CASE GetBlock
    BY <2>2, BlockFoundFaults, BlockMissingFaults, BlockRaisesFaults DEF GetBlock
  <2>3. CASE Route
    BY <2>3, RouteFaults
  <2>4. CASE UNCHANGED <<faults, sourceVars, phase, txs>>
    BY <2>4 DEF sourceVars, FaultIInv, Examined, Unheard, CycleFrom, Undelivered
  <2> QED
    BY <2>1, <2>2, <2>3, <2>4 DEF Next, Cycle, NewBlock, Tick, vars, chainVars
<1>3. PlaneTypes /\ FaultIInv => FaultsCostFewBlocks
  <2> SUFFICES ASSUME PlaneTypes, FaultIInv PROVE FaultsCostFewBlocks
    OBVIOUS
  <2>1. Unheard(cursor) \subseteq Unheard(Examined)
    BY UnheardNow DEF Unheard
  <2>2. Cardinality(Unheard(cursor)) <= Cost(faults)
    BY <2>1, UnheardNow, FewerUnheard
  <2> QED
    BY <2>2 DEF FaultsCostFewBlocks, Cost
<1> QED
  BY <1>1, <1>2, <1>3, InitPlaneTypes, NextPlaneTypes, PTL DEF Spec

-----------------------------------------------------------------------------
(* The RPC provider: selection.                                            *)

LEMMA ProviderConstants ==
    /\ N \in Nat /\ N >= 1 /\ Nobody \notin Nat
    /\ Threshold \in Nat /\ Threshold >= 1 /\ Cooldown \in Nat /\ Cooldown >= 1
    /\ MaxRetries \in Nat /\ MaxRetries >= 1
    /\ \A e \in Endpoints : e \in Nat /\ e >= 1 /\ e <= N /\ e # Nobody
  BY ProviderAssumption DEF Endpoints

Ahead(S, e) == {f \in S : Before(f, e)}

LEMMA ScoreOf ==
    ASSUME ProviderTypeOK, NEW e \in Endpoints
    PROVE  /\ Score[health[e]] \in 0..3
           /\ health[e] = "unhealthy" <=> Score[health[e]] = 0
<1>1. health[e] \in {"healthy", "degraded", "unknown", "unhealthy"}
  BY DEF ProviderTypeOK, Healths
<1> QED
  BY <1>1 DEF Score

\* The sorted list is a strict total order of the endpoints.
LEMMA BeforeIsTotal ==
    ASSUME ProviderTypeOK, NEW e \in Endpoints, NEW f \in Endpoints, NEW g \in Endpoints
    PROVE  /\ ~Before(e, e)
           /\ Before(e, f) => ~Before(f, e)
           /\ e # f => Before(e, f) \/ Before(f, e)
           /\ Before(e, f) /\ Before(f, g) => Before(e, g)
  BY ScoreOf, ProviderConstants DEF Before

LEMMA FewAhead ==
    ASSUME ProviderTypeOK, NEW S \in SUBSET Endpoints, NEW e \in S
    PROVE  /\ IsFiniteSet(S) /\ Cardinality(S) \in Nat /\ Cardinality(S) >= 1
           /\ IsFiniteSet(Ahead(S, e)) /\ Cardinality(Ahead(S, e)) \in 0..(Cardinality(S) - 1)
<1>1. IsFiniteSet(S) /\ Cardinality(S) \in Nat
  BY ProviderConstants, SubsetOfInterval DEF Endpoints
<1>2. Ahead(S, e) \in SUBSET (S \ {e})
  BY BeforeIsTotal DEF Ahead
<1>3. IsFiniteSet(S \ {e}) /\ Cardinality(S \ {e}) = Cardinality(S) - 1
  BY <1>1, FS_RemoveElement
<1>4. Cardinality(S \ {e}) \in Nat
  BY <1>3, FS_CardinalityType
<1>5. IsFiniteSet(Ahead(S, e)) /\ Cardinality(Ahead(S, e)) <= Cardinality(S \ {e})
  BY <1>2, <1>3, FS_Subset
<1>6. Cardinality(Ahead(S, e)) \in Nat
  BY <1>5, FS_CardinalityType
<1> QED
  BY <1>1, <1>3, <1>4, <1>5, <1>6

LEMMA AheadOrders ==
    ASSUME ProviderTypeOK, NEW S \in SUBSET Endpoints, NEW e \in S, NEW f \in S, Before(e, f)
    PROVE  Cardinality(Ahead(S, e)) # Cardinality(Ahead(S, f))
<1>1. Ahead(S, e) \cup {e} \in SUBSET Ahead(S, f)
  BY BeforeIsTotal DEF Ahead
<1>2. e \notin Ahead(S, e)
  BY BeforeIsTotal DEF Ahead
<1>3. /\ IsFiniteSet(Ahead(S, e)) /\ IsFiniteSet(Ahead(S, f))
      /\ Cardinality(Ahead(S, e)) \in Nat /\ Cardinality(Ahead(S, f)) \in Nat
  BY FewAhead, FS_CardinalityType
<1>4. Cardinality(Ahead(S, e) \cup {e}) = Cardinality(Ahead(S, e)) + 1
  BY <1>2, <1>3, FS_AddElement
<1>5. Cardinality(Ahead(S, e) \cup {e}) <= Cardinality(Ahead(S, f))
  BY <1>1, <1>3, FS_Subset
<1> QED
  BY <1>3, <1>4, <1>5

\* Every place in the list has its endpoint: as many places as endpoints, no two of which
\* share one.
LEMMA NthExists ==
    ASSUME ProviderTypeOK, NEW S \in SUBSET Endpoints, NEW k \in 0..(Cardinality(S) - 1)
    PROVE  Nth(S, k) \in S /\ Cardinality(Ahead(S, Nth(S, k))) = k
<1> DEFINE places == 0..(Cardinality(S) - 1)
           r == [e \in S |-> Cardinality(Ahead(S, e))]
<1>1. IsFiniteSet(S) /\ Cardinality(S) \in Nat
  BY ProviderConstants, SubsetOfInterval DEF Endpoints
<1>2. IsFiniteSet(places) /\ Cardinality(places) = Cardinality(S)
  <2>1. PICK n \in Nat : n = Cardinality(S)
    BY <1>1
  <2>2. n - 1 \in Int /\ 0 \in Int
    OBVIOUS
  <2>3. IsFiniteSet(0..(n - 1)) /\ Cardinality(0..(n - 1)) = IF 0 > n - 1 THEN 0 ELSE (n - 1) - 0 + 1
    BY <2>2, FS_Interval
  <2> QED
    BY <2>1, <2>3
<1>3. r \in [S -> places]
  BY FewAhead
<1>4. \A e, f \in S : r[e] = r[f] => e = f
  BY AheadOrders, BeforeIsTotal
<1>5. r \in Injection(S, places)
  BY <1>3, <1>4 DEF Injection, IsInjective
<1>6. r \in Surjection(S, places)
  BY <1>1, <1>2, <1>5, FS_Injection
<1>7. \E e \in S : r[e] = k
  BY <1>6 DEF Surjection
<1>8. \E e \in S : Cardinality(Ahead(S, e)) = k
  BY <1>7
<1> QED
  BY <1>8 DEF Nth, Ahead

LEMMA NextIndexFits ==
    ASSUME ProviderTypeOK, NEW S \in SUBSET Endpoints, S # {}
    PROVE  NextIndex(S) \in 0..(Cardinality(S) - 1) /\ NextIndex(S) \in 0..(N - 1)
<1>1. Cardinality(S) \in Nat /\ Cardinality(S) >= 1 /\ Cardinality(S) <= N
  <2>1. IsFiniteSet(Endpoints) /\ Cardinality(Endpoints) = N
    BY ProviderConstants, FS_Interval DEF Endpoints
  <2> QED
    BY <2>1, FewAhead, FS_Subset
<1>2. index \in Nat
  BY ProviderConstants DEF ProviderTypeOK
<1> QED
  BY <1>1, <1>2, ProviderConstants DEF NextIndex

-----------------------------------------------------------------------------
(* The RPC provider: types.                                                *)

\* A request that is under way has its endpoint, and one that is to be repeated a try left.
CallSound(c) ==
    /\ pc[c] = "waiting" => endpoint[c] \in Endpoints
    /\ pc[c] = "sleeping" => attempt[c] < MaxRetries

ProviderSound == ProviderTypeOK /\ \A c \in Callers : CallSound(c)

\* A selection asks an endpoint, which is one of the list.
LEMMA SelectAsks ==
    ASSUME ProviderSound, NEW c \in Callers, ~InCall(c) \/ pc[c] = "sleeping", Select(c)
    PROVE  \E e \in Endpoints :
              /\ Ask(c, e)
              /\ \/ /\ Available # {} /\ e \in Available /\ UNCHANGED stats
                    /\ index' = NextIndex(Available) /\ index' \in 0..(Cardinality(Available) - 1)
                    /\ Cardinality(Ahead(Available, e)) = index'
                 \/ /\ Available = {} /\ e \in Earliest /\ index' = 0
                    /\ health' = [health EXCEPT ![e] = "unknown"]
                    /\ cooling' = [cooling EXCEPT ![e] = 0]
                    /\ resting' = resting \ {e} /\ UNCHANGED failures
<1>1. ProviderTypeOK /\ Available \in SUBSET Endpoints
  BY DEF ProviderSound, Available
<1>2. CASE Available # {} /\ index' = NextIndex(Available) /\ Ask(c, Nth(Available, index'))
           /\ UNCHANGED stats
  <2>1. index' \in 0..(Cardinality(Available) - 1)
    BY <1>1, <1>2, NextIndexFits
  <2> DEFINE e == Nth(Available, index')
  <2>2. e \in Available /\ Cardinality(Ahead(Available, e)) = index'
    BY <1>1, <2>1, NthExists
  <2> QED
    BY <1>1, <1>2, <2>1, <2>2
<1>3. ASSUME Available = {}, index' = 0, NEW e \in Earliest,
             health' = [health EXCEPT ![e] = "unknown"], cooling' = [cooling EXCEPT ![e] = 0],
             resting' = resting \ {e}, Ask(c, e), UNCHANGED failures
      PROVE  \E g \in Endpoints : g = e
  BY <1>3 DEF Earliest
<1> QED
  BY <1>2, <1>3 DEF Select

LEMMA SelectTyped ==
    ASSUME ProviderSound, NEW c \in Callers, ~InCall(c) \/ pc[c] = "sleeping", Select(c)
    PROVE  /\ health' \in [Endpoints -> Healths] /\ failures' \in [Endpoints -> 0..Threshold]
           /\ cooling' \in [Endpoints -> 0..Cooldown] /\ index' \in 0..(N - 1)
           /\ pc' \in [Callers -> {"idle", "waiting", "sleeping", "raised"}]
           /\ attempt' \in [Callers -> 0..MaxRetries]
           /\ endpoint' \in [Callers -> Endpoints \cup {Nobody}]
           /\ resting' \subseteq Endpoints
           /\ \A d \in Callers : CallSound(d)'
<1> USE ProviderConstants
<1>1. PICK e \in Endpoints :
              /\ Ask(c, e)
              /\ \/ /\ Available # {} /\ e \in Available /\ UNCHANGED stats
                    /\ index' = NextIndex(Available) /\ index' \in 0..(Cardinality(Available) - 1)
                 \/ /\ Available = {} /\ index' = 0
                    /\ health' = [health EXCEPT ![e] = "unknown"]
                    /\ cooling' = [cooling EXCEPT ![e] = 0]
                    /\ resting' = resting \ {e} /\ UNCHANGED failures
  BY SelectAsks
<1>2. ProviderTypeOK /\ Available \in SUBSET Endpoints
  BY DEF ProviderSound, Available
<1>3. index' \in 0..(N - 1)
  BY <1>1, <1>2, NextIndexFits
<1>4. /\ health' \in [Endpoints -> Healths] /\ failures' \in [Endpoints -> 0..Threshold]
      /\ cooling' \in [Endpoints -> 0..Cooldown] /\ resting' \subseteq Endpoints
  BY <1>1, <1>2 DEF ProviderTypeOK, Healths, stats
<1>5. (IF pc[c] = "sleeping" THEN attempt[c] + 1 ELSE 1) \in 0..MaxRetries
  BY <1>2 DEF ProviderSound, CallSound, ProviderTypeOK
<1>6. /\ pc' \in [Callers -> {"idle", "waiting", "sleeping", "raised"}]
      /\ attempt' \in [Callers -> 0..MaxRetries]
      /\ endpoint' \in [Callers -> Endpoints \cup {Nobody}]
  BY <1>1, <1>2, <1>5 DEF Ask, ProviderTypeOK
<1>7. \A d \in Callers : CallSound(d)'
  BY <1>1, <1>2 DEF Ask, ProviderTypeOK, ProviderSound, CallSound
<1> QED
  BY <1>3, <1>4, <1>6, <1>7

LEMMA BeginSound ==
    ASSUME ProviderSound, NEW c \in Callers, Begin(c)
    PROVE  ProviderSound'
<1> USE ProviderConstants
<1>1. ~InCall(c) /\ Select(c)
  BY DEF Begin
<1>2. Available \in SUBSET Endpoints
  BY DEF Available
<1>3. /\ tried' \in [Callers -> SUBSET Endpoints] /\ ready' \in [Callers -> SUBSET Endpoints]
  BY <1>2 DEF Begin, ProviderSound, ProviderTypeOK
<1>4. alone' \in [Callers -> BOOLEAN]
  <2> DEFINE others == {d \in Callers \ {c} : InCall(d)}
  <2>1. alone' = [d \in Callers |-> IF d = c THEN others = {} ELSE alone[d] /\ d \notin others]
    BY DEF Begin
  <2>2. \A d \in Callers : (IF d = c THEN others = {} ELSE alone[d] /\ d \notin others) \in BOOLEAN
    BY DEF ProviderSound, ProviderTypeOK
  <2> QED
    BY <2>1, <2>2
<1>5. ProviderTypeOK'
  BY <1>1, <1>3, <1>4, SelectTyped DEF ProviderTypeOK
<1> QED
  BY <1>1, <1>5, SelectTyped DEF ProviderSound

LEMMA RetrySound ==
    ASSUME ProviderSound, NEW c \in Callers, Retry(c)
    PROVE  ProviderSound'
<1>1. pc[c] = "sleeping" /\ Select(c) /\ UNCHANGED <<tried, ready, alone>>
  BY DEF Retry, aux
<1>2. ProviderTypeOK'
  BY <1>1, SelectTyped DEF ProviderSound, ProviderTypeOK
<1> QED
  BY <1>1, <1>2, SelectTyped DEF ProviderSound

LEMMA AnswerSound ==
    ASSUME ProviderSound, NEW c \in Callers, NEW speed \in {"healthy", "degraded"},
           Answer(c, speed)
    PROVE  ProviderSound'
<1> USE ProviderConstants
<1>1. endpoint[c] \in Endpoints
  BY DEF Answer, ProviderSound, CallSound
<1>2. ProviderTypeOK'
  BY <1>1 DEF ProviderSound, ProviderTypeOK, Answer, Leave, Finish, Healths
<1>3. \A d \in Callers : CallSound(d)'
  BY DEF ProviderSound, ProviderTypeOK, CallSound, Answer, Leave, Finish
<1> QED
  BY <1>2, <1>3 DEF ProviderSound

LEMMA FailSound ==
    ASSUME ProviderSound, NEW c \in Callers, NEW kind \in {"error", "server", "timeout"},
           Fail(c, kind)
    PROVE  ProviderSound'
<1> USE ProviderConstants
<1> DEFINE e == endpoint[c]
           count == failures[e] + Counted(kind)
<1>1. e \in Endpoints
  BY DEF Fail, ProviderSound, CallSound
<1>2. count \in Nat
  BY <1>1 DEF ProviderSound, ProviderTypeOK, Counted
<1>3. failures' \in [Endpoints -> 0..Threshold]
  BY <1>1, <1>2 DEF ProviderSound, ProviderTypeOK, Fail
<1>4. /\ health' \in [Endpoints -> Healths] /\ cooling' \in [Endpoints -> 0..Cooldown]
      /\ resting' \subseteq Endpoints
  BY <1>1 DEF ProviderSound, ProviderTypeOK, Fail, Healths
<1>5. /\ pc' \in [Callers -> {"idle", "waiting", "sleeping", "raised"}]
      /\ attempt' \in [Callers -> 0..MaxRetries]
      /\ endpoint' \in [Callers -> Endpoints \cup {Nobody}]
      /\ index' \in 0..(N - 1)
  BY DEF ProviderSound, ProviderTypeOK, Fail, Finish
<1>6. /\ tried' \in [Callers -> SUBSET Endpoints] /\ ready' \in [Callers -> SUBSET Endpoints]
      /\ alone' \in [Callers -> BOOLEAN]
  BY <1>1 DEF ProviderSound, ProviderTypeOK, Fail
<1>7. \A d \in Callers : CallSound(d)'
  BY DEF ProviderSound, ProviderTypeOK, CallSound, Fail, Finish
<1> QED
  BY <1>3, <1>4, <1>5, <1>6, <1>7 DEF ProviderSound, ProviderTypeOK

LEMMA AbandonSound ==
    ASSUME ProviderSound, NEW c \in Callers, Abandon(c)
    PROVE  ProviderSound'
<1> USE ProviderConstants
<1>1. ProviderTypeOK'
  BY DEF ProviderSound, ProviderTypeOK, Abandon, Leave, Finish, stats
<1>2. \A d \in Callers : CallSound(d)'
  BY DEF ProviderSound, ProviderTypeOK, CallSound, Abandon, Leave, Finish
<1> QED
  BY <1>1, <1>2 DEF ProviderSound

LEMMA CoolDownSound ==
    ASSUME ProviderSound, CoolDown
    PROVE  ProviderSound'
<1> USE ProviderConstants
<1>1. cooling' \in [Endpoints -> 0..Cooldown]
  BY DEF ProviderSound, ProviderTypeOK, CoolDown
<1> QED
  BY <1>1 DEF ProviderSound, ProviderTypeOK, CallSound, CoolDown, aux

\* Of every reachable state of the provider: the endpoint of a request is one of the list,
\* and the calls, cooldowns and counts stay within the retries, the cooldown and the
\* threshold (rpc_client.py).
THEOREM ProviderAlwaysSound == ProviderSpec => []ProviderSound
<1>1. ProviderInit => ProviderSound
  BY ProviderConstants DEF ProviderInit, ProviderSound, ProviderTypeOK, CallSound, Healths
<1>2. ProviderSound /\ [ProviderNext]_providerVars => ProviderSound'
  <2> SUFFICES ASSUME ProviderSound, [ProviderNext]_providerVars
               PROVE  ProviderSound'
    OBVIOUS
  <2>1. ASSUME NEW c \in Callers, Begin(c) PROVE ProviderSound'
    BY <2>1, BeginSound
  <2>2. ASSUME NEW c \in Callers, Retry(c) PROVE ProviderSound'
    BY <2>2, RetrySound
  <2>3. ASSUME NEW c \in Callers, Ends(c) PROVE ProviderSound'
    BY <2>3, AnswerSound, FailSound DEF Ends
  <2>4. ASSUME NEW c \in Callers, Abandon(c) PROVE ProviderSound'
    BY <2>4, AbandonSound
  <2>5. CASE CoolDown
    BY <2>5, CoolDownSound
  <2>6. CASE UNCHANGED providerVars
    BY <2>6 DEF ProviderSound, ProviderTypeOK, CallSound, providerVars, stats, aux
  <2> QED
    BY <2>1, <2>2, <2>3, <2>4, <2>5, <2>6 DEF ProviderNext
<1> QED
  BY <1>1, <1>2, PTL DEF ProviderSpec

\* The types of the provider's state, for every number of endpoints and callers.
THEOREM ProviderTypeCorrect == ProviderSpec => []ProviderTypeOK
<1>1. ProviderSound => ProviderTypeOK
  BY DEF ProviderSound
<1> QED
  BY <1>1, ProviderAlwaysSound, PTL

-----------------------------------------------------------------------------
(* The RPC provider: cooldowns.                                            *)

\* An endpoint that rests is unhealthy, and one in a cooldown rests unless it has answered
\* since: an answer makes it healthy but does not end its cooldown.
RestSound ==
    \A e \in Endpoints :
        /\ e \in resting => health[e] = "unhealthy"
        /\ cooling[e] > 0 => e \in resting \/ health[e] \in {"healthy", "degraded"}

LEMMA SelectRests ==
    ASSUME ProviderSound, RestSound, NEW c \in Callers, ~InCall(c) \/ pc[c] = "sleeping",
           Select(c)
    PROVE  RestSound'
<1> USE ProviderConstants
<1>1. PICK e \in Endpoints :
         \/ UNCHANGED stats
         \/ /\ health' = [health EXCEPT ![e] = "unknown"]
            /\ cooling' = [cooling EXCEPT ![e] = 0] /\ resting' = resting \ {e}
  BY SelectAsks
<1> QED
  BY <1>1 DEF RestSound, ProviderSound, ProviderTypeOK, stats

LEMMA FailRests ==
    ASSUME ProviderSound, RestSound, NEW c \in Callers,
           NEW kind \in {"error", "server", "timeout"}, Fail(c, kind)
    PROVE  RestSound'
<1> USE ProviderConstants
<1> DEFINE e == endpoint[c]
<1>1. e \in Endpoints
  BY DEF Fail, ProviderSound, CallSound
<1>2. CASE UNCHANGED <<health, cooling, resting>>
  BY <1>2 DEF RestSound
<1>3. CASE /\ health' = [health EXCEPT ![e] = "unhealthy"]
           /\ cooling' = [cooling EXCEPT ![e] = Cooldown]
           /\ resting' = resting \cup {e}
  BY <1>1, <1>3 DEF RestSound, ProviderSound, ProviderTypeOK
<1> QED
  BY <1>2, <1>3 DEF Fail

LEMMA AnswerRests ==
    ASSUME ProviderSound, RestSound, NEW c \in Callers, NEW speed \in {"healthy", "degraded"},
           Answer(c, speed)
    PROVE  RestSound'
<1>1. endpoint[c] \in Endpoints
  BY DEF Answer, ProviderSound, CallSound
<1> QED
  BY <1>1, ProviderConstants DEF RestSound, ProviderSound, ProviderTypeOK, Answer

LEMMA CoolDownRests ==
    ASSUME ProviderSound, RestSound, CoolDown
    PROVE  RestSound'
  BY ProviderConstants DEF RestSound, ProviderSound, ProviderTypeOK, CoolDown

\* rpc_client.py:78: in every reachable state an endpoint that rests is unhealthy, and one
\* whose cooldown is not over rests unless it has answered since.
THEOREM RestsAreSound == ProviderSpec => []RestSound
<1>1. ProviderInit => RestSound
  BY DEF ProviderInit, RestSound
<1>2. ProviderSound /\ RestSound /\ [ProviderNext]_providerVars => RestSound'
  <2> SUFFICES ASSUME ProviderSound, RestSound, [ProviderNext]_providerVars
               PROVE  RestSound'
    OBVIOUS
  <2>1. ASSUME NEW c \in Callers, Begin(c) \/ Retry(c) PROVE RestSound'
    BY <2>1, SelectRests DEF Begin, Retry
  <2>2. ASSUME NEW c \in Callers, Ends(c) PROVE RestSound'
    BY <2>2, AnswerRests, FailRests DEF Ends
  <2>3. ASSUME NEW c \in Callers, Abandon(c) PROVE RestSound'
    BY <2>3 DEF Abandon, stats, RestSound
  <2>4. CASE CoolDown
    BY <2>4, CoolDownRests
  <2>5. CASE UNCHANGED providerVars
    BY <2>5 DEF RestSound, providerVars, stats
  <2> QED
    BY <2>1, <2>2, <2>3, <2>4, <2>5 DEF ProviderNext
<1> QED
  BY <1>1, <1>2, ProviderAlwaysSound, PTL DEF ProviderSpec

\* Only a selection gives a caller an endpoint.
LEMMA OnlySelectionAsks ==
    ASSUME ProviderSound, [ProviderNext]_providerVars, NEW c \in Callers, NEW e \in Endpoints,
           endpoint'[c] = e, endpoint[c] # e
    PROVE  (~InCall(c) \/ pc[c] = "sleeping") /\ Select(c)
<1> USE ProviderConstants DEF ProviderSound, ProviderTypeOK
<1>1. ASSUME NEW d \in Callers, Begin(d) \/ Retry(d)
      PROVE  (~InCall(c) \/ pc[c] = "sleeping") /\ Select(c)
  <2>1. Select(d) /\ (~InCall(d) \/ pc[d] = "sleeping")
    BY <1>1 DEF Begin, Retry
  <2>2. PICK g \in Endpoints : Ask(d, g)
    BY <2>1, SelectAsks
  <2>3. d = c
    BY <2>2 DEF Ask
  <2> QED
    BY <2>1, <2>3
<1>2. ASSUME NEW d \in Callers, Ends(d) \/ Abandon(d)
      PROVE  FALSE
  BY <1>2 DEF Ends, Answer, Fail, Abandon, Leave, Finish
<1>3. CASE CoolDown \/ UNCHANGED providerVars
  BY <1>3 DEF CoolDown, providerVars
<1> QED
  BY <1>1, <1>2, <1>3 DEF ProviderNext

LEMMA AskedHasRested ==
    ASSUME ProviderSound, RestSound, NEW c \in Callers, NEW e \in Endpoints,
           ~InCall(c) \/ pc[c] = "sleeping", Select(c), endpoint'[c] = e,
           e \in resting, cooling[e] > 0, NEW f \in Endpoints
    PROVE  f \in resting /\ cooling[f] >= cooling[e]
<1> USE ProviderConstants DEF ProviderSound, ProviderTypeOK
<1>1. PICK g \in Endpoints :
         Ask(c, g) /\ (g \in Available \/ (Available = {} /\ g \in Earliest))
  BY SelectAsks
<1>2. g = e
  BY <1>1 DEF Ask
<1>3. e \notin Available
  BY DEF RestSound, Available
<1>4. \A h \in Endpoints : health[h] \notin {"healthy", "degraded"} /\ cooling[h] # 0
  BY <1>1, <1>2, <1>3 DEF Available
<1>5. f \in resting
  BY <1>4 DEF RestSound
<1>6. cooling[f] >= cooling[e]
  BY <1>1, <1>2, <1>3 DEF Earliest
<1> QED
  BY <1>5, <1>6

\* rpc_client.py:145: of every number of endpoints, a request goes to one in its cooldown
\* only when all are cooling down, and then to one whose cooldown ends first.
THEOREM ColdEndpointsRest == ProviderSpec => CoolingRests
<1>1. ProviderSound /\ RestSound /\ [ProviderNext]_providerVars =>
          [\A c \in Callers : \A e \in Endpoints :
              endpoint'[c] = e /\ endpoint[c] # e /\ e \in resting /\ cooling[e] > 0 =>
                  \A f \in Endpoints : f \in resting /\ cooling[f] >= cooling[e]]_providerVars
  BY OnlySelectionAsks, AskedHasRested
<1> QED
  BY <1>1, ProviderAlwaysSound, RestsAreSound, PTL DEF ProviderSpec, CoolingRests

-----------------------------------------------------------------------------
(* The RPC provider: failover of a call that no other overlaps.            *)

\* The index is the place of e in the list of all endpoints.
Rotates(e) == index = Cardinality(Ahead(Endpoints, e))

OthersReady(e) == Endpoints \ {e} \subseteq Available

\* Either the request is the last that is needed, or the index points at its endpoint and
\* the next one will go elsewhere, unless the failure moves the endpoint in the list: after
\* that it is unhealthy, and a second failure does not move it.
LoneWaiting(c) ==
    LET e == endpoint[c]
    IN  \/ ready[c] \subseteq tried[c] \cup {e}
        \/ /\ OthersReady(e) /\ Rotates(e)
           /\ \/ attempt[c] = 1 /\ tried[c] = {}
              \/ attempt[c] = 2 /\ tried[c] = {e} /\ health[e] = "unhealthy"

LoneSleeping(c) ==
    \/ ready[c] \subseteq tried[c]
    \/ \E e \in Endpoints :
          /\ tried[c] = {e} /\ OthersReady(e) /\ attempt[c] \in {1, 2}
          /\ \/ Rotates(e)
             \/ attempt[c] = 1 /\ health[e] = "unhealthy"

LoneCall(c) ==
    /\ InCall(c) => \A d \in Callers \ {c} : ~InCall(d)
    /\ pc[c] = "waiting" => LoneWaiting(c)
    /\ pc[c] = "sleeping" => LoneSleeping(c)
    /\ pc[c] = "raised" => ready[c] \subseteq tried[c]

LoneSound == \A c \in Callers : alone[c] => LoneCall(c)

LEMMA RotatesKept ==
    ASSUME NEW e \in Endpoints, UNCHANGED <<health, index>>
    PROVE  Rotates(e)' <=> Rotates(e)
<1>1. Ahead(Endpoints, e)' = Ahead(Endpoints, e)
  BY DEF Ahead, Before
<1> QED
  BY <1>1 DEF Rotates

LEMMA HowMany == IsFiniteSet(Endpoints) /\ Cardinality(Endpoints) = N
<1>1. 1 \in Int /\ N \in Int
  BY ProviderConstants
<1> QED
  BY <1>1, ProviderConstants, FS_Interval DEF Endpoints

\* A call of its own, before its first request.
LEMMA LoneBegins ==
    ASSUME N <= 2, ProviderSound, NEW c \in Callers, Begin(c), alone'[c]
    PROVE  LoneCall(c)'
<1> USE ProviderConstants
<1>1. ~InCall(c) /\ Select(c)
  BY DEF Begin
<1>2. PICK e \in Endpoints :
         /\ Ask(c, e)
         /\ \/ /\ Available # {} /\ e \in Available /\ UNCHANGED stats
               /\ Cardinality(Ahead(Available, e)) = index'
            \/ Available = {}
  BY <1>1, SelectAsks
<1>3. /\ pc' = [pc EXCEPT ![c] = "waiting"] /\ endpoint'[c] = e
      /\ attempt'[c] = 1 /\ tried'[c] = {} /\ ready'[c] = Available
  BY <1>1, <1>2 DEF Ask, InCall, Begin, ProviderSound, ProviderTypeOK
<1>4. \A d \in Callers \ {c} : ~InCall(d)'
  <2>1. alone'[c] = ({d \in Callers \ {c} : InCall(d)} = {})
    BY DEF Begin
  <2> QED
    BY <1>3, <2>1 DEF InCall, ProviderSound, ProviderTypeOK
<1>5. LoneWaiting(c)'
  <2>1. CASE Available \subseteq {e}
    BY <1>3, <2>1 DEF LoneWaiting
  <2>2. CASE ~(Available \subseteq {e})
    <3>1. Available = Endpoints
      BY <1>2, <2>2 DEF Available, Endpoints
    <3>2. Ahead(Endpoints, e)' = Ahead(Endpoints, e) /\ Available' = Available
      BY <1>2, <2>2 DEF Ahead, Before, Available, stats
    <3>3. Rotates(e)' /\ OthersReady(e)'
      BY <1>2, <2>2, <3>1, <3>2 DEF Rotates, OthersReady
    <3> QED
      BY <1>3, <3>3 DEF LoneWaiting
  <2> QED
    BY <2>1, <2>2
<1>6. pc'[c] = "waiting"
  BY <1>3 DEF ProviderSound, ProviderTypeOK
<1> QED
  BY <1>4, <1>5, <1>6 DEF LoneCall

LEMMA LoneRetries ==
    ASSUME N <= 2, ProviderSound, NEW c \in Callers, Retry(c), LoneSleeping(c)
    PROVE  LoneWaiting(c)'
<1> USE ProviderConstants
<1>1. pc[c] = "sleeping" /\ Select(c) /\ UNCHANGED <<tried, ready, alone>>
  BY DEF Retry, aux
<1>2. PICK g \in Endpoints :
         /\ Ask(c, g)
         /\ \/ /\ Available # {} /\ g \in Available /\ UNCHANGED stats
               /\ index' = NextIndex(Available)
               /\ Cardinality(Ahead(Available, g)) = index'
            \/ Available = {} /\ g \in Earliest
  BY <1>1, SelectAsks
<1>3. endpoint'[c] = g /\ attempt'[c] = attempt[c] + 1
  BY <1>1, <1>2 DEF Ask, ProviderSound, ProviderTypeOK
<1>4. ready[c] \subseteq Endpoints
  BY DEF ProviderSound, ProviderTypeOK
<1>5. CASE ready[c] \subseteq tried[c]
  BY <1>1, <1>5 DEF LoneWaiting
<1>6. ASSUME NEW e \in Endpoints, tried[c] = {e}, OthersReady(e), attempt[c] \in {1, 2},
             \/ Rotates(e)
             \/ attempt[c] = 1 /\ health[e] = "unhealthy"
      PROVE  LoneWaiting(c)'
  <2>1. CASE g # e \/ N = 1
    <3>1. Endpoints \subseteq {e, g}
      BY <2>1 DEF Endpoints
    <3> QED
      BY <1>1, <1>3, <1>4, <1>6, <3>1 DEF LoneWaiting
  <2>2. CASE g = e /\ N = 2
    <3>1. Available = Endpoints /\ UNCHANGED stats
      <4>1. Endpoints \ {e} # {}
        BY <2>2 DEF Endpoints
      <4>2. Available # {}
        BY <1>6, <4>1 DEF OthersReady
      <4> QED
        BY <1>2, <1>6, <2>2, <4>2 DEF OthersReady, Available
    <3>2. /\ index' = (index + 1) % 2 /\ index \in 0..1
          /\ Cardinality(Ahead(Endpoints, e)) = index'
      BY <1>2, <2>2, <3>1, HowMany DEF NextIndex, ProviderSound, ProviderTypeOK
    <3>3. ~Rotates(e)
      BY <3>2 DEF Rotates
    <3>4. attempt'[c] = 2 /\ health'[e] = "unhealthy"
      BY <1>3, <1>6, <3>1, <3>3 DEF stats
    <3>5. Ahead(Endpoints, e)' = Ahead(Endpoints, e) /\ Available' = Available
      BY <3>1 DEF Ahead, Before, Available, stats
    <3>6. Rotates(e)' /\ OthersReady(e)'
      BY <1>6, <3>2, <3>5 DEF Rotates, OthersReady
    <3> QED
      BY <1>1, <1>3, <1>6, <2>2, <3>4, <3>6 DEF LoneWaiting
  <2> QED
    BY <2>1, <2>2
<1> QED
  BY <1>5, <1>6 DEF LoneSleeping

LEMMA LoneFails ==
    ASSUME MaxRetries >= 3, ProviderSound, NEW c \in Callers,
           NEW kind \in {"error", "server", "timeout"}, Fail(c, kind), LoneWaiting(c)
    PROVE  /\ pc'[c] = "sleeping" => LoneSleeping(c)'
           /\ pc'[c] = "raised" => ready'[c] \subseteq tried'[c]
<1> USE ProviderConstants
<1>1. PICK e \in Endpoints : e = endpoint[c]
  BY DEF Fail, ProviderSound, CallSound
<1>2. /\ tried'[c] = tried[c] \cup {e} /\ UNCHANGED <<index, attempt, ready>>
      /\ pc'[c] = IF attempt[c] < MaxRetries THEN "sleeping" ELSE "raised"
  BY <1>1 DEF Fail, Finish, ProviderSound, ProviderTypeOK
<1>3. CASE ready[c] \subseteq tried[c] \cup {e}
  BY <1>2, <1>3 DEF LoneSleeping
<1>4. CASE /\ OthersReady(e) /\ Rotates(e)
           /\ \/ attempt[c] = 1 /\ tried[c] = {}
              \/ attempt[c] = 2 /\ tried[c] = {e} /\ health[e] = "unhealthy"
  <2>1. attempt'[c] \in {1, 2} /\ tried'[c] = {e} /\ pc'[c] = "sleeping"
    BY <1>2, <1>4
  <2>2. \/ UNCHANGED <<health, cooling>>
        \/ /\ health' = [health EXCEPT ![e] = "unhealthy"]
           /\ cooling' = [cooling EXCEPT ![e] = Cooldown]
    BY <1>1 DEF Fail
  <2>3. OthersReady(e)'
    <3>1. \A f \in Endpoints \ {e} : health'[f] = health[f] /\ cooling'[f] = cooling[f]
      BY <1>1, <2>2 DEF ProviderSound, ProviderTypeOK
    <3> QED
      BY <1>4, <3>1 DEF OthersReady, Available
  <2>4. health' = health \/ health'[e] = "unhealthy"
    BY <1>1, <2>2 DEF ProviderSound, ProviderTypeOK
  <2>5. attempt[c] = 2 => health' = health
    BY <1>1, <1>4, <2>2 DEF ProviderSound, ProviderTypeOK
  <2>6. \/ Rotates(e)'
        \/ attempt'[c] = 1 /\ health'[e] = "unhealthy"
    <3>1. CASE health' = health
      BY <1>1, <1>2, <1>4, <3>1, RotatesKept
    <3> QED
      BY <1>2, <2>1, <2>4, <2>5, <3>1
  <2> QED
    BY <1>1, <2>1, <2>3, <2>6 DEF LoneSleeping
<1> QED
  BY <1>1, <1>3, <1>4 DEF LoneWaiting

LEMMA LoneCoolsDown ==
    ASSUME ProviderSound, NEW c \in Callers, CoolDown, LoneCall(c)
    PROVE  LoneCall(c)'
<1> USE ProviderConstants
<1>1. UNCHANGED <<health, index, pc, attempt, endpoint, tried, ready>>
  BY DEF CoolDown, aux
<1>2. Available \subseteq Available'
  BY DEF CoolDown, Available, ProviderSound, ProviderTypeOK
<1>3. \A e \in Endpoints : (Rotates(e) => Rotates(e)') /\ (OthersReady(e) => OthersReady(e)')
  BY <1>1, <1>2, RotatesKept DEF OthersReady
<1>4. pc[c] = "waiting" => LoneWaiting(c)'
  <2> SUFFICES ASSUME pc[c] = "waiting" PROVE LoneWaiting(c)'
    OBVIOUS
  <2>1. endpoint[c] \in Endpoints /\ LoneWaiting(c)
    BY DEF ProviderSound, CallSound, LoneCall
  <2> QED
    BY <1>1, <1>3, <2>1 DEF LoneWaiting
<1>5. pc[c] = "sleeping" => LoneSleeping(c)'
  <2> SUFFICES ASSUME LoneSleeping(c) PROVE LoneSleeping(c)'
    BY DEF LoneCall
  <2>1. CASE ready[c] \subseteq tried[c]
    BY <1>1, <2>1 DEF LoneSleeping
  <2>2. ASSUME NEW e \in Endpoints, tried[c] = {e}, OthersReady(e), attempt[c] \in {1, 2},
               \/ Rotates(e)
               \/ attempt[c] = 1 /\ health[e] = "unhealthy"
        PROVE  LoneSleeping(c)'
    BY <1>1, <1>3, <2>2 DEF LoneSleeping
  <2> QED
    BY <2>1, <2>2 DEF LoneSleeping
<1> QED
  BY <1>1, <1>4, <1>5 DEF LoneCall, InCall

\* A step of another caller: either it is in a call, and this one is not, or it begins one,
\* and this one is alone no longer.
LEMMA OthersStep ==
    ASSUME ProviderSound, NEW c \in Callers, NEW d \in Callers \ {c}, alone[c] => LoneCall(c),
           Begin(d) \/ Retry(d) \/ Ends(d) \/ Abandon(d), alone'[c]
    PROVE  LoneCall(c)'
<1> USE ProviderConstants DEF ProviderSound, ProviderTypeOK
<1>1. UNCHANGED <<pc[c], tried[c], ready[c]>> /\ alone[c]
  <2>1. CASE Begin(d)
    <3>1. Select(d) /\ ~InCall(d)
      BY <2>1 DEF Begin
    <3>2. PICK g \in Endpoints : Ask(d, g)
      BY <3>1, SelectAsks
    <3> QED
      BY <2>1, <3>2 DEF Begin, Ask
  <2>2. CASE Retry(d)
    <3>1. Select(d) /\ pc[d] = "sleeping"
      BY <2>2 DEF Retry
    <3>2. PICK g \in Endpoints : Ask(d, g)
      BY <3>1, SelectAsks
    <3> QED
      BY <2>2, <3>2 DEF Retry, Ask, aux
  <2>3. CASE Ends(d) \/ Abandon(d)
    BY <2>3 DEF Ends, Answer, Fail, Abandon, Leave, Finish
  <2> QED
    BY <2>1, <2>2, <2>3
<1>2. ~InCall(c)
  <2>1. CASE Begin(d)
    <3>1. alone'[c] = (alone[c] /\ c \notin {b \in Callers \ {d} : InCall(b)})
      BY <2>1 DEF Begin
    <3> QED
      BY <3>1
  <2>2. CASE Retry(d) \/ Ends(d) \/ Abandon(d)
    <3>1. InCall(d)
      BY <2>2 DEF Retry, Ends, Answer, Fail, Abandon, InCall
    <3> QED
      BY <1>1, <3>1 DEF LoneCall
  <2> QED
    BY <2>1, <2>2
<1> QED
  BY <1>1, <1>2 DEF LoneCall, InCall

LEMMA OwnStep ==
    ASSUME N <= 2, MaxRetries >= 3, ProviderSound, NEW c \in Callers, alone[c] => LoneCall(c),
           Begin(c) \/ Retry(c) \/ Ends(c) \/ Abandon(c), alone'[c]
    PROVE  LoneCall(c)'
<1> USE ProviderConstants
<1>1. CASE Begin(c)
  BY <1>1, LoneBegins
<1>2. CASE Retry(c)
  <2>1. pc[c] = "sleeping" /\ alone[c] /\ Select(c)
    BY <1>2 DEF Retry, aux
  <2>2. LoneWaiting(c)' /\ \A d \in Callers \ {c} : ~InCall(d)
    BY <1>2, <2>1, LoneRetries DEF LoneCall, InCall
  <2>3. PICK g \in Endpoints : Ask(c, g)
    BY <2>1, SelectAsks
  <2>4. pc'[c] = "waiting" /\ \A d \in Callers \ {c} : ~InCall(d)'
    BY <2>2, <2>3 DEF Ask, InCall, ProviderSound, ProviderTypeOK
  <2> QED
    BY <2>2, <2>4 DEF LoneCall
<1>3. ASSUME NEW kind \in {"error", "server", "timeout"}, Fail(c, kind)
      PROVE  LoneCall(c)'
  <2>1. pc[c] = "waiting" /\ alone[c]
    BY <1>3 DEF Fail
  <2>2. LoneWaiting(c) /\ \A d \in Callers \ {c} : ~InCall(d)
    BY <2>1 DEF LoneCall, InCall
  <2>3. pc'[c] # "waiting" /\ \A d \in Callers \ {c} : ~InCall(d)'
    BY <1>3, <2>2 DEF Fail, Finish, InCall, ProviderSound, ProviderTypeOK
  <2> QED
    BY <1>3, <2>2, <2>3, LoneFails DEF LoneCall
<1>4. ASSUME \/ \E speed \in {"healthy", "degraded"} : Answer(c, speed)
             \/ Abandon(c)
      PROVE  FALSE
  BY <1>4 DEF Answer, Abandon, Leave, ProviderSound, ProviderTypeOK
<1> QED
  BY <1>1, <1>2, <1>3, <1>4 DEF Ends

\* rpc_client.py:78: of two endpoints, and three tries or more, a call that no other
\* overlaps has tried every endpoint that was available when it began before it raises.
THEOREM LoneCallsTryAll ==
    ASSUME N <= 2, MaxRetries >= 3
    PROVE  ProviderSpec => []LoneCallTriesAll
<1>1. ProviderInit => LoneSound
  BY DEF ProviderInit, LoneSound
<1>2. ProviderSound /\ LoneSound /\ [ProviderNext]_providerVars => LoneSound'
  <2> SUFFICES ASSUME ProviderSound, LoneSound, [ProviderNext]_providerVars,
                      NEW c \in Callers, alone'[c]
               PROVE  LoneCall(c)'
    BY DEF LoneSound
  <2>1. alone[c] => LoneCall(c)
    BY DEF LoneSound
  <2>2. ASSUME NEW d \in Callers, Begin(d) \/ Retry(d) \/ Ends(d) \/ Abandon(d)
        PROVE  LoneCall(c)'
    BY <2>1, <2>2, OwnStep, OthersStep
  <2>3. CASE CoolDown
    BY <2>1, <2>3, LoneCoolsDown DEF CoolDown, aux
  <2>4. CASE UNCHANGED providerVars
    <3>1. /\ UNCHANGED <<health, index, pc, attempt, endpoint, tried, ready, alone, cooling>>
      BY <2>4 DEF providerVars, stats, aux
    <3>2. Available' = Available
      BY <3>1 DEF Available
    <3>3. \A e \in Endpoints : Rotates(e)' <=> Rotates(e)
      BY <3>1, RotatesKept
    <3>4. Ahead(Endpoints, endpoint[c])' = Ahead(Endpoints, endpoint[c])
      BY <3>1 DEF Ahead, Before
    <3> QED
      BY <2>1, <3>1, <3>2, <3>3, <3>4
      DEF LoneCall, LoneWaiting, LoneSleeping, OthersReady, Rotates, InCall
  <2> QED
    BY <2>2, <2>3, <2>4 DEF ProviderNext
<1>3. LoneSound => LoneCallTriesAll
  BY DEF LoneSound, LoneCall, LoneCallTriesAll
<1> QED
  BY <1>1, <1>2, <1>3, ProviderAlwaysSound, PTL DEF ProviderSpec
=============================================================================
