---------------------------- MODULE RuntimePlane ----------------------------
(***************************************************************************)
(* The runtime security plane of one chain, as the worker runs it: a cycle  *)
(* every five seconds takes the transactions of new blocks as intents       *)
(* (runtime/intent_sources/pseudo_block.py), routes each one, and simulates *)
(* those with a risk factor while the chain's budget lasts                 *)
(* (runtime/risk_router.py, runtime/runtime_engine.py).  A simulation       *)
(* changes nothing here, whatever its outcome: the evaluation of its result *)
(* calls a method the invariant engine does not have, so the branch that    *)
(* creates predicted incidents is never taken.                             *)
(***************************************************************************)
EXTENDS Integers, Sequences, FiniteSets

CONSTANTS
    MaxHead,         \* bound: blocks of the chain
    TxsOf,           \* [1..MaxHead -> Seq(Txs)]
    Txs, Risky,      \* Risky: protected contract, dangerous selector, large value or bad sender
    Limit,           \* transactions of a cycle: 100
    MaxBlocks,       \* blocks of a cycle: 5
    SimBudget,       \* per_chain_sim_budget: 60
    Window, Kept,    \* 60 s, and 120 s after which a timestamp is dropped
    MaxFaults        \* bound: RPC calls that raise, find nothing or lag behind

Blocks == 1..MaxHead

ASSUME PlaneAssumption ==
    /\ MaxHead \in Nat /\ TxsOf \in [Blocks -> Seq(Txs)] /\ Risky \subseteq Txs
    /\ {Limit, MaxBlocks, SimBudget, Window} \subseteq Nat \ {0}
    /\ Kept \in Nat /\ Window <= Kept /\ MaxFaults \in Nat

VARIABLES
    head,         \* the chain
    cursor,       \* last_processed_block
    phase,        \* "idle", or what the cycle is doing: "fetching" or "routing"
    next, last,   \* the block to be fetched, and the last of the cycle
    txs,          \* pending_txs: fetched, or still to be routed
    routed,       \* seen_tx_hashes
    ages,         \* the simulations of the chain, in the order of their start: time since
                  \* then, up to Kept
    listed,       \* chain_budget: the simulations whose timestamps it holds
    delivered,    \* auxiliary: transactions handed to the engine
    faults

chainVars  == <<head, faults>>
sourceVars == <<cursor, next, last, delivered>>
budgetVars == <<ages, listed>>
vars == <<chainVars, sourceVars, phase, txs, routed, budgetVars>>

TypeOK ==
    /\ head \in 0..MaxHead /\ cursor \in 0..MaxHead
    /\ phase \in {"idle", "fetching", "routing"}
    /\ next \in 0..(MaxHead + 1) /\ last \in 0..MaxHead
    /\ txs \in Seq(Txs) /\ routed \subseteq Txs /\ delivered \subseteq Txs
    /\ ages \in Seq(0..Kept) /\ listed \subseteq DOMAIN ages
    /\ faults \in 0..MaxFaults

Init ==
    /\ head = 0 /\ faults = 0
    /\ cursor = 0 /\ next = 0 /\ last = 0 /\ delivered = {}
    /\ phase = "idle" /\ txs = << >> /\ routed = {}
    /\ ages = << >> /\ listed = {}

-----------------------------------------------------------------------------
(* PseudoIntentBlockSource.get_pending_txs: the chain and the clock go on  *)
(* while a call is awaited.                                                *)

Smaller(a, b) == IF a < b THEN a ELSE b

\* A cycle takes up to MaxBlocks new blocks.
StartCycle ==
    /\ phase = "idle"
    /\ \E latest \in {head, head - 1} :
          /\ latest > cursor
          /\ faults' = faults + (head - latest) /\ faults' <= MaxFaults
          /\ next' = cursor + 1
          /\ last' = cursor + Smaller(latest - cursor, MaxBlocks)
    /\ phase' = "fetching"
    /\ UNCHANGED <<head, cursor, txs, routed, delivered, budgetVars>>

Elements(s) == {s[i] : i \in DOMAIN s}

\* The cycle goes on to its next block, or hands what it has fetched to the engine.
Advance(got) ==
    /\ next' = next + 1 /\ txs' = got
    /\ IF next < last /\ Len(got) < Limit
       THEN phase' = "fetching" /\ UNCHANGED delivered
       ELSE /\ phase' = IF got = << >> THEN "idle" ELSE "routing"
            /\ delivered' = delivered \cup Elements(got)

Taken(b) == SubSeq(TxsOf[b], 1, Smaller(Len(TxsOf[b]), Limit - Len(txs)))

\* Mutant: the cursor does not move over a block that is cut.
CursorStays(b) == IF Taken(b) = TxsOf[b] THEN b ELSE cursor

CursorAfter(b) == b

\* Also past transactions that the limit cuts off, and past the blocks before that were
\* missing or empty.
BlockFound ==
    /\ TxsOf[next] # << >>
    /\ cursor' = CursorAfter(next)
    /\ Advance(txs \o Taken(next))
    /\ UNCHANGED <<last, faults>>

\* A block that is missing or empty leaves the cursor where it is.
BlockMissing ==
    /\ IF TxsOf[next] = << >> THEN UNCHANGED faults ELSE faults' = faults + 1
    /\ Advance(txs)
    /\ UNCHANGED <<cursor, last>>

\* Mutant: the cursor is moved before the block is fetched.
CursorAtRaise == next

CursorKept == cursor

\* What the calls before fetched is dropped; the cursor stays where they moved it.
BlockRaises ==
    /\ faults' = faults + 1
    /\ phase' = "idle" /\ txs' = << >> /\ cursor' = CursorKept
    /\ UNCHANGED <<next, last, delivered>>

GetBlock ==
    /\ phase = "fetching"
    /\ BlockFound \/ BlockMissing \/ BlockRaises
    /\ faults' <= MaxFaults
    /\ UNCHANGED <<head, routed, budgetVars>>

-----------------------------------------------------------------------------
(* RuntimeEngine.process_cycle, RiskRouter.route and BudgetTracker.        *)

InWindow(sims) == {i \in sims : ages[i] < Window}

HasBudget == Cardinality(InWindow(listed)) < SimBudget

\* Mutant: timestamps are dropped in the middle of the window.
CleanedEarly(sims) == {i \in sims : ages[i] < Window - 1}

Cleaned(sims) == {i \in sims : ages[i] < Kept}

\* A simulation starts: the check of the budget and the record are one step.
Simulate ==
    /\ HasBudget
    /\ ages' = Append(ages, 0)
    /\ listed' = Cleaned(listed) \cup {Len(ages) + 1}

\* The next transaction of the cycle, unless it was there before, is simulated when it has
\* a risk factor and there is budget left; otherwise it is only checked cheaply.
Route ==
    /\ phase = "routing" /\ txs # << >>
    /\ \/ Head(txs) \notin routed /\ Head(txs) \in Risky /\ Simulate
       \/ (Head(txs) \in Risky => Head(txs) \in routed \/ ~HasBudget) /\ UNCHANGED budgetVars
    /\ txs' = Tail(txs)
    /\ IF txs' = << >> THEN phase' = "idle" /\ routed' = {}
       ELSE phase' = phase /\ routed' = routed \cup {Head(txs)}
    /\ UNCHANGED <<chainVars, sourceVars>>

-----------------------------------------------------------------------------
NewBlock ==
    /\ head < MaxHead /\ head' = head + 1
    /\ UNCHANGED <<faults, sourceVars, phase, txs, routed, budgetVars>>

Tick ==
    /\ ages' = [i \in DOMAIN ages |-> Smaller(ages[i] + 1, Kept)]
    /\ UNCHANGED <<chainVars, sourceVars, phase, txs, routed, listed>>

Cycle == StartCycle \/ GetBlock \/ Route

Next == Cycle \/ NewBlock \/ Tick

\* The loop runs a cycle every five seconds, waits for the blocks of it, and handles every
\* transaction.
Spec == Init /\ [][Next]_vars /\ WF_vars(Cycle)

-----------------------------------------------------------------------------
(* Properties.                                                             *)

\* risk_router.py:94: never are more simulations started within a window than the budget
\* allows, although timestamps are cleaned up and the check only sees those that are kept.
BudgetKept == Cardinality(InWindow(DOMAIN ages)) <= SimBudget

\* The blocks up to b that the engine never heard from: their first transaction was not
\* delivered, nor is it about to be.
Unheard(b) ==
    {x \in 1..b : TxsOf[x] # << >> /\ TxsOf[x][1] \notin delivered \cup Elements(txs)}

\* pseudo_block.py:99: a block the cursor has passed was heard from, but for at most
\* MaxBlocks - 1 blocks per RPC call that went wrong.
FaultsCostFewBlocks == Cardinality(Unheard(cursor)) <= faults * (MaxBlocks - 1)

\* Before block b, no MaxBlocks blocks in a row are empty.
NoLongGap(b) == \A x \in 1..(b - MaxBlocks) : \E y \in x..(x + MaxBlocks - 1) : TxsOf[y] # << >>

\* pseudo_block.py:108: a block with transactions is reached in the end, although blocks
\* before it may be empty, missing, cut or fail to be fetched and the cursor only moves to
\* blocks with transactions: unless so many empty ones lie before it that a cycle sees
\* no other, for then the cursor never moves again.
BlocksAreReached ==
    \A b \in Blocks : TxsOf[b] # << >> /\ NoLongGap(b) => (head >= b ~> cursor >= b)
=============================================================================
