--------------------------- MODULE FinalityTracker ---------------------------
(***************************************************************************)
(* One chain's FinalityTracker (src/telemetry/finality_tracker.py) next to *)
(* the chain it watches.  The worker polls the chain head and hands it to  *)
(* update_head; the tracker keeps a sliding window of the heads it saw,    *)
(* detects a reorg when a head's parent hash is not the hash it recorded,  *)
(* and confirms the block that lies Confirmations below the head.          *)
(*                                                                         *)
(* A block hash is <<number, fork>>: `canon' labels every height of the    *)
(* canonical chain with the fork that produced it, so a hash determines    *)
(* its whole ancestry, as a real block hash does.                          *)
(***************************************************************************)
EXTENDS Integers, FiniteSets

CONSTANTS
    Confirmations,   \* config.confirmations
    MaxReorgDepth,   \* config.max_reorg_depth
    ForkDepth,       \* how deep the chain itself may fork
    HeadLag,         \* how far behind the tip an RPC endpoint may answer
    MaxHeight,       \* bound: heights of the modelled chain
    MaxForks,        \* bound: forks of the modelled chain
    MaxReorgs        \* bound: reorgs the tracker counts

ASSUME ConfirmationsAssumption == Confirmations \in Nat \ {0}
ASSUME DepthAssumption == MaxReorgDepth \in Nat /\ MaxReorgDepth >= Confirmations
ASSUME ChainAssumption ==
    /\ ForkDepth \in Nat /\ HeadLag \in Nat
    /\ MaxHeight \in Nat /\ MaxForks \in Nat /\ MaxReorgs \in Nat

Heights == 1..MaxHeight
Forks   == 0..MaxForks
Hashes  == (0..MaxHeight) \X Forks

PENDING   == "pending"
CONFIRMED == "confirmed"
REORGED   == "reorged"

BlockInfo == [hash: Hashes, parent_hash: Hashes,
              status: {PENDING, CONFIRMED, REORGED}]
Untracked == [status |-> "untracked"]

VARIABLES
    canon,            \* [0..MaxHeight -> Forks] the canonical chain up to tip
    tip,              \* height of the canonical chain
    fork,             \* the latest fork
    block_window,     \* [Heights -> BlockInfo \cup {Untracked}]
    head_block,       \* number of the last head handed over, 0 before the first
    last_confirmed_block,
    reorg_count,
    callbacks,        \* reorg callbacks scheduled and not yet run: affected sets
    incidents,        \* [Heights -> {"none", "open", "invalidated"}] stored incidents
    highest,          \* auxiliary: the highest head handed over so far
    streak            \* auxiliary: heads handed over without gap, fork or step back

chainVars   == <<canon, tip, fork>>
trackerVars == <<block_window, head_block, last_confirmed_block, reorg_count,
                 highest, streak>>
vars        == <<chainVars, trackerVars, callbacks, incidents>>

Larger(a, b) == IF a >= b THEN a ELSE b

HashAt(n) == <<n, canon[n]>>
Tracked(w) == {n \in Heights : w[n] # Untracked}

TypeOK ==
    /\ canon \in [0..MaxHeight -> Forks]
    /\ tip \in 0..MaxHeight
    /\ fork \in Forks
    /\ block_window \in [Heights -> BlockInfo \cup {Untracked}]
    /\ head_block \in 0..MaxHeight
    /\ last_confirmed_block \in 0..MaxHeight
    /\ reorg_count \in 0..MaxReorgs
    /\ callbacks \subseteq SUBSET Heights
    /\ incidents \in [Heights -> {"none", "open", "invalidated"}]
    /\ highest \in 0..MaxHeight
    /\ streak \in Nat

Init ==
    /\ canon = [n \in 0..MaxHeight |-> 0]
    /\ tip = 0
    /\ fork = 0
    /\ block_window = [n \in Heights |-> Untracked]
    /\ head_block = 0
    /\ last_confirmed_block = 0
    /\ reorg_count = 0
    /\ callbacks = {}
    /\ incidents = [n \in Heights |-> "none"]
    /\ highest = 0
    /\ streak = 0

-----------------------------------------------------------------------------
(* The chain.                                                              *)

ExtendChain ==
    /\ tip < MaxHeight
    /\ tip' = tip + 1
    /\ canon' = [canon EXCEPT ![tip + 1] = fork]
    /\ UNCHANGED <<fork, trackerVars, callbacks, incidents>>

\* The chain switches to a branch that leaves at height k - 1 and is at least
\* as long as the old one.
Reorg ==
    \E k \in Heights, t \in Heights :
        /\ fork < MaxForks
        /\ tip - ForkDepth < k /\ k <= tip
        /\ t \in {tip, tip + 1}
        /\ fork' = fork + 1
        /\ tip' = t
        /\ canon' = [n \in 0..MaxHeight |-> IF n < k \/ n > t THEN canon[n] ELSE fork + 1]
        /\ UNCHANGED <<trackerVars, callbacks, incidents>>

-----------------------------------------------------------------------------
(* update_head and the helpers it calls, in the order it calls them.       *)

WithStatus(b, s) == [hash |-> b.hash, parent_hash |-> b.parent_hash, status |-> s]

Recorded(n) ==
    [block_window EXCEPT ![n] = [hash |-> HashAt(n), parent_hash |-> HashAt(n - 1),
                                 status |-> PENDING]]

ReorgDetected(w, n) ==
    /\ n > 1
    /\ w[n - 1] # Untracked
    /\ w[n - 1].hash # HashAt(n - 1)

\* Mutant: only the blocks from the reorg point on are affected.
AffectedFromReorg(w, n) == {m \in Tracked(w) : m >= n}

Affected(w, n) == {m \in Tracked(w) : m >= n - MaxReorgDepth}

MarkReorged(w, n) ==
    [m \in Heights |-> IF m \in Affected(w, n) THEN WithStatus(w[m], REORGED)
                                               ELSE w[m]]

\* Mutant: a reorg leaves the confirmed height alone.
NotRolledBack(n) == last_confirmed_block

\* _handle_reorg: what it leaves in last_confirmed_block
RolledBack(n) ==
    IF last_confirmed_block >= n - Confirmations
    THEN Larger(0, n - Confirmations - 1)
    ELSE last_confirmed_block

\* Mutant: nothing is pruned.
PrunesNothing(w, n) == w

\* Mutant: the cutoff forgets the confirmations.
PrunedTooFar(w, n) ==
    [m \in Heights |-> IF m < n - MaxReorgDepth THEN Untracked ELSE w[m]]

Pruned(w, n) ==
    [m \in Heights |-> IF m < n - MaxReorgDepth - Confirmations THEN Untracked ELSE w[m]]

\* Mutant: one confirmation too few.
CandidateTooEarly(n) == n - Confirmations + 1

\* confirmed_candidate of _update_confirmed_block
Candidate(n) == n - Confirmations

\* _is_hash_chain_consistent: the parent links below b, Confirmations deep
HashChainConsistent(w, b) ==
    /\ b \in Tracked(w)
    /\ \A m \in Heights :
          Larger(0, b - Confirmations) < m /\ m < b =>
              /\ w[m] # Untracked
              /\ w[m + 1].parent_hash = w[m].hash

\* _update_confirmed_block confirms the candidate when its hash chain holds
Confirms(w, n, last) ==
    /\ Candidate(n) > 0
    /\ HashChainConsistent(w, Candidate(n))
    /\ Candidate(n) > last

UpdateHead(n) ==
    LET recorded == Recorded(n)
        reorg    == ReorgDetected(recorded, n)
        marked   == IF reorg THEN MarkReorged(recorded, n) ELSE recorded
        last     == IF reorg THEN RolledBack(n) ELSE last_confirmed_block
        window   == Pruned(marked, n)
        confirm  == Confirms(window, n, last)
    IN  /\ Larger(1, tip - HeadLag) <= n /\ n <= tip
        /\ reorg => reorg_count < MaxReorgs
        /\ head_block' = n
        /\ reorg_count' = IF reorg THEN reorg_count + 1 ELSE reorg_count
        /\ callbacks' = IF reorg THEN callbacks \cup {Affected(recorded, n)} ELSE callbacks
        /\ last_confirmed_block' = IF confirm THEN Candidate(n) ELSE last
        /\ block_window' = IF confirm
                           THEN [window EXCEPT ![Candidate(n)] =
                                      WithStatus(window[Candidate(n)], CONFIRMED)]
                           ELSE window
        /\ highest' = Larger(highest, n)
        /\ streak' = IF reorg THEN 1
                     ELSE IF n = head_block + 1 /\ head_block # 0 THEN
                         IF streak < 2 * Confirmations THEN streak + 1 ELSE streak
                     ELSE IF n = head_block THEN streak ELSE 1
        /\ UNCHANGED <<chainVars, incidents>>

\* The worker stores an incident for an event of a block it has seen.
StoreIncident(n) ==
    /\ n \in Tracked(block_window)
    /\ incidents[n] = "none"
    /\ incidents' = [incidents EXCEPT ![n] = "open"]
    /\ UNCHANGED <<chainVars, trackerVars, callbacks>>

\* invalidate_reorged_events, the callback the worker registers: it asks
\* DatabaseService for get_incidents_by_block, which that class does not have,
\* so the first block raises and the whole callback ends in its except clause.
InvalidateReorgedEvents(affected) ==
    /\ callbacks' = callbacks \ {affected}
    /\ UNCHANGED <<chainVars, trackerVars, incidents>>

Next ==
    \/ ExtendChain
    \/ Reorg
    \/ \E n \in Heights : UpdateHead(n)
    \/ \E n \in Heights : StoreIncident(n)
    \/ \E affected \in callbacks : InvalidateReorgedEvents(affected)

Spec == Init /\ [][Next]_vars

-----------------------------------------------------------------------------
(* Properties.                                                             *)

\* "Ensures events are only marked CONFIRMED after finality threshold"
\* (finality_tracker.py:6): neither the confirmed height nor any block marked
\* CONFIRMED lies less than Confirmations below the highest head seen.
ConfirmedHasDepth ==
    /\ last_confirmed_block # 0 => last_confirmed_block + Confirmations <= highest
    /\ \A n \in Tracked(block_window) :
          block_window[n].status = CONFIRMED => n + Confirmations <= highest

\* get_confirmed_blocks and is_confirmed agree: rolling the confirmed height
\* back after a reorg leaves no block above it marked CONFIRMED.
ConfirmedBelowMark ==
    \A n \in Tracked(block_window) :
        block_window[n].status = CONFIRMED => n <= last_confirmed_block

\* Pruning keeps the part of the window the next confirmation needs: once
\* 2 * Confirmations heads arrived without gap or fork, the block Confirmations
\* below the head is confirmed.
SteadyChainConfirms ==
    streak >= 2 * Confirmations => last_confirmed_block >= head_block - Confirmations

\* _prune_blocks bounds the sliding window, with the heads that lie above a head
\* that stepped back.
WindowBounded ==
    Tracked(block_window) \subseteq
        (head_block - MaxReorgDepth - Confirmations)..(head_block + HeadLag)

\* A reorg detected at a head confirms nothing above the block that lies
\* Confirmations below it, whatever was confirmed before.
ReorgRollsBack ==
    [][reorg_count' # reorg_count =>
          last_confirmed_block' <= Larger(0, head_block' - Confirmations)]_vars

\* What finality_tracker.py:308 says of the handler, it "marks events/incidents from
\* affected blocks as invalidated": once it ran, no affected block has an open incident.
\* No run checks it, as InvalidateReorgedEvents shows that it does not hold.
ReorgInvalidatesIncidents ==
    [][\A affected \in callbacks \ callbacks' :
          \A n \in affected : incidents'[n] # "open"]_vars
=============================================================================
