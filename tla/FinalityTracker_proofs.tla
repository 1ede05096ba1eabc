------------------------ MODULE FinalityTracker_proofs ------------------------
(***************************************************************************)
(* For every number of confirmations and every max_reorg_depth that is not *)
(* smaller: the tracker's two views of what is confirmed stay consistent   *)
(* with each other and with the finality threshold, whatever the chain     *)
(* does and whichever heads the poller happens to see; and heads that      *)
(* arrive one after the other get their blocks confirmed.                  *)
(***************************************************************************)
EXTENDS FinalityTracker, TLAPS

Windows == [Heights -> BlockInfo \cup {Untracked}]

ConfirmedIn(w, m) == m \in Tracked(w) /\ w[m].status = CONFIRMED

\* A record that carries a block keeps its shape when its status changes.
LEMMA StatusChange ==
    ASSUME NEW b \in BlockInfo, NEW s \in {PENDING, CONFIRMED, REORGED}
    PROVE  /\ WithStatus(b, s) \in BlockInfo
           /\ WithStatus(b, s).status = s
  BY DEF BlockInfo, WithStatus

LEMMA UntrackedIsNoBlock == Untracked \notin BlockInfo
<1>1. SUFFICES ASSUME Untracked \in BlockInfo PROVE FALSE
  OBVIOUS
<1>2. Untracked.status = "untracked"
  BY DEF Untracked
<1>3. Untracked.status \in {PENDING, CONFIRMED, REORGED}
  BY <1>1 DEF BlockInfo
<1> QED
  BY <1>2, <1>3 DEF PENDING, CONFIRMED, REORGED

\* Recording a head adds one PENDING block and touches no other.
LEMMA RecordedFacts ==
    ASSUME TypeOK, NEW n \in Heights
    PROVE  /\ Recorded(n) \in Windows
           /\ \A m \in Heights : ConfirmedIn(Recorded(n), m) => ConfirmedIn(block_window, m)
<1> DEFINE b == [hash |-> HashAt(n), parent_hash |-> HashAt(n - 1), status |-> PENDING]
<1>1. n \in 0..MaxHeight /\ n - 1 \in 0..MaxHeight
  BY ChainAssumption DEF Heights
<1>2. HashAt(n) \in Hashes /\ HashAt(n - 1) \in Hashes
  BY <1>1 DEF HashAt, Hashes, TypeOK
<1>3. b \in BlockInfo
  BY <1>2 DEF BlockInfo
<1>4. Recorded(n) = [block_window EXCEPT ![n] = b]
  BY DEF Recorded
<1>5. b.status # CONFIRMED
  BY DEF PENDING, CONFIRMED
<1>6. block_window \in Windows
  BY DEF TypeOK, Windows
<1>7. Recorded(n) \in Windows
  BY <1>3, <1>4, <1>6 DEF Windows
<1>8. ASSUME NEW m \in Heights, ConfirmedIn(Recorded(n), m)
      PROVE  ConfirmedIn(block_window, m)
  <2>1. m # n
    BY <1>4, <1>5, <1>6, <1>8 DEF ConfirmedIn, Windows
  <2>2. Recorded(n)[m] = block_window[m]
    BY <1>4, <1>6, <2>1 DEF Windows
  <2> QED
    BY <1>8, <2>2 DEF ConfirmedIn, Tracked
<1> QED
  BY <1>7, <1>8

\* Marking a reorg leaves no block within MaxReorgDepth of it confirmed.
LEMMA MarkReorgedFacts ==
    ASSUME NEW w \in Windows, NEW n \in Heights
    PROVE  /\ MarkReorged(w, n) \in Windows
           /\ \A m \in Heights : ConfirmedIn(MarkReorged(w, n), m) =>
                  ConfirmedIn(w, m) /\ m < n - MaxReorgDepth
<1>1. ASSUME NEW m \in Heights, m \in Affected(w, n)
      PROVE  /\ MarkReorged(w, n)[m] \in BlockInfo
             /\ MarkReorged(w, n)[m].status = REORGED
  <2>1. w[m] \in BlockInfo
    BY <1>1 DEF Affected, Tracked, Windows
  <2>2. MarkReorged(w, n)[m] = WithStatus(w[m], REORGED)
    BY <1>1 DEF MarkReorged
  <2> QED
    BY <2>1, <2>2, StatusChange
<1>2. ASSUME NEW m \in Heights, m \notin Affected(w, n)
      PROVE  MarkReorged(w, n)[m] = w[m]
  BY <1>2 DEF MarkReorged
<1>3. MarkReorged(w, n) \in Windows
  <2>1. \A m \in Heights : MarkReorged(w, n)[m] \in BlockInfo \cup {Untracked}
    BY <1>1, <1>2 DEF Windows
  <2>2. MarkReorged(w, n) = [m \in Heights |-> MarkReorged(w, n)[m]]
    BY DEF MarkReorged
  <2> QED
    BY <2>1, <2>2 DEF Windows
<1>4. ASSUME NEW m \in Heights, ConfirmedIn(MarkReorged(w, n), m)
      PROVE  ConfirmedIn(w, m) /\ m < n - MaxReorgDepth
  <2>1. m \notin Affected(w, n)
    BY <1>1, <1>4 DEF ConfirmedIn, CONFIRMED, REORGED
  <2>2. ConfirmedIn(w, m)
    BY <1>2, <1>4, <2>1 DEF ConfirmedIn, Tracked
  <2> QED
    BY <2>1, <2>2, DepthAssumption DEF Affected, ConfirmedIn, Heights
<1> QED
  BY <1>3, <1>4

\* Pruning only forgets blocks.
LEMMA PrunedFacts ==
    ASSUME NEW w \in Windows, NEW n \in Heights
    PROVE  /\ Pruned(w, n) \in Windows
           /\ \A m \in Heights : ConfirmedIn(Pruned(w, n), m) => ConfirmedIn(w, m)
<1>1. Pruned(w, n) \in Windows
  BY DEF Pruned, Windows
<1>2. ASSUME NEW m \in Heights, ConfirmedIn(Pruned(w, n), m)
      PROVE  ConfirmedIn(w, m)
  BY <1>2 DEF Pruned, ConfirmedIn, Tracked
<1> QED
  BY <1>1, <1>2

\* Confirming adds the candidate to the confirmed blocks and nothing else.
LEMMA ConfirmFacts ==
    ASSUME NEW w \in Windows, NEW c \in Tracked(w)
    PROVE  LET v == [w EXCEPT ![c] = WithStatus(w[c], CONFIRMED)]
           IN  /\ v \in Windows
               /\ \A m \in Heights : ConfirmedIn(v, m) => m = c \/ ConfirmedIn(w, m)
<1> DEFINE v == [w EXCEPT ![c] = WithStatus(w[c], CONFIRMED)]
<1>1. c \in Heights /\ w[c] \in BlockInfo
  BY DEF Tracked, Windows
<1>3. WithStatus(w[c], CONFIRMED) \in BlockInfo
  BY <1>1, StatusChange
<1>4. v \in Windows
  BY <1>3 DEF Windows
<1>5. ASSUME NEW m \in Heights, m # c, ConfirmedIn(v, m)
      PROVE  ConfirmedIn(w, m)
  BY <1>5 DEF ConfirmedIn, Tracked, Windows
<1> QED
  BY <1>4, <1>5

-----------------------------------------------------------------------------
\* ConfirmedHasDepth and ConfirmedBelowMark are inductive together with TypeOK.
IInv == TypeOK /\ ConfirmedHasDepth /\ ConfirmedBelowMark

LEMMA InitIInv == Init => IInv
<1> SUFFICES ASSUME Init PROVE IInv
  OBVIOUS
<1>1. TypeOK
  BY ChainAssumption
     DEF Init, TypeOK, Forks, Heights
<1>2. Tracked(block_window) = {}
  BY DEF Init, Tracked
<1> QED
  BY <1>1, <1>2 DEF Init, IInv, ConfirmedHasDepth, ConfirmedBelowMark

\* The step every other module relies on: one call of update_head.
LEMMA UpdateHeadIInv ==
    ASSUME IInv, NEW n \in Heights, UpdateHead(n)
    PROVE  IInv'
<1> DEFINE recorded == Recorded(n)
           reorg    == ReorgDetected(recorded, n)
           marked   == IF reorg THEN MarkReorged(recorded, n) ELSE recorded
           last     == IF reorg THEN RolledBack(n) ELSE last_confirmed_block
           window   == Pruned(marked, n)
           confirm  == Confirms(window, n, last)
<1>1. /\ head_block' = n
      /\ reorg => reorg_count < MaxReorgs
      /\ reorg_count' = IF reorg THEN reorg_count + 1 ELSE reorg_count
      /\ callbacks' = IF reorg THEN callbacks \cup {Affected(recorded, n)} ELSE callbacks
      /\ last_confirmed_block' = IF confirm THEN Candidate(n) ELSE last
      /\ block_window' = IF confirm
                         THEN [window EXCEPT ![Candidate(n)] =
                                   WithStatus(window[Candidate(n)], CONFIRMED)]
                         ELSE window
      /\ highest' = Larger(highest, n)
      /\ streak' \in {1, streak, streak + 1}
      /\ UNCHANGED <<chainVars, incidents>>
  BY DEF UpdateHead
<1>2. n \in Nat /\ n >= 1 /\ n <= MaxHeight /\ MaxHeight \in Nat
  BY ChainAssumption DEF Heights
<1>3. /\ TypeOK /\ ConfirmedHasDepth /\ ConfirmedBelowMark
      /\ last_confirmed_block \in Nat /\ last_confirmed_block <= MaxHeight
      /\ highest \in Nat /\ highest <= MaxHeight
      /\ streak \in Nat /\ reorg_count \in Nat /\ reorg_count <= MaxReorgs
  BY <1>2 DEF IInv, TypeOK
<1>4. /\ recorded \in Windows
      /\ \A m \in Heights : ConfirmedIn(recorded, m) => ConfirmedIn(block_window, m)
  BY <1>3, RecordedFacts
<1> HIDE DEF recorded
<1>5. /\ marked \in Windows
      /\ \A m \in Heights : ConfirmedIn(marked, m) =>
             ConfirmedIn(block_window, m) /\ (reorg => m < n - MaxReorgDepth)
  BY <1>4, MarkReorgedFacts
<1>6. \A m \in Heights : ConfirmedIn(marked, m) =>
          /\ m <= last_confirmed_block /\ m + Confirmations <= highest
          /\ reorg => m < n - Confirmations
  <2> SUFFICES ASSUME NEW m \in Heights, ConfirmedIn(marked, m)
               PROVE  /\ m <= last_confirmed_block /\ m + Confirmations <= highest
                      /\ reorg => m < n - Confirmations
    OBVIOUS
  <2>1. ConfirmedIn(block_window, m) /\ (reorg => m < n - MaxReorgDepth)
    BY <1>5
  <2>2. m <= last_confirmed_block /\ m + Confirmations <= highest
    BY <1>3, <2>1 DEF ConfirmedIn, ConfirmedBelowMark, ConfirmedHasDepth
  <2>3. reorg => m < n - Confirmations
    BY <1>2, <2>1, DepthAssumption, ConfirmationsAssumption DEF Heights
  <2> QED
    BY <2>2, <2>3
<1> HIDE DEF reorg, marked
<1>7. last \in Nat /\ last <= MaxHeight /\ last <= last_confirmed_block
  BY <1>2, <1>3, ConfirmationsAssumption DEF RolledBack, Larger
<1>8. \A m \in Heights : ConfirmedIn(marked, m) => m <= last
  BY <1>2, <1>3, <1>6, ConfirmationsAssumption DEF RolledBack, Larger, Heights
<1>9. /\ window \in Windows
      /\ \A m \in Heights : ConfirmedIn(window, m) => ConfirmedIn(marked, m)
  BY <1>5, PrunedFacts
<1> HIDE DEF window, last
<1>10. confirm => /\ Candidate(n) \in Tracked(window)
                  /\ Candidate(n) = n - Confirmations
                  /\ Candidate(n) > 0 /\ Candidate(n) > last
  BY DEF Confirms, HashChainConsistent, Candidate
<1> HIDE DEF confirm
<1>11. /\ block_window' \in Windows
       /\ \A m \in Heights : ConfirmedIn(block_window', m) =>
              (confirm /\ m = Candidate(n)) \/ ConfirmedIn(marked, m)
  <2>1. CASE confirm
    BY <1>1, <1>9, <1>10, <2>1, ConfirmFacts
  <2>2. CASE ~confirm
    BY <1>1, <1>9, <2>2
  <2> QED
    BY <2>1, <2>2
<1>12. /\ highest' \in Nat /\ highest' <= MaxHeight /\ highest <= highest' /\ n <= highest'
  BY <1>1, <1>2, <1>3 DEF Larger
<1>13. /\ last_confirmed_block' \in Nat /\ last_confirmed_block' <= MaxHeight
       /\ last <= last_confirmed_block'
  BY <1>1, <1>2, <1>7, <1>10, ConfirmationsAssumption
<1>14. TypeOK'
  <2>1. block_window' \in [Heights -> BlockInfo \cup {Untracked}]
    BY <1>11 DEF Windows
  <2>2. head_block' \in 0..MaxHeight
    BY <1>1, <1>2
  <2>3. reorg_count' \in 0..MaxReorgs
    BY <1>1, <1>3, ChainAssumption
  <2>4. callbacks' \subseteq SUBSET Heights
    BY <1>1, <1>3 DEF TypeOK, Affected, Tracked
  <2>5. streak' \in Nat
    BY <1>1, <1>3
  <2>6. /\ canon' \in [0..MaxHeight -> Forks] /\ tip' \in 0..MaxHeight /\ fork' \in Forks
        /\ incidents' \in [Heights -> {"none", "open", "invalidated"}]
    BY <1>1, <1>3 DEF TypeOK, chainVars
  <2>7. last_confirmed_block' \in 0..MaxHeight /\ highest' \in 0..MaxHeight
    BY <1>2, <1>12, <1>13
  <2> QED
    BY <2>1, <2>2, <2>3, <2>4, <2>5, <2>6, <2>7 DEF TypeOK, Forks, Heights, BlockInfo, Hashes
<1>15. ConfirmedHasDepth'
  <2>1. last_confirmed_block' # 0 => last_confirmed_block' + Confirmations <= highest'
    BY <1>1, <1>2, <1>3, <1>7, <1>10, <1>12, ConfirmationsAssumption
       DEF ConfirmedHasDepth
  <2>2. ASSUME NEW m \in Heights, ConfirmedIn(block_window', m)
        PROVE  m + Confirmations <= highest'
    BY <1>2, <1>3, <1>6, <1>10, <1>11, <1>12, <2>2, ConfirmationsAssumption DEF Heights
  <2> QED
    BY <2>1, <2>2 DEF ConfirmedHasDepth, ConfirmedIn, Tracked
<1>16. ConfirmedBelowMark'
  <2>1. ASSUME NEW m \in Heights, ConfirmedIn(block_window', m)
        PROVE  m <= last_confirmed_block'
    <3>1. CASE confirm /\ m = Candidate(n)
      BY <1>1, <1>13, <2>1, <3>1
    <3>2. CASE ConfirmedIn(marked, m)
      BY <1>7, <1>8, <1>13, <3>2 DEF Heights
    <3> QED
      BY <1>11, <2>1, <3>1, <3>2
  <2> QED
    BY <2>1 DEF ConfirmedBelowMark, ConfirmedIn, Tracked
<1> QED
  BY <1>14, <1>15, <1>16 DEF IInv

LEMMA NextIInv == IInv /\ [Next]_vars => IInv'
<1> SUFFICES ASSUME IInv, [Next]_vars PROVE IInv'
  OBVIOUS
<1>1. CASE ExtendChain
  <2>1. TypeOK'
    BY <1>1, ChainAssumption DEF ExtendChain, IInv, TypeOK, trackerVars, Forks
  <2> QED
    BY <1>1, <2>1 DEF ExtendChain, IInv, trackerVars, ConfirmedHasDepth,
                      ConfirmedBelowMark, Tracked
<1>2. CASE Reorg
  <2>1. TypeOK'
    BY <1>2, ChainAssumption DEF Reorg, IInv, TypeOK, trackerVars, Forks, Heights
  <2> QED
    BY <1>2, <2>1 DEF Reorg, IInv, trackerVars, ConfirmedHasDepth,
                      ConfirmedBelowMark, Tracked
<1>3. ASSUME NEW n \in Heights, UpdateHead(n) PROVE IInv'
  BY <1>3, UpdateHeadIInv
<1>4. ASSUME NEW n \in Heights, StoreIncident(n) PROVE IInv'
  BY <1>4 DEF StoreIncident, IInv, TypeOK, chainVars, trackerVars, ConfirmedHasDepth,
              ConfirmedBelowMark, Tracked
<1>5. ASSUME NEW a \in callbacks, InvalidateReorgedEvents(a) PROVE IInv'
  BY <1>5 DEF InvalidateReorgedEvents, IInv, TypeOK, chainVars, trackerVars,
              ConfirmedHasDepth, ConfirmedBelowMark, Tracked
<1>6. CASE UNCHANGED vars
  BY <1>6 DEF vars, IInv, TypeOK, chainVars, trackerVars, ConfirmedHasDepth,
              ConfirmedBelowMark, Tracked
<1> QED
  BY <1>1, <1>2, <1>3, <1>4, <1>5, <1>6 DEF Next

\* Every reachable state has the declared types (all the state __init__ sets up
\* and update_head changes).
THEOREM TypeCorrect == Spec => []TypeOK
<1>1. IInv => TypeOK
  BY DEF IInv
<1> QED
  BY <1>1, InitIInv, NextIInv, PTL DEF Spec

\* Nothing is confirmed before it lies Confirmations below a head the tracker saw
\* ("only marked CONFIRMED after finality threshold", finality_tracker.py:6).
THEOREM FinalityThreshold == Spec => []ConfirmedHasDepth
<1>1. IInv => ConfirmedHasDepth
  BY DEF IInv
<1> QED
  BY <1>1, InitIInv, NextIInv, PTL DEF Spec

\* get_confirmed_blocks never lists a block that is_confirmed denies.
THEOREM ConfirmedViewsAgree == Spec => []ConfirmedBelowMark
<1>1. IInv => ConfirmedBelowMark
  BY DEF IInv
<1> QED
  BY <1>1, InitIInv, NextIInv, PTL DEF Spec
-----------------------------------------------------------------------------
(* The window.                                                             *)

\* The tracker knows no block above the tip.
WindowIInv ==
    /\ tip \in Nat /\ head_block \in Nat
    /\ WindowBounded
    /\ \A m \in Tracked(block_window) : m <= tip

LEMMA UpdateHeadWindow ==
    ASSUME TypeOK, WindowIInv, NEW n \in Heights, UpdateHead(n)
    PROVE  WindowIInv'
<1> DEFINE recorded == Recorded(n)
           marked == IF ReorgDetected(recorded, n) THEN MarkReorged(recorded, n) ELSE recorded
           window == Pruned(marked, n)
<1>1. /\ n \in Nat /\ tip \in Nat /\ HeadLag \in Nat /\ MaxReorgDepth \in Nat
      /\ Confirmations \in Nat
  BY ConfirmationsAssumption, DepthAssumption, ChainAssumption DEF Heights, WindowIInv
<1>2. head_block' = n /\ tip' = tip /\ n <= tip /\ Larger(1, tip - HeadLag) <= n
  BY DEF UpdateHead, chainVars
<1>3. PICK last : block_window' = IF Confirms(window, n, last)
                                  THEN [window EXCEPT ![Candidate(n)] =
                                            WithStatus(window[Candidate(n)], CONFIRMED)]
                                  ELSE window
  BY DEF UpdateHead
<1>4. tip <= n + HeadLag
  BY <1>1, <1>2 DEF Larger
<1>5. recorded \in Windows
  BY RecordedFacts
<1>6. marked \in Windows
  BY <1>5, MarkReorgedFacts
<1>7. window \in Windows
  BY <1>6, PrunedFacts
<1>8. ASSUME NEW m \in Heights, block_window'[m] # Untracked PROVE window[m] # Untracked
  <2>1. CASE Confirms(window, n, last)
    <3>1. Candidate(n) \in Tracked(window)
      BY <2>1 DEF Confirms, HashChainConsistent
    <3>2. m # Candidate(n) => block_window'[m] = window[m]
      BY <1>3, <1>7, <2>1 DEF Windows
    <3> QED
      BY <1>8, <3>1, <3>2 DEF Tracked
  <2>2. CASE ~Confirms(window, n, last)
    BY <1>3, <1>8, <2>2
  <2> QED
    BY <2>1, <2>2
<1>9. ASSUME NEW m \in Heights, window[m] # Untracked
      PROVE  m >= n - MaxReorgDepth - Confirmations /\ marked[m] # Untracked
  <2>1. window[m] = IF m < n - MaxReorgDepth - Confirmations THEN Untracked ELSE marked[m]
    BY DEF Pruned
  <2>2. m \in Nat
    BY DEF Heights
  <2> HIDE DEF window, marked
  <2> QED
    BY <1>1, <1>9, <2>1, <2>2
<1>10. ASSUME NEW m \in Heights, marked[m] # Untracked PROVE recorded[m] # Untracked
  <2>1. MarkReorged(recorded, n)[m] # Untracked => recorded[m] # Untracked
    BY DEF MarkReorged, Affected, Tracked
  <2> QED
    BY <1>10, <2>1
<1>11. ASSUME NEW m \in Heights, recorded[m] # Untracked
       PROVE  m = n \/ m \in Tracked(block_window)
  BY <1>11 DEF Recorded, TypeOK, Tracked
<1>12. ASSUME NEW m \in Tracked(block_window)'
       PROVE  m \in Nat /\ m <= tip /\ m >= n - MaxReorgDepth - Confirmations
  <2>1. m \in Heights /\ block_window'[m] # Untracked
    BY <1>12 DEF Tracked
  <2>2. m = n \/ m \in Tracked(block_window)
    BY <1>8, <1>9, <1>10, <1>11, <2>1
  <2>3. m <= tip
    BY <1>2, <2>2 DEF WindowIInv
  <2> QED
    BY <1>8, <1>9, <2>1, <2>3 DEF Heights
<1>13. WindowBounded'
  <2> SUFFICES ASSUME NEW m \in Tracked(block_window)'
               PROVE  m \in (n - MaxReorgDepth - Confirmations)..(n + HeadLag)
    BY <1>2 DEF WindowBounded
  <2>1. m \in Nat /\ m <= tip /\ m >= n - MaxReorgDepth - Confirmations
    BY <1>12
  <2> QED
    BY <1>1, <1>4, <2>1
<1> QED
  BY <1>1, <1>2, <1>12, <1>13 DEF WindowIInv

LEMMA NextWindow == TypeOK /\ WindowIInv /\ [Next]_vars => WindowIInv'
<1> SUFFICES ASSUME TypeOK, WindowIInv, [Next]_vars PROVE WindowIInv'
  OBVIOUS
<1>1. ASSUME tip' \in Nat, tip <= tip', UNCHANGED <<head_block, block_window>>
      PROVE  WindowIInv'
  <2>1. \A m \in Tracked(block_window) : m \in Nat /\ m <= tip'
    BY <1>1 DEF WindowIInv, Tracked, Heights
  <2> QED
    BY <1>1, <2>1 DEF WindowIInv, WindowBounded, Tracked
<1>2. tip \in Nat
  BY DEF WindowIInv
<1>3. CASE ExtendChain \/ Reorg
  <2>1. tip' \in {tip, tip + 1} /\ UNCHANGED <<head_block, block_window>>
    BY <1>3 DEF ExtendChain, Reorg, trackerVars
  <2> QED
    BY <1>1, <1>2, <2>1
<1>4. ASSUME NEW n \in Heights, UpdateHead(n) PROVE WindowIInv'
  BY <1>4, UpdateHeadWindow
<1>5. CASE \/ \E n \in Heights : StoreIncident(n)
           \/ \E affected \in callbacks : InvalidateReorgedEvents(affected)
           \/ UNCHANGED vars
  <2>1. UNCHANGED <<tip, head_block, block_window>>
    BY <1>5 DEF StoreIncident, InvalidateReorgedEvents, vars, chainVars, trackerVars
  <2> QED
    BY <1>1, <1>2, <2>1
<1> QED
  BY <1>3, <1>4, <1>5 DEF Next

\* The window stays bounded although heads step back, by as much as an endpoint lags, and
\* pruning only looks at the head it was given (_prune_blocks).
THEOREM WindowIsBounded == Spec => []WindowBounded
<1>1. Init => WindowIInv
  BY DEF Init, WindowIInv, WindowBounded, Tracked
<1>2. IInv => TypeOK
  BY DEF IInv
<1>3. WindowIInv => WindowBounded
  BY DEF WindowIInv
<1> QED
  BY <1>1, <1>2, <1>3, InitIInv, NextIInv, NextWindow, PTL DEF Spec
-----------------------------------------------------------------------------
(* Reorgs.                                                                 *)

LEMMA ReorgLowersMark ==
    ASSUME TypeOK, NEW n \in Heights, UpdateHead(n), reorg_count' # reorg_count
    PROVE  last_confirmed_block' <= Larger(0, head_block' - Confirmations)
<1>1. n \in Nat /\ Confirmations \in Nat /\ last_confirmed_block \in Nat
  BY ConfirmationsAssumption DEF Heights, TypeOK
<1>2. /\ head_block' = n
      /\ last_confirmed_block' \in {Candidate(n), RolledBack(n)}
  BY DEF UpdateHead
<1>3. RolledBack(n) <= Larger(0, n - Confirmations)
  BY <1>1 DEF RolledBack, Larger
<1>4. Candidate(n) <= Larger(0, n - Confirmations)
  BY <1>1 DEF Candidate, Larger
<1> QED
  BY <1>2, <1>3, <1>4

\* A head that reveals a reorg leaves nothing confirmed above the block that lies
\* Confirmations below it, whatever was confirmed before (_handle_reorg).
THEOREM ReorgsRollBack == Spec => ReorgRollsBack
<1>1. IInv /\ [Next]_vars =>
          [reorg_count' # reorg_count =>
              last_confirmed_block' <= Larger(0, head_block' - Confirmations)]_vars
  <2> SUFFICES ASSUME IInv, Next, reorg_count' # reorg_count
               PROVE  last_confirmed_block' <= Larger(0, head_block' - Confirmations)
    BY DEF vars, trackerVars
  <2>1. \E n \in Heights : UpdateHead(n)
    BY DEF Next, ExtendChain, Reorg, StoreIncident, InvalidateReorgedEvents, trackerVars
  <2> QED
    BY <2>1, ReorgLowersMark DEF IInv
<1> QED
  BY <1>1, InitIInv, NextIInv, PTL DEF Spec, ReorgRollsBack
-----------------------------------------------------------------------------
(* Progress on a steady chain.                                             *)

\* The heads of the streak are all in the window, each linked to the one before it.
StreakIInv ==
    /\ streak \in Nat /\ head_block \in Nat
    /\ streak <= head_block /\ streak <= 2 * Confirmations
    /\ \A m \in Heights : head_block - streak < m /\ m <= head_block =>
          m \in Tracked(block_window)
    /\ \A m \in Heights : head_block - streak + 1 < m /\ m <= head_block =>
          block_window[m].parent_hash = block_window[m - 1].hash
    /\ SteadyChainConfirms

\* A change of status leaves the block and its links where they are.
LEMMA SameBlock ==
    ASSUME NEW w \in Windows, NEW c \in Tracked(w), NEW m \in Tracked(w)
    PROVE  LET v == [w EXCEPT ![c] = WithStatus(w[c], CONFIRMED)]
           IN  m \in Tracked(v) /\ v[m].hash = w[m].hash /\ v[m].parent_hash = w[m].parent_hash
<1> DEFINE v == [w EXCEPT ![c] = WithStatus(w[c], CONFIRMED)]
<1>1. m \in Heights /\ c \in Heights /\ w[c] \in BlockInfo
  BY DEF Tracked, Windows
<1>2. CASE m = c
  <2>1. v[m] = WithStatus(w[m], CONFIRMED)
    BY <1>1, <1>2 DEF Windows
  <2>2. v[m] # Untracked
    BY <1>1, <1>2, <2>1, StatusChange, UntrackedIsNoBlock
  <2>3. v[m].hash = w[m].hash /\ v[m].parent_hash = w[m].parent_hash
    BY <2>1 DEF WithStatus
  <2> QED
    BY <1>1, <2>2, <2>3 DEF Tracked
<1>3. CASE m # c
  <2>1. v[m] = w[m]
    BY <1>1, <1>3 DEF Windows
  <2> QED
    BY <1>1, <2>1 DEF Tracked
<1> QED
  BY <1>2, <1>3

\* The heads a streak of length k at n consists of, in the window w.
StreakIn(w, n, k) ==
    /\ \A m \in Heights : n - k < m /\ m <= n => m \in Tracked(w)
    /\ \A m \in Heights : n - k + 1 < m /\ m <= n => w[m].parent_hash = w[m - 1].hash

LEMMA StreakKept ==
    ASSUME NEW w \in Windows, NEW n \in Nat, NEW k \in Nat, k <= n, StreakIn(w, n, k),
           NEW c \in Tracked(w)
    PROVE  StreakIn([w EXCEPT ![c] = WithStatus(w[c], CONFIRMED)], n, k)
<1> DEFINE v == [w EXCEPT ![c] = WithStatus(w[c], CONFIRMED)]
<1>1. ASSUME NEW m \in Heights, n - k < m, m <= n
      PROVE  /\ m \in Tracked(w) /\ m \in Tracked(v)
             /\ v[m].hash = w[m].hash /\ v[m].parent_hash = w[m].parent_hash
  <2>1. m \in Tracked(w)
    BY <1>1 DEF StreakIn
  <2> QED
    BY <2>1, SameBlock
<1>2. ASSUME NEW m \in Heights, n - k + 1 < m, m <= n
      PROVE  v[m].parent_hash = v[m - 1].hash
  <2>1. m - 1 \in Heights /\ n - k < m - 1 /\ m - 1 <= n /\ n - k < m
    BY <1>2, ChainAssumption DEF Heights
  <2>2. w[m].parent_hash = w[m - 1].hash
    BY <1>2 DEF StreakIn
  <2> QED
    BY <1>1, <1>2, <2>1, <2>2
<1> HIDE DEF v
<1> QED
  BY <1>1, <1>2 DEF StreakIn, v

\* Recording a head that the tracker takes for no reorg links it to the streak before it.
LEMMA StreakRecorded ==
    ASSUME TypeOK, NEW n \in Heights, NEW k \in Nat, k <= n, k >= 1,
           ~ReorgDetected(Recorded(n), n),
           \A m \in Heights : n - k < m /\ m < n => m \in Tracked(block_window),
           \A m \in Heights : n - k + 1 < m /\ m < n =>
               block_window[m].parent_hash = block_window[m - 1].hash
    PROVE  StreakIn(Recorded(n), n, k)
<1> DEFINE b == [hash |-> HashAt(n), parent_hash |-> HashAt(n - 1), status |-> PENDING]
<1>1. /\ Recorded(n)[n] = b
      /\ \A m \in Heights : m # n => Recorded(n)[m] = block_window[m]
  BY DEF Recorded, TypeOK
<1>2. b # Untracked
  <2>1. b.status = PENDING /\ Untracked.status = "untracked"
    BY DEF Untracked
  <2> QED
    BY <2>1 DEF PENDING
<1>3. n \in Nat /\ \A m \in Heights : m \in Nat /\ m >= 1
  BY DEF Heights
<1>4. ASSUME NEW m \in Heights, n - k < m, m <= n PROVE m \in Tracked(Recorded(n))
  <2>1. CASE m = n
    BY <1>1, <1>2, <2>1 DEF Tracked
  <2>2. CASE m # n
    BY <1>1, <1>3, <1>4, <2>2 DEF Tracked
  <2> QED
    BY <2>1, <2>2
<1>5. ASSUME NEW m \in Heights, n - k + 1 < m, m <= n
      PROVE  Recorded(n)[m].parent_hash = Recorded(n)[m - 1].hash
  <2>1. m - 1 \in Heights /\ m - 1 # n /\ n - k < m - 1 /\ m - 1 <= n
    BY <1>3, <1>5, ChainAssumption DEF Heights
  <2>2. CASE m = n
    <3>1. n > 1 /\ Recorded(n)[n - 1] # Untracked
      BY <1>3, <1>4, <2>1, <2>2 DEF Tracked
    <3>2. Recorded(n)[n - 1].hash = HashAt(n - 1)
      BY <3>1 DEF ReorgDetected
    <3> QED
      BY <1>1, <2>2, <3>2
  <2>3. CASE m # n
    BY <1>1, <1>3, <1>5, <2>1, <2>3
  <2> QED
    BY <2>2, <2>3
<1> QED
  BY <1>4, <1>5 DEF StreakIn

LEMMA StreakPruned ==
    ASSUME NEW w \in Windows, NEW n \in Heights, NEW k \in Nat, k <= n, k <= 2 * Confirmations,
           StreakIn(w, n, k)
    PROVE  StreakIn(Pruned(w, n), n, k)
<1>1. n \in Nat /\ \A m \in Heights : m \in Nat /\ m >= 1
  BY DEF Heights
<1>2. ASSUME NEW m \in Heights, n - k < m PROVE Pruned(w, n)[m] = w[m]
  <2>1. ~(m < n - MaxReorgDepth - Confirmations)
    BY <1>1, <1>2, ConfirmationsAssumption, DepthAssumption
  <2> QED
    BY <2>1 DEF Pruned
<1>3. ASSUME NEW m \in Heights, n - k + 1 < m PROVE m - 1 \in Heights /\ n - k < m - 1 /\ n - k < m
  BY <1>1, <1>3, ChainAssumption DEF Heights
<1> QED
  BY <1>2, <1>3 DEF StreakIn, Tracked

\* A full streak reaches far enough down for the candidate to be confirmed.
LEMMA StreakConfirms ==
    ASSUME NEW w \in Windows, NEW n \in Heights, 2 * Confirmations <= n,
           StreakIn(w, n, 2 * Confirmations), NEW last \in Nat, last < Candidate(n)
    PROVE  Confirms(w, n, last)
<1>1. /\ n \in Nat /\ n <= MaxHeight /\ MaxHeight \in Nat
      /\ Confirmations \in Nat /\ Confirmations >= 1
      /\ \A m \in Heights : m \in Nat /\ m >= 1
  BY ConfirmationsAssumption, ChainAssumption DEF Heights
<1>2. Candidate(n) = n - Confirmations /\ Candidate(n) \in Heights /\ Candidate(n) > 0
  BY <1>1 DEF Candidate, Heights
<1>3. Candidate(n) \in Tracked(w)
  BY <1>1, <1>2 DEF StreakIn
<1>4. ASSUME NEW m \in Heights, Larger(0, Candidate(n) - Confirmations) < m, m < Candidate(n)
      PROVE  w[m] # Untracked /\ w[m + 1].parent_hash = w[m].hash
  <2>1. n - 2 * Confirmations < m /\ m <= n
    BY <1>1, <1>2, <1>4 DEF Larger
  <2>2. m + 1 \in Heights /\ n - 2 * Confirmations + 1 < m + 1 /\ m + 1 <= n
    BY <1>1, <1>2, <1>4, <2>1 DEF Heights
  <2>3. w[m] # Untracked
    BY <2>1 DEF StreakIn, Tracked
  <2>4. w[m + 1].parent_hash = w[(m + 1) - 1].hash
    BY <2>2 DEF StreakIn
  <2>5. (m + 1) - 1 = m
    BY <1>1
  <2> QED
    BY <2>3, <2>4, <2>5
<1> QED
  BY <1>2, <1>3, <1>4 DEF Confirms, HashChainConsistent

LEMMA UpdateHeadStreak ==
    ASSUME TypeOK, StreakIInv, NEW n \in Heights, UpdateHead(n)
    PROVE  StreakIInv'
<1> DEFINE reorg == ReorgDetected(Recorded(n), n)
           marked == IF reorg THEN MarkReorged(Recorded(n), n) ELSE Recorded(n)
           last == IF reorg THEN RolledBack(n) ELSE last_confirmed_block
           window == Pruned(marked, n)
<1>1. /\ n \in Nat /\ n >= 1 /\ Confirmations \in Nat /\ Confirmations >= 1
      /\ streak \in Nat /\ head_block \in Nat /\ streak <= head_block
      /\ streak <= 2 * Confirmations /\ last_confirmed_block \in Nat
      /\ \A m \in Heights : m \in Nat /\ m >= 1
  BY ConfirmationsAssumption DEF Heights, StreakIInv, TypeOK
<1>2. /\ head_block' = n
      /\ last_confirmed_block' = IF Confirms(window, n, last) THEN Candidate(n) ELSE last
      /\ block_window' = IF Confirms(window, n, last)
                         THEN [window EXCEPT ![Candidate(n)] =
                                    WithStatus(window[Candidate(n)], CONFIRMED)]
                         ELSE window
      /\ streak' = IF reorg THEN 1
                   ELSE IF n = head_block + 1 /\ head_block # 0 THEN
                       IF streak < 2 * Confirmations THEN streak + 1 ELSE streak
                   ELSE IF n = head_block THEN streak ELSE 1
  BY DEF UpdateHead
<1>3. Recorded(n) \in Windows /\ marked \in Windows /\ window \in Windows
  BY RecordedFacts, MarkReorgedFacts, PrunedFacts
<1>4. streak' \in Nat /\ streak' <= n /\ streak' <= 2 * Confirmations
  BY <1>1, <1>2
<1>5. Recorded(n)[n] \in BlockInfo /\ Recorded(n)[n] # Untracked
  <2>1. n \in 0..MaxHeight /\ n - 1 \in 0..MaxHeight
    BY ChainAssumption DEF Heights
  <2>2. HashAt(n) \in Hashes /\ HashAt(n - 1) \in Hashes
    BY <2>1 DEF HashAt, Hashes, TypeOK
  <2>3. Recorded(n)[n] = [hash |-> HashAt(n), parent_hash |-> HashAt(n - 1), status |-> PENDING]
    BY DEF Recorded, TypeOK
  <2>4. Recorded(n)[n] \in BlockInfo
    BY <2>2, <2>3 DEF BlockInfo
  <2> QED
    BY <2>4, UntrackedIsNoBlock
<1>6. StreakIn(marked, n, streak')
  <2>1. CASE reorg
    <3>1. n \in Affected(Recorded(n), n)
      BY <1>1, <1>5, DepthAssumption DEF Affected, Tracked
    <3>2. MarkReorged(Recorded(n), n)[n] = WithStatus(Recorded(n)[n], REORGED)
      BY <3>1 DEF MarkReorged
    <3>3. n \in Tracked(MarkReorged(Recorded(n), n))
      BY <1>5, <3>2, StatusChange, UntrackedIsNoBlock DEF Tracked
    <3>4. streak' = 1 /\ marked = MarkReorged(Recorded(n), n)
      BY <1>2, <2>1
    <3>5. \A m \in Heights : n - 1 < m /\ m <= n => m = n
      BY <1>1
    <3>6. \A m \in Heights : ~(n - 1 + 1 < m /\ m <= n)
      BY <1>1
    <3> QED
      BY <3>3, <3>4, <3>5, <3>6 DEF StreakIn
  <2>2. CASE ~reorg /\ streak' >= 1
    <3>0. PICK k \in Nat : k = streak'
      BY <1>4
    <3>1. ASSUME NEW m \in Heights, n - k < m, m < n
          PROVE  /\ head_block - streak < m /\ m <= head_block
                 /\ n - k + 1 < m => head_block - streak + 1 < m
      BY <1>1, <1>2, <1>4, <2>2, <3>0, <3>1
    <3>2. \A m \in Heights : n - k < m /\ m < n => m \in Tracked(block_window)
      BY <3>1 DEF StreakIInv
    <3>3. ASSUME NEW m \in Heights, n - k + 1 < m, m < n
          PROVE  block_window[m].parent_hash = block_window[m - 1].hash
      <4>1. n - k < m
        BY <1>1, <3>3
      <4>2. head_block - streak + 1 < m /\ m <= head_block
        BY <3>1, <3>3, <4>1
      <4> QED
        BY <4>2 DEF StreakIInv
    <3>4. StreakIn(Recorded(n), n, streak')
      BY <1>4, <2>2, <3>0, <3>2, <3>3, StreakRecorded
    <3> QED
      BY <2>2, <3>4
  <2>3. CASE streak' = 0
    BY <1>1, <2>3 DEF StreakIn
  <2> QED
    BY <1>4, <2>1, <2>2, <2>3
<1>7. StreakIn(window, n, streak')
  BY <1>3, <1>4, <1>6, StreakPruned
<1>8. StreakIn(block_window', n, streak')
  <2>1. Confirms(window, n, last) => Candidate(n) \in Tracked(window)
    BY DEF Confirms, HashChainConsistent
  <2> QED
    BY <1>1, <1>2, <1>3, <1>4, <1>7, <2>1, StreakKept
<1>9. SteadyChainConfirms'
  <2> SUFFICES ASSUME streak' >= 2 * Confirmations
               PROVE  last_confirmed_block' >= n - Confirmations
    BY <1>2 DEF SteadyChainConfirms
  <2>1. ~reorg /\ streak' = 2 * Confirmations /\ 2 * Confirmations <= n
    BY <1>1, <1>2, <1>4
  <2>2. last \in Nat
    BY <1>1, <2>1
  <2>3. last < Candidate(n) => Confirms(window, n, last)
    BY <1>3, <1>7, <2>1, <2>2, StreakConfirms
  <2> QED
    BY <1>1, <1>2, <2>2, <2>3 DEF Candidate
<1> QED
  BY <1>1, <1>2, <1>4, <1>8, <1>9 DEF StreakIInv, StreakIn

LEMMA NextStreak == TypeOK /\ StreakIInv /\ [Next]_vars => StreakIInv'
<1> SUFFICES ASSUME TypeOK, StreakIInv, [Next]_vars PROVE StreakIInv'
  OBVIOUS
<1>1. ASSUME NEW n \in Heights, UpdateHead(n) PROVE StreakIInv'
  BY <1>1, UpdateHeadStreak
<1>2. CASE UNCHANGED trackerVars
  BY <1>2 DEF trackerVars, StreakIInv, SteadyChainConfirms, Tracked
<1> QED
  BY <1>1, <1>2 DEF Next, ExtendChain, Reorg, StoreIncident, InvalidateReorgedEvents, vars

\* Whatever forks, gaps and repeats came before, 2 * Confirmations heads that arrive one
\* after the other get the block Confirmations below the last one confirmed: pruning never
\* takes what _is_hash_chain_consistent will want to see.
THEOREM SteadyChainsConfirm == Spec => []SteadyChainConfirms
<1>1. Init => StreakIInv
  BY ConfirmationsAssumption DEF Init, StreakIInv, SteadyChainConfirms, Heights
<1>2. IInv => TypeOK
  BY DEF IInv
<1>3. StreakIInv => SteadyChainConfirms
  BY DEF StreakIInv
<1> QED
  BY <1>1, <1>2, <1>3, InitIInv, NextIInv, NextStreak, PTL DEF Spec
====
