------------------------ MODULE ChainIngestion_proofs ------------------------
(***************************************************************************)
(* For every height of the chain, every threshold, cooldown and backoff,   *)
(* and any number of failing calls and restarts: Loop A stores no block    *)
(* twice, leaves few blocks to the rules unheard, and leaves no gap while  *)
(* it is close to the head; its two guards keep their types, and a half    *)
(* open circuit is decided by its probe.                                   *)
(***************************************************************************)
EXTENDS ChainIngestion, FiniteSetTheorems, TLAPS

BlocksTypeOK ==
    /\ head \in Nat \ {0}
    /\ processed \in Nat /\ processed <= head
    /\ fetched \subseteq 1..head
    /\ blocks_scanned \in Nat
    /\ faults \in Nat /\ restarts \in Nat

\* Until the worker restarts, the blocks after the processed one are not stored yet.
ProcessedIsLast == restarts = 0 => fetched \subseteq 1..processed

IngestionIInv == BlocksTypeOK /\ ProcessedIsLast /\ NoBlockTwice /\ FewBlocksUnheard

LEMMA InitIngestionIInv == Init => IngestionIInv
<1> SUFFICES ASSUME Init PROVE IngestionIInv
  OBVIOUS
<1>1. fetched = {} /\ fetched \ listened = {}
  BY DEF Init
<1> QED
  BY <1>1, FS_EmptySet
     DEF Init, IngestionIInv, BlocksTypeOK, ProcessedIsLast, NoBlockTwice, FewBlocksUnheard

-----------------------------------------------------------------------------
(* The blocks of one turn.                                                 *)

LEMMA TurnBlocks ==
    ASSUME BlocksTypeOK, StartedAt(head) < head
    PROVE  /\ StartedAt(head) \in Nat /\ processed <= StartedAt(head)
           /\ FromBlock(head) \in Nat \ {0} /\ FromBlock(head) <= head
           /\ processed < FromBlock(head) /\ head - FromBlock(head) <= 3
           /\ (head - processed <= 4 /\ processed > 0 => FromBlock(head) = processed + 1)
  BY DEF BlocksTypeOK, StartedAt, FromBlock, Larger

LEMMA BlocksAreFinite ==
    ASSUME BlocksTypeOK
    PROVE  IsFiniteSet(fetched) /\ IsFiniteSet(fetched \ listened)
<1>1. IsFiniteSet(1..head)
  BY FS_Interval DEF BlocksTypeOK
<1>2. fetched \in SUBSET (1..head) /\ fetched \ listened \in SUBSET (1..head)
  BY DEF BlocksTypeOK
<1> QED
  BY <1>1, <1>2, FS_Subset

LEMMA UnheardGrowsByFour ==
    ASSUME NEW S, IsFiniteSet(S), NEW n \in Nat, Cardinality(S) <= 4 * n,
           NEW a \in Nat, NEW b \in Nat, a <= b, b - a <= 3,
           NEW T, T \subseteq S \cup a..b
    PROVE  Cardinality(T) <= 4 * (n + 1)
<1>1. IsFiniteSet(a..b) /\ Cardinality(a..b) <= 4 /\ Cardinality(a..b) \in Nat
  <2>1. a \in Int /\ b \in Int /\ ~(a > b) /\ b - a + 1 \in Nat /\ b - a + 1 <= 4
    OBVIOUS
  <2>2. IsFiniteSet(a..b) /\ Cardinality(a..b) = b - a + 1
    BY <2>1, FS_Interval
  <2> QED
    BY <2>1, <2>2
<1>2. /\ IsFiniteSet(S \cup a..b) /\ IsFiniteSet(S \cap a..b)
      /\ Cardinality(S \cup a..b) = Cardinality(S) + Cardinality(a..b)
                                    - Cardinality(S \cap a..b)
  BY <1>1, FS_Union, FS_Subset
<1>3. Cardinality(S) \in Nat /\ Cardinality(S \cap a..b) \in Nat
  BY <1>2, FS_CardinalityType
<1>4. Cardinality(T) <= Cardinality(S \cup a..b) /\ IsFiniteSet(T)
  BY <1>2, FS_Subset
<1>5. Cardinality(T) \in Nat
  BY <1>4, FS_CardinalityType
<1> QED
  BY <1>1, <1>2, <1>3, <1>4, <1>5

LEMMA PollBlocksIInv ==
    ASSUME IngestionIInv, PollBlocks
    PROVE  IngestionIInv'
<1> DEFINE from == FromBlock(head)
<1>1. PICK reached \in (from - 1)..head, logsOK \in BOOLEAN :
      \E missed \in SUBSET (from..reached) :
          /\ StartedAt(head) < head
          /\ IF reached = head /\ missed = {} /\ logsOK THEN UNCHANGED faults ELSE Faulty
          /\ listened' = listened \cup ((from..reached) \ missed)
          /\ fetched' = IF logsOK THEN fetched \cup from..head ELSE fetched
          /\ processed' = IF logsOK THEN head ELSE StartedAt(head)
          /\ blocks_scanned' = IF logsOK THEN blocks_scanned + (head - from + 1)
                               ELSE blocks_scanned
          /\ head' = head /\ restarts' = restarts
  BY DEF PollBlocks, ProcessedAfter, Heard
<1>2. BlocksTypeOK
  BY DEF IngestionIInv
<1>3. /\ StartedAt(head) \in Nat /\ processed <= StartedAt(head)
      /\ from \in Nat \ {0} /\ from <= head /\ processed < from /\ head - from <= 3
  BY <1>1, <1>2, TurnBlocks
<1>4. faults' \in Nat /\ (faults' = faults \/ faults' = faults + 1)
  <2>1. faults' = faults \/ faults' = faults + 1
    BY <1>1 DEF Faulty
  <2> QED
    BY <1>2, <2>1 DEF BlocksTypeOK
<1>5. fetched' \subseteq 1..head
  <2>1. fetched \subseteq 1..head /\ from..head \subseteq 1..head
    BY <1>2, <1>3 DEF BlocksTypeOK
  <2>2. fetched' \subseteq fetched \cup from..head
    BY <1>1
  <2> QED
    BY <2>1, <2>2
<1>6. BlocksTypeOK'
  BY <1>1, <1>2, <1>3, <1>4, <1>5 DEF BlocksTypeOK
<1>7. ProcessedIsLast'
  BY <1>1, <1>2, <1>3, <1>5 DEF BlocksTypeOK, ProcessedIsLast, IngestionIInv
<1>8. IsFiniteSet(fetched) /\ IsFiniteSet(fetched \ listened)
  BY <1>2, BlocksAreFinite
<1>9. NoBlockTwice'
  <2> SUFFICES ASSUME restarts = 0 PROVE blocks_scanned' = Cardinality(fetched')
    BY <1>1 DEF NoBlockTwice
  <2>1. blocks_scanned = Cardinality(fetched)
    BY DEF IngestionIInv, NoBlockTwice
  <2>2. CASE logsOK
    <3>1. fetched \cap from..head = {}
      BY <1>2, <1>3 DEF BlocksTypeOK, ProcessedIsLast, IngestionIInv
    <3>2. IsFiniteSet(from..head) /\ Cardinality(from..head) = head - from + 1
      BY <1>2, <1>3, FS_Interval DEF BlocksTypeOK
    <3>3. Cardinality(fetched \cap from..head) = 0
      BY <3>1, FS_EmptySet
    <3>4. Cardinality(fetched \cup from..head)
              = Cardinality(fetched) + (head - from + 1) - 0
      BY <1>8, <3>2, <3>3, FS_Union
    <3>5. Cardinality(fetched) \in Nat
      BY <1>8, FS_CardinalityType
    <3> QED
      BY <1>1, <1>2, <1>3, <2>1, <2>2, <3>4, <3>5 DEF BlocksTypeOK
  <2>3. CASE ~logsOK
    BY <1>1, <2>1, <2>3
  <2> QED
    BY <2>2, <2>3
<1>10. FewBlocksUnheard'
  <2>1. Cardinality(fetched \ listened) <= 4 * faults
    BY DEF IngestionIInv, FewBlocksUnheard
  <2>2. Cardinality(fetched \ listened) \in Nat
    BY <1>8, FS_CardinalityType
  <2>3. CASE fetched' \ listened' \subseteq fetched \ listened
    <3>1. IsFiniteSet(fetched' \ listened')
          /\ Cardinality(fetched' \ listened') <= Cardinality(fetched \ listened)
      BY <1>8, <2>3, FS_Subset
    <3>2. Cardinality(fetched' \ listened') \in Nat
      BY <3>1, FS_CardinalityType
    <3> QED
      BY <1>2, <1>4, <2>1, <2>2, <3>1, <3>2 DEF BlocksTypeOK, FewBlocksUnheard
  <2>4. CASE ~(fetched' \ listened' \subseteq fetched \ listened)
    <3>1. fetched' \ listened' \subseteq (fetched \ listened) \cup from..head
      BY <1>1
    <3>2. ASSUME UNCHANGED faults PROVE FALSE
      <4>1. faults' # faults + 1
        BY <1>2, <3>2 DEF BlocksTypeOK
      <4>2. reached = head /\ logsOK /\ listened' = listened \cup ((from..reached) \ {})
        BY <1>1, <4>1 DEF Faulty
      <4> QED
        BY <1>1, <2>4, <4>2
    <3>3. faults' = faults + 1
      BY <1>4, <3>2
    <3>4. head \in Nat /\ faults \in Nat
      BY <1>2 DEF BlocksTypeOK
    <3>5. Cardinality(fetched' \ listened') <= 4 * (faults + 1)
      BY <1>3, <1>8, <2>1, <3>1, <3>4, UnheardGrowsByFour
    <3> QED
      BY <3>3, <3>5 DEF FewBlocksUnheard
  <2> QED
    BY <2>3, <2>4
<1> QED
  BY <1>6, <1>7, <1>9, <1>10 DEF IngestionIInv

\* Every other turn leaves the blocks alone.
LEMMA OtherStepsIInv ==
    ASSUME IngestionIInv, head' \in {head, head + 1}, UNCHANGED <<fetched, listened, blocks_scanned>>,
           faults' \in {faults, faults + 1},
           UNCHANGED <<processed, restarts>> \/ (processed' = 0 /\ restarts' = restarts + 1)
    PROVE  IngestionIInv'
<1>1. BlocksTypeOK'
  BY DEF IngestionIInv, BlocksTypeOK
<1>2. ProcessedIsLast' /\ NoBlockTwice'
  BY DEF IngestionIInv, BlocksTypeOK, ProcessedIsLast, NoBlockTwice
<1>3. FewBlocksUnheard'
  <2>1. IsFiniteSet(fetched \ listened)
    BY BlocksAreFinite DEF IngestionIInv
  <2>2. Cardinality(fetched \ listened) \in Nat
    BY <2>1, FS_CardinalityType
  <2>3. /\ faults \in Nat
        /\ Cardinality(fetched \ listened) <= 4 * faults
        /\ fetched' \ listened' = fetched \ listened
    BY DEF IngestionIInv, BlocksTypeOK, FewBlocksUnheard
  <2> QED
    BY <2>2, <2>3 DEF FewBlocksUnheard
<1> QED
  BY <1>1, <1>2, <1>3 DEF IngestionIInv

LEMMA NextIngestionIInv == IngestionIInv /\ [Next]_vars => IngestionIInv'
<1> SUFFICES ASSUME IngestionIInv, [Next]_vars PROVE IngestionIInv'
  OBVIOUS
<1>1. CASE NewBlock
  BY <1>1, OtherStepsIInv DEF NewBlock, blockVars, auxVars
<1>2. CASE Tick
  BY <1>2, OtherStepsIInv DEF Tick, blockVars, auxVars
<1>3. CASE Restart
  BY <1>3, OtherStepsIInv DEF Restart
<1>4. CASE Reconnect
  BY <1>4, OtherStepsIInv DEF Reconnect, Faulty, blockVars
<1>5. CASE HeadCallFails
  BY <1>5, OtherStepsIInv DEF HeadCallFails, Faulty, blockVars
<1>6. CASE BlockCallFails
  BY <1>6, OtherStepsIInv DEF BlockCallFails, Faulty, blockVars
<1>7. CASE NothingNew
  BY <1>7, OtherStepsIInv DEF NothingNew, blockVars, auxVars
<1>8. CASE PollBlocks
  BY <1>8, PollBlocksIInv
<1>9. CASE UNCHANGED vars
  BY <1>9, OtherStepsIInv DEF vars, blockVars, auxVars
<1> QED
  BY <1>1, <1>2, <1>3, <1>4, <1>5, <1>6, <1>7, <1>8, <1>9 DEF Next, Turn

-----------------------------------------------------------------------------
\* What Loop A counts as scanned are different blocks, as long as the worker does not
\* restart (worker/main.py:924-1128).
THEOREM NoBlockIsStoredTwice == Spec => []NoBlockTwice
<1>1. IngestionIInv => NoBlockTwice
  BY DEF IngestionIInv
<1> QED
  BY <1>1, InitIngestionIInv, NextIngestionIInv, PTL DEF Spec

\* Each turn with a fault costs the rules at most its own four blocks, and no other turn
\* costs them any, although process_block swallows most of its errors and the loop moves
\* on with get_logs (worker/main.py:957-1130, telemetry/evm_listener.py:209-313).
THEOREM FewAreUnheard == Spec => []FewBlocksUnheard
<1>1. IngestionIInv => FewBlocksUnheard
  BY DEF IngestionIInv
<1> QED
  BY <1>1, InitIngestionIInv, NextIngestionIInv, PTL DEF Spec

\* A worker that is at most four blocks behind passes over no block it has not stored.
THEOREM NoGapCloseToHead == Spec => NoGapWhenClose
<1> DEFINE Passed == processed > 0 /\ processed' > processed /\ head - processed <= 4 =>
                        (processed + 1)..processed' \subseteq fetched'
<1>1. IngestionIInv /\ [Next]_vars => [Passed]_vars
  <2> SUFFICES ASSUME IngestionIInv, Next, processed > 0, processed' > processed,
                      head - processed <= 4
               PROVE  (processed + 1)..processed' \subseteq fetched'
    BY DEF vars
  <2>1. BlocksTypeOK
    BY DEF IngestionIInv
  <2>2. CASE NewBlock \/ Tick \/ Reconnect \/ HeadCallFails \/ BlockCallFails \/ NothingNew
    <3>1. processed' = processed
      BY <2>2 DEF NewBlock, Tick, Reconnect, HeadCallFails, BlockCallFails, NothingNew, blockVars
    <3> QED
      BY <2>1, <3>1 DEF BlocksTypeOK
  <2>3. CASE Restart
    <3>1. processed' = 0
      BY <2>3 DEF Restart
    <3> QED
      BY <2>1, <3>1 DEF BlocksTypeOK
  <2>4. CASE PollBlocks
    <3>1. PICK logsOK \in BOOLEAN :
              /\ StartedAt(head) < head
              /\ fetched' = IF logsOK THEN fetched \cup FromBlock(head)..head ELSE fetched
              /\ processed' = IF logsOK THEN head ELSE StartedAt(head)
      BY <2>4 DEF PollBlocks, ProcessedAfter
    <3>2. StartedAt(head) = processed
      BY <2>1 DEF StartedAt, BlocksTypeOK
    <3>3. FromBlock(head) = processed + 1
      BY <2>1, <3>1, TurnBlocks
    <3>4. logsOK
      BY <2>1, <3>1, <3>2 DEF BlocksTypeOK
    <3> QED
      BY <3>1, <3>3, <3>4
  <2> QED
    BY <2>2, <2>3, <2>4 DEF Next, Turn
<1> QED
  BY <1>1, InitIngestionIInv, NextIngestionIInv, PTL DEF Spec, NoGapWhenClose

-----------------------------------------------------------------------------
(* The guards.                                                             *)

LEMMA GuardConstants ==
    /\ Threshold \in Nat /\ Threshold >= 1 /\ BaseCooldown \in Nat /\ BaseCooldown >= 1
    /\ MaxCooldown \in Nat /\ MaxCooldown >= BaseCooldown
    /\ BaseBackoff \in Nat /\ BaseBackoff >= 1 /\ MaxBackoff \in Nat /\ MaxBackoff >= BaseBackoff
    /\ ReconnectInterval \in Nat /\ ReconnectInterval >= 1
    /\ MaxHead \in Nat /\ MaxHead >= 1 /\ MaxFaults \in Nat /\ MaxRestarts \in Nat
  BY IngestionAssumption

LEMMA BreakerFields ==
    ASSUME NEW b \in Breakers
    PROVE  /\ b.state \in {CLOSED, OPEN, HALF_OPEN} /\ b.failures \in 0..Threshold
           /\ b.open_left \in 0..MaxCooldown /\ b.cooldown \in 0..MaxCooldown
  BY DEF Breakers

\* One field of a breaker is assigned.
LEMMA StateAssigned ==
    ASSUME NEW b \in Breakers, NEW s \in {CLOSED, OPEN, HALF_OPEN}
    PROVE  /\ [b EXCEPT !.state = s] \in Breakers
           /\ [b EXCEPT !.state = s].state = s
           /\ [b EXCEPT !.state = s].failures = b.failures
           /\ [b EXCEPT !.state = s].open_left = b.open_left
           /\ [b EXCEPT !.state = s].cooldown = b.cooldown
  BY DEF Breakers

LEMMA FailuresAssigned ==
    ASSUME NEW b \in Breakers, NEW n \in 0..Threshold
    PROVE  /\ [b EXCEPT !.failures = n] \in Breakers
           /\ [b EXCEPT !.failures = n].state = b.state
           /\ [b EXCEPT !.failures = n].failures = n
           /\ [b EXCEPT !.failures = n].open_left = b.open_left
           /\ [b EXCEPT !.failures = n].cooldown = b.cooldown
  BY DEF Breakers

LEMMA OpenLeftAssigned ==
    ASSUME NEW b \in Breakers, NEW n \in 0..MaxCooldown
    PROVE  [b EXCEPT !.open_left = n] \in Breakers
  BY DEF Breakers

LEMMA ObservedFields ==
    ASSUME NEW b \in Breakers
    PROVE  /\ Observed(b) \in Breakers
           /\ Observed(b).state = IF b.state = OPEN /\ b.open_left = 0 THEN HALF_OPEN ELSE b.state
           /\ Observed(b).failures = b.failures
           /\ Observed(b).open_left = b.open_left /\ Observed(b).cooldown = b.cooldown
<1>1. CASE b.state = OPEN /\ b.open_left = 0
  BY <1>1, StateAssigned DEF Observed
<1>2. CASE ~(b.state = OPEN /\ b.open_left = 0)
  <2>1. Observed(b) = b
    BY <1>2 DEF Observed
  <2> QED
    BY <1>2, <2>1
<1> QED
  BY <1>1, <1>2

\* A trip at least doubles the cooldown, up to the maximum.
LEMMA TrippedFields ==
    ASSUME NEW b \in Breakers
    PROVE  /\ Tripped(b) \in Breakers /\ Tripped(b).state = OPEN
           /\ Tripped(b).open_left >= Smaller(2 * b.cooldown, MaxCooldown)
<1> DEFINE cooldown == IF b.cooldown = 0 THEN BaseCooldown
                       ELSE Smaller(2 * b.cooldown, MaxCooldown)
<1>1. b.cooldown \in 0..MaxCooldown
  BY DEF Breakers
<1>2. cooldown \in 0..MaxCooldown /\ cooldown >= Smaller(2 * b.cooldown, MaxCooldown)
  BY <1>1, GuardConstants DEF Smaller
<1>3. Tripped(b) = [b EXCEPT !.state = OPEN, !.open_left = cooldown, !.cooldown = cooldown]
  BY DEF Tripped
<1> HIDE DEF cooldown
<1>4. /\ Tripped(b) \in Breakers /\ Tripped(b).state = OPEN /\ Tripped(b).open_left = cooldown
  BY <1>2, <1>3 DEF Breakers
<1> QED
  BY <1>2, <1>4

LEMMA SucceededFields ==
    ASSUME NEW b \in Breakers
    PROVE  Succeeded(b) \in Breakers /\ Succeeded(b).state = CLOSED
<1>1. 0 \in 0..Threshold
  BY GuardConstants
<1>2. Succeeded(b) = [b EXCEPT !.state = CLOSED, !.failures = 0]
  BY DEF Succeeded
<1> QED
  BY <1>1, <1>2 DEF Breakers

\* A failure of the probe reopens the circuit.
LEMMA FailedFields ==
    ASSUME NEW b \in Breakers
    PROVE  /\ Failed(b) \in Breakers
           /\ Observed(b).state = HALF_OPEN =>
                  /\ Failed(b).state = OPEN
                  /\ Failed(b).open_left >= Smaller(2 * b.cooldown, MaxCooldown)
<1> DEFINE n == Smaller(b.failures + 1, Threshold)
           g == [b EXCEPT !.failures = n]
           f == Observed(g)
<1>1. n \in 0..Threshold
  BY BreakerFields, GuardConstants DEF Smaller
<1>2. Failed(b) = IF f.state = HALF_OPEN \/ f.failures >= Threshold THEN Tripped(f) ELSE f
  BY DEF Failed
<1> HIDE DEF n
<1>3. /\ g \in Breakers /\ g.state = b.state /\ g.open_left = b.open_left
      /\ g.cooldown = b.cooldown
  BY <1>1, FailuresAssigned
<1> HIDE DEF g
<1>4. /\ f \in Breakers /\ f.cooldown = b.cooldown
      /\ f.state = Observed(b).state
  BY <1>3, ObservedFields
<1> HIDE DEF f
<1>5. /\ Tripped(f) \in Breakers /\ Tripped(f).state = OPEN
      /\ Tripped(f).open_left >= Smaller(2 * b.cooldown, MaxCooldown)
  BY <1>4, TrippedFields
<1> QED
  BY <1>2, <1>4, <1>5

LEMMA LimiterFields ==
    ASSUME NEW l \in Limiters
    PROVE  /\ Limited(l) \in Limiters /\ Limited(l).backoff_left > 0
           /\ Unlimited(l) \in Limiters
<1> DEFINE backoff == IF l.backoff = 0 THEN BaseBackoff ELSE Smaller(2 * l.backoff, MaxBackoff)
<1>1. l.backoff \in 0..MaxBackoff
  BY DEF Limiters
<1>2. backoff \in 0..MaxBackoff /\ backoff > 0
  BY <1>1, GuardConstants DEF Smaller
<1>3. Limited(l) = [backoff_left |-> backoff, backoff |-> backoff]
  BY DEF Limited
<1> HIDE DEF backoff
<1>4. Limited(l) \in Limiters /\ Limited(l).backoff_left > 0
  BY <1>2, <1>3 DEF Limiters
<1>5. 0 \in 0..MaxBackoff
  BY GuardConstants
<1>6. Unlimited(l) \in Limiters
  BY <1>5 DEF Unlimited, Limiters
<1> QED
  BY <1>4, <1>6

\* Both guards keep their types, however the calls of a turn end.
GuardsTypeOK ==
    /\ connected \in BOOLEAN /\ reconnect_left \in 0..ReconnectInterval
    /\ breaker \in Breakers /\ limiter \in Limiters

LEMMA FreshGuards == FreshBreaker \in Breakers /\ FreshLimiter \in Limiters
<1>1. 0 \in 0..Threshold /\ 0 \in 0..MaxCooldown /\ 0 \in 0..MaxBackoff
  BY GuardConstants
<1> QED
  BY <1>1 DEF FreshBreaker, FreshLimiter, Breakers, Limiters

LEMMA TickGuards ==
    ASSUME GuardsTypeOK, Tick
    PROVE  GuardsTypeOK'
<1>1. PICK n \in 0..MaxCooldown : n = Larger(0, breaker.open_left - 1)
  BY BreakerFields, GuardConstants DEF GuardsTypeOK, Larger
<1>2. breaker' = [breaker EXCEPT !.open_left = n]
  BY <1>1 DEF Tick
<1>3. limiter.backoff_left \in 0..MaxBackoff
  BY DEF GuardsTypeOK, Limiters
<1>4. PICK m \in 0..MaxBackoff : m = Larger(0, limiter.backoff_left - 1)
  BY <1>3, GuardConstants DEF Larger
<1>5. limiter' = [limiter EXCEPT !.backoff_left = m]
  BY <1>4 DEF Tick
<1>6. limiter' \in Limiters
  BY <1>5 DEF GuardsTypeOK, Limiters
<1>7. reconnect_left' \in 0..ReconnectInterval /\ connected' = connected
  BY GuardConstants DEF GuardsTypeOK, Tick, Larger
<1> QED
  BY <1>2, <1>6, <1>7, OpenLeftAssigned DEF GuardsTypeOK

LEMMA TurnGuards ==
    ASSUME GuardsTypeOK, Turn
    PROVE  GuardsTypeOK'
<1> USE DEF GuardsTypeOK
<1>1. /\ Succeeded(breaker) \in Breakers /\ Failed(breaker) \in Breakers
      /\ Observed(breaker) \in Breakers
  BY SucceededFields, FailedFields, ObservedFields
<1>2. Failed(Observed(breaker)) \in Breakers /\ Failed(Succeeded(breaker)) \in Breakers
  BY <1>1, FailedFields
<1>3. /\ Limited(limiter) \in Limiters /\ Unlimited(limiter) \in Limiters
  BY LimiterFields
<1>4. Limited(Unlimited(limiter)) \in Limiters
  BY <1>3, LimiterFields
<1>5. Limited(Limited(Unlimited(limiter))) \in Limiters
  BY <1>4, LimiterFields
<1>6. CASE Reconnect
  <2>1. /\ reconnect_left' = ReconnectInterval /\ limiter' = limiter
        /\ connected' \in BOOLEAN /\ breaker' \in {Succeeded(breaker), Failed(breaker)}
    BY <1>6 DEF Reconnect
  <2>2. reconnect_left' \in 0..ReconnectInterval
    BY <2>1, GuardConstants
  <2> QED
    BY <1>1, <2>1, <2>2
<1>7. CASE HeadCallFails
  BY <1>1, <1>2, <1>3, <1>7 DEF HeadCallFails
<1>8. CASE BlockCallFails
  BY <1>1, <1>2, <1>3, <1>4, <1>8 DEF BlockCallFails
<1>9. CASE NothingNew
  BY <1>1, <1>3, <1>9 DEF NothingNew
<1>10. CASE PollBlocks
  <2>1. /\ connected' = connected /\ reconnect_left' = reconnect_left
        /\ breaker' \in {Succeeded(breaker), Failed(Succeeded(breaker))}
    BY <1>10 DEF PollBlocks
  <2>2. limiter' \in {Unlimited(limiter), Limited(Unlimited(limiter)),
                      Limited(Limited(Unlimited(limiter)))}
    BY <1>10 DEF PollBlocks
  <2> QED
    BY <1>1, <1>2, <1>3, <1>4, <1>5, <2>1, <2>2
<1> QED
  BY <1>6, <1>7, <1>8, <1>9, <1>10 DEF Turn

LEMMA InitGuards == Init => GuardsTypeOK
  BY FreshGuards, GuardConstants DEF Init, GuardsTypeOK

LEMMA NextGuards == GuardsTypeOK /\ [Next]_vars => GuardsTypeOK'
<1> SUFFICES ASSUME GuardsTypeOK, [Next]_vars PROVE GuardsTypeOK'
  OBVIOUS
<1>1. CASE NewBlock
  BY <1>1 DEF NewBlock, guardVars, GuardsTypeOK
<1>2. CASE Restart
  BY <1>2, FreshGuards, GuardConstants DEF Restart, GuardsTypeOK
<1>3. CASE UNCHANGED vars
  BY <1>3 DEF vars, guardVars, GuardsTypeOK
<1> QED
  BY <1>1, <1>2, <1>3, TickGuards, TurnGuards DEF Next

LEMMA ProbeFails ==
    ASSUME GuardsTypeOK, Observed(breaker).state = HALF_OPEN,
           breaker' = Failed(breaker) \/ breaker' = Failed(Observed(breaker))
    PROVE  /\ breaker'.state = OPEN
           /\ breaker'.open_left >= Smaller(2 * breaker.cooldown, MaxCooldown)
<1>1. breaker \in Breakers
  BY DEF GuardsTypeOK
<1>2. /\ Observed(breaker) \in Breakers /\ Observed(breaker).cooldown = breaker.cooldown
      /\ Observed(Observed(breaker)).state = HALF_OPEN
  <2>1. Observed(breaker) \in Breakers /\ Observed(breaker).cooldown = breaker.cooldown
    BY <1>1, ObservedFields
  <2>2. Observed(Observed(breaker)) = Observed(breaker)
    BY DEF Observed, OPEN, HALF_OPEN
  <2> QED
    BY <2>1, <2>2
<1> QED
  BY <1>1, <1>2, FailedFields

\* A half open circuit is decided by its probe, however often it was tripped before and
\* however many calls have failed (worker/main.py, CircuitBreaker and RateLimitHandler).
THEOREM ProbesDecide == Spec => ProbeDecides
<1> DEFINE Decided ==
      \/ breaker'.state = CLOSED /\ connected' # connected
      \/ breaker'.state = HALF_OPEN /\ limiter'.backoff_left > 0
      \/ breaker'.state = OPEN
           /\ breaker'.open_left >= Smaller(2 * breaker.cooldown, MaxCooldown)
<1>1. ASSUME GuardsTypeOK, HeadCallFails \/ Reconnect, Observed(breaker).state = HALF_OPEN
      PROVE  Decided
  <2>1. CASE breaker' = Failed(breaker) \/ breaker' = Failed(Observed(breaker))
    BY <1>1, <2>1, ProbeFails
  <2>2. CASE HeadCallFails /\ breaker' = Observed(breaker) /\ limiter' = Limited(limiter)
    BY <1>1, <2>2, LimiterFields DEF GuardsTypeOK
  <2>3. CASE Reconnect /\ connected' = TRUE /\ breaker' = Succeeded(breaker)
    BY <1>1, <2>3, SucceededFields DEF GuardsTypeOK, Reconnect
  <2> QED
    BY <1>1, <2>1, <2>2, <2>3 DEF HeadCallFails, Reconnect
<1>2. GuardsTypeOK /\ [Next]_vars =>
          [(HeadCallFails \/ Reconnect) /\ Observed(breaker).state = HALF_OPEN => Decided]_vars
  BY <1>1
<1> HIDE DEF Decided
<1>3. Spec => [][(HeadCallFails \/ Reconnect) /\ Observed(breaker).state = HALF_OPEN => Decided]_vars
  BY <1>2, InitGuards, NextGuards, PTL DEF Spec
<1> QED
  BY <1>3 DEF ProbeDecides, Decided

-----------------------------------------------------------------------------
(* Types.                                                                  *)

BlocksBounded ==
    /\ head <= MaxHead /\ listened \subseteq 1..MaxHead
    /\ faults \in 0..MaxFaults /\ restarts \in 0..MaxRestarts

LEMMA NextBounded ==
    ASSUME BlocksTypeOK, BlocksBounded, [Next]_vars
    PROVE  BlocksBounded'
<1> USE GuardConstants DEF BlocksTypeOK, BlocksBounded
<1>1. CASE NewBlock
  BY <1>1 DEF NewBlock, blockVars, auxVars
<1>2. CASE Tick \/ NothingNew \/ UNCHANGED vars
  <2>1. UNCHANGED <<head, listened, faults, restarts>>
    BY <1>2 DEF Tick, NothingNew, vars, blockVars, auxVars
  <2> QED
    BY <2>1
<1>3. CASE Restart
  BY <1>3 DEF Restart
<1>4. CASE Reconnect \/ HeadCallFails \/ BlockCallFails
  <2>1. UNCHANGED <<head, listened, restarts>> /\ (UNCHANGED faults \/ Faulty)
    BY <1>4 DEF Reconnect, HeadCallFails, BlockCallFails, blockVars
  <2> QED
    BY <2>1 DEF Faulty
<1>5. CASE PollBlocks
  <2>1. PICK reached \in (FromBlock(head) - 1)..head :
           \E missed : listened' = listened \cup Heard(FromBlock(head), reached, missed)
    BY <1>5 DEF PollBlocks
  <2>2. FromBlock(head) \in Nat /\ FromBlock(head) >= 1
    BY DEF FromBlock, StartedAt, Larger
  <2>3. \A missed : Heard(FromBlock(head), reached, missed) \subseteq 1..MaxHead
    <3>1. PICK from \in Nat : from = FromBlock(head) /\ from >= 1
      BY <2>2
    <3>2. reached \in Int /\ reached <= MaxHead
      BY <2>1, <3>1
    <3> QED
      BY <3>1, <3>2 DEF Heard
  <2>4. head' = head /\ restarts' = restarts /\ (faults' = faults \/ Faulty)
    BY <1>5 DEF PollBlocks
  <2> QED
    <3>1. listened' \subseteq 1..MaxHead
      BY <2>1, <2>3
    <3>2. head' <= MaxHead /\ restarts' \in 0..MaxRestarts
      BY <2>4
    <3>3. faults' \in 0..MaxFaults
      BY <2>4 DEF Faulty
    <3> QED
      BY <3>1, <3>2, <3>3
<1> QED
  BY <1>1, <1>2, <1>3, <1>4, <1>5 DEF Next, Turn

\* The state of the loop keeps its types: the breaker and the limiter stay within their
\* thresholds, cooldowns and backoffs, and no block outside the chain is stored or heard.
THEOREM IngestionTypeCorrect == Spec => []TypeOK
<1>1. Init => BlocksBounded
  BY GuardConstants DEF Init, BlocksBounded
<1>2. IngestionIInv => BlocksTypeOK
  BY DEF IngestionIInv
<1>3. BlocksTypeOK /\ BlocksBounded /\ GuardsTypeOK => TypeOK
  BY GuardConstants DEF BlocksTypeOK, BlocksBounded, GuardsTypeOK, TypeOK
<1> QED
  BY <1>1, <1>2, <1>3, InitIngestionIInv, NextIngestionIInv, InitGuards, NextGuards,
     NextBounded, PTL DEF Spec
=============================================================================
