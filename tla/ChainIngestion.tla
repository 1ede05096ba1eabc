---------------------------- MODULE ChainIngestion ----------------------------
(***************************************************************************)
(* Loop A of the worker for one chain (Sentinel3Worker.ingestion_loop in   *)
(* src/worker/main.py) with its CircuitBreaker and RateLimitHandler.       *)
(* Nothing else writes this state, so one turn of the loop for the chain   *)
(* is one action; how its RPC calls end is chosen by the environment.      *)
(* Deadlines are kept as the time left, and Tick lets time pass.           *)
(***************************************************************************)
EXTENDS Integers, FiniteSets

CONSTANTS
    Threshold,      \* CircuitBreaker._failure_threshold
    BaseCooldown, MaxCooldown,   \* of the breaker, in ticks
    BaseBackoff, MaxBackoff,     \* of the rate limiter, in ticks
    ReconnectInterval,           \* in ticks
    MaxHead,        \* bound: height of the chain
    MaxFaults,      \* bound: turns with a failing call or a log that cannot be parsed
    MaxRestarts     \* bound: restarts of the worker

ASSUME IngestionAssumption ==
    /\ {Threshold, BaseCooldown, BaseBackoff, ReconnectInterval, MaxHead} \subseteq Nat \ {0}
    /\ {MaxCooldown, MaxBackoff, MaxFaults, MaxRestarts} \subseteq Nat
    /\ MaxCooldown >= BaseCooldown /\ MaxBackoff >= BaseBackoff

CLOSED    == "closed"
OPEN      == "open"
HALF_OPEN == "half_open"

VARIABLES
    head,             \* height of the chain
    connected,        \* listener.w3 is not None
    reconnect_left,   \* until the next reconnect attempt is due
    breaker,          \* [state, failures, open_left, cooldown] cooldown of the last trip
    limiter,          \* [backoff_left, backoff] backoff of the last error in a row, 0 if none
    processed,        \* processed_blocks[chain_id], 0 when it has no entry
    fetched,          \* blocks whose logs were fetched and stored
    listened,         \* blocks all of whose logs process_block handed to the rules
    blocks_scanned,   \* monitor_state's count
    faults, restarts

guardVars == <<connected, reconnect_left, breaker, limiter>>
blockVars == <<processed, fetched, listened, blocks_scanned>>
auxVars   == <<faults, restarts>>
vars == <<head, guardVars, blockVars, auxVars>>

Larger(a, b)  == IF a >= b THEN a ELSE b
Smaller(a, b) == IF a <= b THEN a ELSE b

Breakers == [state: {CLOSED, OPEN, HALF_OPEN}, failures: 0..Threshold,
             open_left: 0..MaxCooldown, cooldown: 0..MaxCooldown]
Limiters == [backoff_left: 0..MaxBackoff, backoff: 0..MaxBackoff]

TypeOK ==
    /\ head \in 1..MaxHead
    /\ connected \in BOOLEAN
    /\ reconnect_left \in 0..ReconnectInterval
    /\ breaker \in Breakers
    /\ limiter \in Limiters
    /\ processed \in 0..MaxHead
    /\ fetched \subseteq 1..MaxHead /\ listened \subseteq 1..MaxHead
    /\ blocks_scanned \in Nat
    /\ faults \in 0..MaxFaults /\ restarts \in 0..MaxRestarts

FreshBreaker == [state |-> CLOSED, failures |-> 0, open_left |-> 0, cooldown |-> 0]
FreshLimiter == [backoff_left |-> 0, backoff |-> 0]

Init ==
    /\ head = 1
    /\ connected \in BOOLEAN /\ reconnect_left = 0
    /\ breaker = FreshBreaker /\ limiter = FreshLimiter
    /\ processed = 0 /\ fetched = {} /\ listened = {} /\ blocks_scanned = 0
    /\ faults = 0 /\ restarts = 0

-----------------------------------------------------------------------------
(* CircuitBreaker.                                                         *)

\* Mutant: an open circuit never gets its probe.
NeverProbed(b) == b

\* state(): an open circuit whose cooldown is over becomes half open when read.
Observed(b) ==
    IF b.state = OPEN /\ b.open_left = 0 THEN [b EXCEPT !.state = HALF_OPEN] ELSE b

\* _trip: the cooldown doubles with every trip, and nothing ever takes it back.
Tripped(b) ==
    LET cooldown == IF b.cooldown = 0 THEN BaseCooldown
                    ELSE Smaller(2 * b.cooldown, MaxCooldown)
    IN  [b EXCEPT !.state = OPEN, !.open_left = cooldown, !.cooldown = cooldown]

Succeeded(b) == [b EXCEPT !.state = CLOSED, !.failures = 0]

\* Mutant: a failed probe closes the circuit again.
ProbeForgiven(b) ==
    LET f == Observed([b EXCEPT !.failures = Smaller(@ + 1, Threshold)])
    IN  IF f.state = HALF_OPEN THEN Succeeded(f)
        ELSE IF f.failures >= Threshold THEN Tripped(f) ELSE f

\* record_failure; failures only matters up to the threshold.
Failed(b) ==
    LET f == Observed([b EXCEPT !.failures = Smaller(@ + 1, Threshold)])
    IN  IF f.state = HALF_OPEN \/ f.failures >= Threshold THEN Tripped(f) ELSE f

(* RateLimitHandler.                                                       *)

\* record_rate_limit: the backoff doubles with every error in a row.
Limited(l) ==
    LET backoff == IF l.backoff = 0 THEN BaseBackoff ELSE Smaller(2 * l.backoff, MaxBackoff)
    IN  [backoff_left |-> backoff, backoff |-> backoff]

\* record_success forgets the errors in a row.
Unlimited(l) == [l EXCEPT !.backoff = 0]

-----------------------------------------------------------------------------
(* The environment.                                                        *)

NewBlock ==
    /\ head < MaxHead
    /\ head' = head + 1
    /\ UNCHANGED <<guardVars, blockVars, auxVars>>

Tick ==
    /\ reconnect_left + breaker.open_left + limiter.backoff_left > 0
    /\ reconnect_left' = Larger(0, reconnect_left - 1)
    /\ breaker' = [breaker EXCEPT !.open_left = Larger(0, @ - 1)]
    /\ limiter' = [limiter EXCEPT !.backoff_left = Larger(0, @ - 1)]
    /\ UNCHANGED <<head, connected, blockVars, auxVars>>

\* The worker process is replaced: all of this is kept in memory only.
Restart ==
    /\ restarts < MaxRestarts
    /\ restarts' = restarts + 1
    /\ connected' \in BOOLEAN /\ reconnect_left' = 0
    /\ breaker' = FreshBreaker /\ limiter' = FreshLimiter
    /\ processed' = 0
    /\ UNCHANGED <<head, fetched, listened, blocks_scanned, faults>>

-----------------------------------------------------------------------------
(* One turn of the loop.                                                   *)

Faulty == faults < MaxFaults /\ faults' = faults + 1

\* The auto-reconnect at the top of the loop.
Reconnect ==
    /\ ~connected /\ reconnect_left = 0
    /\ reconnect_left' = ReconnectInterval
    /\ \/ connected' = TRUE /\ breaker' = Succeeded(breaker) /\ UNCHANGED faults
       \/ connected' = FALSE /\ breaker' = Failed(breaker) /\ Faulty
    /\ UNCHANGED <<head, limiter, blockVars, restarts>>

\* The chain is polled when the listener is connected, the circuit lets a request
\* through and no backoff runs.
Allowed == connected /\ Observed(breaker).state # OPEN /\ limiter.backoff_left = 0

\* get_block_number does not answer: a timeout counts for both guards, a rate limit
\* error for the limiter, any other error for the breaker.
HeadCallFails ==
    /\ Allowed /\ Faulty
    /\ \/ limiter' = Limited(limiter) /\ breaker' = Failed(Observed(breaker))
       \/ limiter' = Limited(limiter) /\ breaker' = Observed(breaker)
       \/ limiter' = limiter /\ breaker' = Failed(Observed(breaker))
    /\ UNCHANGED <<head, connected, reconnect_left, blockVars, restarts>>

\* On the first run the chain is followed from its head; a chain of height h is
\* otherwise followed from the block after the processed one.
StartedAt(h) == IF processed = 0 THEN h - 1 ELSE processed

\* get_block raises after get_block_number has answered.
BlockCallFails ==
    /\ Allowed /\ Faulty
    /\ \/ limiter' = Limited(Unlimited(limiter)) /\ breaker' = Succeeded(breaker)
       \/ limiter' = Unlimited(limiter) /\ breaker' = Failed(Succeeded(breaker))
    /\ UNCHANGED <<head, connected, reconnect_left, blockVars, restarts>>

NothingNew ==
    /\ Allowed /\ StartedAt(head) >= head
    /\ limiter' = Unlimited(limiter) /\ breaker' = Succeeded(breaker)
    /\ UNCHANGED <<head, connected, reconnect_left, blockVars, auxVars>>

\* Mutant: the blocks start at the processed one.
FromProcessed(h) == Larger(StartedAt(h), h - 3)

FromBlock(h) == Larger(StartedAt(h) + 1, h - 3)

\* Mutant: the processed block moves although the logs were not fetched.
ProcessedAnyway(h, logsOK) == h

ProcessedAfter(h, logsOK) == IF logsOK THEN h ELSE StartedAt(h)

\* Mutant: the listener starts at the block after the first.
HeardLate(from, reached, missed) == ((from + 1)..reached) \ missed

\* process_block returned for from..reached, but swallowed its errors over missed: there
\* the block was not found, a get_logs failed or a log could not be parsed, and what
\* the block holds is not handed to the rules, or only a part of it.
Heard(from, reached, missed) == (from..reached) \ missed

\* A turn with new blocks: process_block runs over them until one raises, then
\* get_logs fetches them all.  A timeout or a rate limit error that reaches the loop
\* backs the chain off; other errors of get_logs count for the breaker, which the
\* answer to get_block_number has just closed.  What process_block swallows reaches
\* neither guard.
PollBlocks ==
    LET from == FromBlock(head) IN
    \E reached \in (from - 1)..head, listenerLimited, logsOK, logsLimited \in BOOLEAN :
    \E missed \in SUBSET (from..reached) :
        /\ Allowed /\ StartedAt(head) < head
        /\ listenerLimited => reached < head
        /\ logsLimited => ~logsOK
        /\ IF reached = head /\ missed = {} /\ logsOK THEN UNCHANGED faults ELSE Faulty
        /\ listened' = listened \cup Heard(from, reached, missed)
        /\ fetched' = IF logsOK THEN fetched \cup from..head ELSE fetched
        /\ processed' = ProcessedAfter(head, logsOK)
        /\ blocks_scanned' = IF logsOK THEN blocks_scanned + (head - from + 1)
                             ELSE blocks_scanned
        /\ limiter' = LET l == IF listenerLimited THEN Limited(Unlimited(limiter))
                               ELSE Unlimited(limiter)
                      IN  IF logsLimited THEN Limited(l) ELSE l
        /\ breaker' = IF logsOK \/ logsLimited THEN Succeeded(breaker)
                      ELSE Failed(Succeeded(breaker))
        /\ UNCHANGED <<head, connected, reconnect_left, restarts>>

Turn == Reconnect \/ HeadCallFails \/ BlockCallFails \/ NothingNew \/ PollBlocks

Next == NewBlock \/ Tick \/ Restart \/ Turn

Spec == Init /\ [][Next]_vars

\* Time passes, the loop keeps turning and the chain keeps growing.
FairSpec == Spec /\ WF_vars(NewBlock) /\ WF_vars(Tick) /\ WF_vars(Turn)

-----------------------------------------------------------------------------
(* Properties.                                                             *)

\* No block is polled twice: what is counted as scanned are different blocks whose logs
\* were stored, as long as the worker does not restart.
NoBlockTwice == restarts = 0 => blocks_scanned = Cardinality(fetched)

\* get_logs moves the loop past the blocks process_block raised at or swallowed: a turn
\* with a fault costs the rules at most its own four blocks, and a turn without one,
\* or one repeated because its get_logs failed, costs them none.
FewBlocksUnheard == Cardinality(fetched \ listened) <= 4 * faults

\* While the worker is at most four blocks behind, the processed block only passes
\* blocks whose logs it has stored.
NoGapWhenClose ==
    [][processed > 0 /\ processed' > processed /\ head - processed <= 4 =>
          (processed + 1)..processed' \subseteq fetched']_vars

\* A half open circuit is decided by its probe, the head request or the reconnect: only
\* an answer closes it, a failure reopens it for longer (up to the maximum), and a rate
\* limit error leaves it for a later probe, after the backoff.
ProbeDecides ==
    [][(HeadCallFails \/ Reconnect) /\ Observed(breaker).state = HALF_OPEN =>
          \/ breaker'.state = CLOSED /\ connected' # connected
          \/ breaker'.state = HALF_OPEN /\ limiter'.backoff_left > 0
          \/ breaker'.state = OPEN
               /\ breaker'.open_left >= Smaller(2 * breaker.cooldown, MaxCooldown)]_vars

\* Whatever failed before, neither guard locks the chain out: once calls stop failing
\* the worker catches up with the head.
CatchesUp == <>[](processed = MaxHead)
=============================================================================
