----------------------------- MODULE RpcProvider -----------------------------
(***************************************************************************)
(* MultiRpcProvider (src/telemetry/rpc_client.py): the endpoints of one     *)
(* chain, their health and cooldowns, and the calls that fail over between  *)
(* them.  The ingestion loop and the runtime loop share one provider per   *)
(* chain, so their calls interleave at every await.  The quorum mode and    *)
(* update_head_lag have no caller and are left out.                        *)
(***************************************************************************)
EXTENDS Integers, FiniteSets

CONSTANTS
    N,            \* number of endpoints, in the order of rpc_urls
    Callers,      \* the loops that call
    Impatient,    \* the callers that put a timeout of their own around a call
    Threshold,    \* consecutive failures that make an endpoint unhealthy: 3
    Cooldown,     \* unhealthy_cooldown_seconds
    MaxRetries,   \* max_retries: 3
    Nobody        \* endpoint of a caller without a request

Endpoints == 1..N

ASSUME ProviderAssumption ==
    /\ N \in Nat \ {0} /\ Nobody \notin Nat
    /\ Impatient \subseteq Callers
    /\ {Threshold, Cooldown, MaxRetries} \subseteq Nat \ {0}

VARIABLES
    health, failures,   \* EndpointStats: failures is consecutive_failures, up to Threshold
    cooling,            \* time left until unhealthy_until, 0 when passed or None
    index,              \* _current_index
    pc, attempt,        \* where a caller is in its call
    endpoint,           \* the endpoint its request is under way to
    resting,            \* auxiliary: endpoints that have not answered since they were marked
                        \* unhealthy, nor been made available
    tried, ready, alone \* auxiliary: endpoints that failed the call, those available when
                        \* it began, and whether no other call overlapped it

stats == <<health, failures, cooling, resting>>
aux == <<tried, ready, alone>>
providerVars == <<stats, index, pc, attempt, endpoint, aux>>

Healths == {"healthy", "degraded", "unknown", "unhealthy"}

ProviderTypeOK ==
    /\ health \in [Endpoints -> Healths] /\ failures \in [Endpoints -> 0..Threshold]
    /\ cooling \in [Endpoints -> 0..Cooldown] /\ index \in 0..(N - 1)
    /\ pc \in [Callers -> {"idle", "waiting", "sleeping", "raised"}]
    /\ attempt \in [Callers -> 0..MaxRetries]
    /\ endpoint \in [Callers -> Endpoints \cup {Nobody}]
    /\ resting \subseteq Endpoints
    /\ tried \in [Callers -> SUBSET Endpoints] /\ ready \in [Callers -> SUBSET Endpoints]
    /\ alone \in [Callers -> BOOLEAN]

ProviderInit ==
    /\ health = [e \in Endpoints |-> "unknown"]
    /\ failures = [e \in Endpoints |-> 0] /\ cooling = [e \in Endpoints |-> 0]
    /\ resting = {} /\ index = 0
    /\ pc = [c \in Callers |-> "idle"] /\ attempt = [c \in Callers |-> 0]
    /\ endpoint = [c \in Callers |-> Nobody]
    /\ tried = [c \in Callers |-> {}] /\ ready = [c \in Callers |-> {}]
    /\ alone = [c \in Callers |-> FALSE]

-----------------------------------------------------------------------------
(* Selection of an endpoint.                                               *)

\* Mutant: a cooldown ends a moment after it began.
AvailableEarly ==
    {e \in Endpoints : health[e] \in {"healthy", "degraded"} \/ cooling[e] < Cooldown}

Available == {e \in Endpoints : health[e] \in {"healthy", "degraded"} \/ cooling[e] = 0}

Score == [healthy |-> 3, degraded |-> 2, unknown |-> 1, unhealthy |-> 0]

\* The available endpoints are sorted by health, and in the order of the urls.
Before(e, f) ==
    \/ Score[health[e]] > Score[health[f]]
    \/ Score[health[e]] = Score[health[f]] /\ e < f

Nth(S, k) == CHOOSE e \in S : Cardinality({f \in S : Before(f, e)}) = k

\* Mutant: the index is only moved back into the list.
NextIndexStays(S) == index % Cardinality(S)

NextIndex(S) == (index + 1) % Cardinality(S)

\* All are cooling down: one whose cooldown ends first is made available again.
Earliest == {e \in Endpoints : \A f \in Endpoints : cooling[e] <= cooling[f]}

Ask(c, e) ==
    /\ pc' = [pc EXCEPT ![c] = "waiting"]
    /\ attempt' = [attempt EXCEPT ![c] = IF pc[c] = "sleeping" THEN @ + 1 ELSE 1]
    /\ endpoint' = [endpoint EXCEPT ![c] = e]

Select(c) ==
    \/ /\ Available # {}
       /\ index' = NextIndex(Available)
       /\ Ask(c, Nth(Available, index'))
       /\ UNCHANGED stats
    \/ /\ Available = {}
       /\ \E e \in Earliest :
             /\ health' = [health EXCEPT ![e] = "unknown"]
             /\ cooling' = [cooling EXCEPT ![e] = 0]
             /\ resting' = resting \ {e}
             /\ Ask(c, e)
       /\ index' = 0
       /\ UNCHANGED failures

-----------------------------------------------------------------------------
(* Calls.                                                                  *)

InCall(c) == pc[c] \in {"waiting", "sleeping"}

\* A call makes its first request.
Begin(c) ==
    LET others == {d \in Callers \ {c} : InCall(d)}
    IN  /\ ~InCall(c)
        /\ Select(c)
        /\ tried' = [tried EXCEPT ![c] = {}]
        /\ ready' = [ready EXCEPT ![c] = Available]
        /\ alone' = [d \in Callers |-> IF d = c THEN others = {} ELSE alone[d] /\ d \notin others]

\* After half a second, or one: a tick is much longer.
Retry(c) == pc[c] = "sleeping" /\ Select(c) /\ UNCHANGED aux

Finish(c, where) ==
    /\ pc' = [pc EXCEPT ![c] = where]
    /\ endpoint' = [endpoint EXCEPT ![c] = Nobody]

\* The call is over, and what the auxiliary variables know of it is forgotten.
Leave(c) ==
    /\ Finish(c, "idle")
    /\ attempt' = [attempt EXCEPT ![c] = 0]
    /\ tried' = [tried EXCEPT ![c] = {}] /\ ready' = [ready EXCEPT ![c] = {}]
    /\ alone' = [alone EXCEPT ![c] = FALSE]

\* _record_success: the health is the latency's.  unhealthy_until is left as it is.
Answer(c, speed) ==
    LET e == endpoint[c]
    IN  /\ pc[c] = "waiting"
        /\ health' = [health EXCEPT ![e] = speed]
        /\ failures' = [failures EXCEPT ![e] = 0]
        /\ resting' = resting \ {e}
        /\ Leave(c)
        /\ UNCHANGED <<cooling, index>>

\* An answer with a 5xx status is recorded twice, the second time as a ClientError.
Counted(kind) == IF kind = "server" THEN 2 ELSE 1

Marks(kind, count) == kind \in {"server", "timeout"} \/ count >= Threshold

\* _record_failure, and the end of the attempt.
Fail(c, kind) ==
    LET e == endpoint[c]
        count == failures[e] + Counted(kind)
    IN  /\ pc[c] = "waiting"
        /\ failures' = [failures EXCEPT ![e] = IF count < Threshold THEN count ELSE Threshold]
        /\ IF Marks(kind, count)
           THEN /\ health' = [health EXCEPT ![e] = "unhealthy"]
                /\ cooling' = [cooling EXCEPT ![e] = Cooldown]
                /\ resting' = resting \cup {e}
           ELSE UNCHANGED <<health, cooling, resting>>
        /\ Finish(c, IF attempt[c] < MaxRetries THEN "sleeping" ELSE "raised")
        /\ tried' = [tried EXCEPT ![c] = @ \cup {e}]
        /\ UNCHANGED <<index, attempt, ready, alone>>

\* wait_for cancels the call: the cancellation is no failure of the endpoint.
Abandon(c) ==
    /\ c \in Impatient /\ InCall(c)
    /\ Leave(c)
    /\ UNCHANGED <<stats, index>>

CoolDown ==
    /\ cooling # [e \in Endpoints |-> 0]
    /\ cooling' = [e \in Endpoints |-> IF cooling[e] > 0 THEN cooling[e] - 1 ELSE 0]
    /\ UNCHANGED <<health, failures, resting, index, pc, attempt, endpoint, aux>>

Ends(c) ==
    \/ \E speed \in {"healthy", "degraded"} : Answer(c, speed)
    \/ \E kind \in {"error", "server", "timeout"} : Fail(c, kind)

ProviderNext ==
    \/ \E c \in Callers : Begin(c) \/ Retry(c) \/ Ends(c) \/ Abandon(c)
    \/ CoolDown

ProviderSpec == ProviderInit /\ [][ProviderNext]_providerVars

-----------------------------------------------------------------------------
(* Properties.                                                             *)

\* rpc_client.py:78: a call that no other overlaps fails over to every endpoint that was
\* available when it began before it raises, although the list it rotates over is sorted
\* anew, shrinks with a failure and grows when a cooldown ends.  True of two endpoints.
LoneCallTriesAll ==
    \A c \in Callers : pc[c] = "raised" /\ alone[c] => ready[c] \subseteq tried[c]

\* rpc_client.py:145: a request goes to an endpoint in its cooldown only when it has
\* answered since or all of them are cooling down, and then to one that has cooled longest.
CoolingRests ==
    [][\A c \in Callers : \A e \in Endpoints :
          endpoint'[c] = e /\ endpoint[c] # e /\ e \in resting /\ cooling[e] > 0 =>
              \A f \in Endpoints : f \in resting /\ cooling[f] >= cooling[e]]_providerVars
=============================================================================
