--------------------------- MODULE IncidentCreation ---------------------------
(***************************************************************************)
(* How the worker turns what its detectors report about an event into      *)
(* incidents and responses (src/worker/main.py): _create_incident_from_rule *)
(* for every rule that matched, in the order of the rules, then            *)
(* _create_ml_incident when the threat detector predicts a threat.         *)
(*                                                                         *)
(* The events of a chain are handled one after another, and every cache    *)
(* key holds the chain, so the module follows the handler of one chain.    *)
(* Its calls of save_incident therefore never overlap for one key;         *)
(* IncidentStore models that operation request by request.                 *)
(***************************************************************************)
EXTENDS Integers, FiniteSets

CONSTANTS
    Rules, Threats,    \* the detectors: YAML rules and threat types
    Position,          \* [Rules \cup Threats -> Nat] the order they are handled in
    Events,            \* chain, contract, block and transaction: _event_dedupe_key
    Contracts, ContractOf,        \* [Events -> Contracts]
    NoEvent, NoDetector, NoId,
    EventWindow,       \* 300 s
    RuleWindow,        \* 1800 s
    Hour,              \* 3600 s: window of threats, age at which rule entries are purged
    MaxTime,           \* bound: the clock
    MaxCalls,          \* bound: calls of save_incident
    MaxFailures,       \* bound: calls of save_incident that meet a failing request
    MaxRestarts        \* bound: restarts of the worker

Detectors == Rules \cup Threats

ASSUME CreationAssumption ==
    /\ Rules \cap Threats = {} /\ NoDetector \notin Detectors
    /\ Position \in [Detectors -> Nat]
    /\ ContractOf \in [Events -> Contracts] /\ NoEvent \notin Events
    /\ {EventWindow, RuleWindow, Hour} \subseteq Nat \ {0}
    /\ EventWindow <= RuleWindow /\ RuleWindow <= Hour
    /\ {MaxTime, MaxCalls, MaxFailures, MaxRestarts} \subseteq Nat
    /\ NoId \notin Nat

VARIABLES
    now,
    event, todo,       \* the event being handled and the detectors still to be handled
    detector, started, \* the detector being handled, and since when
    data,              \* incident_data: its id, cluster_key and whether it is HIGH or above
    saved,             \* the id save_incident returned
    event_cache,       \* _event_incident_cache
    key_cache,         \* _rule_incident_cache and _ml_incident_cache
    rows,              \* incidents table
    processed,         \* PROCESSED idempotency records
    announced,         \* ids an alert and a Guardian response were started for
    created,           \* auxiliary: what the worker counted as created since its start
    unheard,           \* auxiliary: calls that raised although their incident was stored
    calls, failures, restarts

handling == <<event, todo, detector, started, data, saved>>
store    == <<rows, processed>>
caches   == <<event_cache, key_cache>>
bounds   == <<unheard, calls, failures, restarts>>
vars == <<now, handling, store, announced, caches, created, bounds>>

Ids  == 1..MaxCalls
Keys == Detectors \X Contracts
Clusters == Keys \X Nat
NoData == [id |-> NoId]
Entries(K) == [key: K, at: Nat]

TypeOK ==
    /\ now \in 0..MaxTime
    /\ event \in Events \cup {NoEvent} /\ todo \subseteq Detectors
    /\ detector \in Detectors \cup {NoDetector} /\ started \in 0..MaxTime
    /\ data \in [id: Ids, cluster: Clusters, loud: BOOLEAN] \cup {NoData}
    /\ saved \in Ids \cup {NoId}
    /\ event_cache \subseteq Entries(Events) /\ key_cache \subseteq Entries(Keys)
    /\ rows \subseteq [id: Ids, cluster: Clusters, loud: BOOLEAN]
    /\ processed \subseteq [id: Ids, cluster: Clusters]
    /\ announced \subseteq Ids
    /\ created \subseteq [id: Ids, saved: Ids, key: Keys, event: Events, at: Nat]
    /\ unheard \in Nat
    /\ calls \in 0..MaxCalls /\ failures \in 0..MaxFailures /\ restarts \in 0..MaxRestarts

Idle ==
    /\ event = NoEvent /\ todo = {} /\ detector = NoDetector /\ started = 0
    /\ data = NoData /\ saved = NoId

Init ==
    /\ now = 0 /\ Idle
    /\ event_cache = {} /\ key_cache = {}
    /\ rows = {} /\ processed = {}
    /\ announced = {} /\ created = {}
    /\ unheard = 0 /\ calls = 0 /\ failures = 0 /\ restarts = 0

-----------------------------------------------------------------------------
(* The caches.                                                             *)

KeyOf(d, e) == <<d, ContractOf[e]>>
Window(d) == IF d \in Rules THEN RuleWindow ELSE Hour

InForce(cache, key, window, time) == \E x \in cache : x.key = key /\ time - x.at < window

\* Another rule has opened an incident for the event, or this detector has for the
\* contract.  Threats have no cache of events.
Known(e, d) ==
    \/ d \in Rules /\ InForce(event_cache, e, EventWindow, now)
    \/ InForce(key_cache, KeyOf(d, e), Window(d), now)

Entered(cache, key) ==
    {x \in cache : x.key # key} \cup {[key |-> key, at |-> started]}

\* Mutant: entries are dropped after the window of events.
PurgedEarly(cache, age) == {x \in cache : started - x.at < EventWindow}

Purged(cache, age) == {x \in cache : started - x.at < age}

\* The caches after an incident of the detector: rules enter the event and themselves
\* and purge both caches after an hour, threats enter themselves and purge after two.
EventCacheAfter(d, e) ==
    IF d \in Rules THEN Purged(Entered(event_cache, e), Hour) ELSE event_cache

KeyCacheAfter(d, e) ==
    LET entered == Entered(key_cache, KeyOf(d, e))
        ofRules == {x \in entered : x.key[1] \in Rules}
    IN  IF d \in Rules THEN Purged(ofRules, Hour) \cup (entered \ ofRules)
                       ELSE ofRules \cup Purged(entered \ ofRules, 2 * Hour)

-----------------------------------------------------------------------------
(* Handling an event.                                                      *)

\* The rules that matched and the threat that was predicted, at most one.
HandleEvent(e, detected) ==
    /\ event = NoEvent
    /\ event' = e /\ todo' = detected
    /\ UNCHANGED <<now, detector, started, data, saved, store, announced, caches, created, bounds>>

\* The event is done with when no detector is left.
Rest(left) == event' = IF left = {} THEN NoEvent ELSE event

\* The next detector, in order, is known, or the analyzer takes its match for a false
\* positive, or there will be an incident.  Its severity is the analyzer's, adjusted.
Consider(d) ==
    /\ d \in todo /\ detector = NoDetector
    /\ \A x \in todo : Position[d] <= Position[x]
    /\ \/ /\ Known(event, d) \/ d \in Rules
          /\ Rest(todo \ {d})
          /\ UNCHANGED <<detector, started, data, calls>>
       \/ /\ ~Known(event, d)
          /\ calls < MaxCalls /\ calls' = calls + 1
          /\ detector' = d /\ started' = now
          /\ \E loud \in BOOLEAN :
                data' = [id |-> calls + 1, loud |-> loud,
                         cluster |-> <<KeyOf(d, event), now \div Hour>>]
          /\ UNCHANGED event
    /\ todo' = todo \ {d}
    /\ UNCHANGED <<now, saved, store, announced, caches, created, unheard, failures,
                   restarts>>

-----------------------------------------------------------------------------
(* save_incident.                                                          *)

Row    == [id |-> data.id, cluster |-> data.cluster, loud |-> data.loud]
Record(i) == [id |-> i, cluster |-> data.cluster]
RecordedIds == {r.id : r \in {p \in processed : p.cluster = data.cluster}}
StoredIds == {r.id : r \in {q \in rows : q.cluster = data.cluster}}

Saving == detector # NoDetector /\ saved = NoId

\* The key is PROCESSED: the id of its record is returned and nothing is written.
SaveKnown(i) ==
    /\ Saving /\ i \in RecordedIds
    /\ saved' = i
    /\ UNCHANGED <<now, event, todo, detector, started, data, store, announced, caches,
                   created, bounds>>

\* The incident of the key is updated, or a new one inserted; the record may fail to be
\* written without the caller noticing.
SaveRow ==
    /\ Saving /\ RecordedIds = {}
    /\ \/ StoredIds = {} /\ rows' = rows \cup {Row} /\ saved' = data.id
       \/ saved' \in StoredIds /\ UNCHANGED rows
    /\ \/ processed' = processed \cup {Record(saved')} /\ UNCHANGED failures
       \/ /\ failures < MaxFailures /\ failures' = failures + 1
          /\ UNCHANGED processed
    /\ UNCHANGED <<now, event, todo, detector, started, data, announced, caches, created,
                   unheard, calls, restarts>>

\* Mutant: the caches are entered before the incident is saved.
SaveFailsCached ==
    /\ Saving /\ failures < MaxFailures /\ failures' = failures + 1
    /\ event_cache' = EventCacheAfter(detector, event)
    /\ key_cache' = KeyCacheAfter(detector, event)
    /\ detector' = NoDetector /\ started' = 0 /\ data' = NoData
    /\ Rest(todo)
    /\ UNCHANGED <<now, todo, saved, store, announced, created, unheard, calls, restarts>>

\* The call raises.  When it is the commit of a new incident that does, the key may be
\* recorded as PROCESSED by then, and the incident stored: a commit that took effect raises,
\* too, when its answer is lost.
SaveFails ==
    /\ Saving /\ failures < MaxFailures /\ failures' = failures + 1
    /\ \/ UNCHANGED <<store, unheard>>
       \/ /\ RecordedIds = {} /\ StoredIds = {}
          /\ processed' \in {processed, processed \cup {Record(data.id)}}
          /\ \/ UNCHANGED <<rows, unheard>>
             \/ rows' = rows \cup {Row} /\ unheard' = unheard + 1
    /\ detector' = NoDetector /\ started' = 0 /\ data' = NoData
    /\ Rest(todo)
    /\ UNCHANGED <<now, todo, saved, announced, caches, created, calls, restarts>>

\* Mutant: the tasks are created for an incident that was inserted, by its record.
LoudRecorded == data.loud /\ Record(saved) \in processed

\* Alerts and responses are for HIGH and CRITICAL incidents.
Loud == data.loud

\* The caches are entered, and the tasks of the alert and of the response are started;
\* they carry the id of the call's own incident_data, whichever id save_incident returned.
Announce ==
    /\ saved # NoId
    /\ event_cache' = EventCacheAfter(detector, event)
    /\ key_cache' = KeyCacheAfter(detector, event)
    /\ announced' = announced \cup (IF Loud THEN {data.id} ELSE {})
    /\ created' = created \cup {[id |-> data.id, saved |-> saved, event |-> event,
                                 key |-> KeyOf(detector, event), at |-> started]}
    /\ detector' = NoDetector /\ started' = 0 /\ data' = NoData /\ saved' = NoId
    /\ Rest(todo)
    /\ UNCHANGED <<now, todo, store, bounds>>

-----------------------------------------------------------------------------
Tick ==
    /\ now < MaxTime /\ now' = now + 1
    /\ UNCHANGED <<handling, store, announced, caches, created, bounds>>

\* The worker is replaced: the tables survive.
Restart ==
    /\ restarts < MaxRestarts /\ restarts' = restarts + 1
    /\ event' = NoEvent /\ todo' = {} /\ detector' = NoDetector /\ started' = 0
    /\ data' = NoData /\ saved' = NoId
    /\ event_cache' = {} /\ key_cache' = {}
    /\ created' = {}
    /\ UNCHANGED <<now, store, announced, unheard, calls, failures>>

Detections == {S \in SUBSET Detectors : S # {} /\ Cardinality(S \cap Threats) <= 1}

Next ==
    \/ \E e \in Events, S \in Detections : HandleEvent(e, S)
    \/ \E d \in Detectors : Consider(d)
    \/ \E i \in Ids : SaveKnown(i)
    \/ SaveRow \/ SaveFails \/ Announce
    \/ Tick \/ Restart

Spec == Init /\ [][Next]_vars

-----------------------------------------------------------------------------
(* Properties.                                                             *)

\* main.py:2180, 2190 and 2487: since the worker's start, a rule opens at most one incident
\* on a contract in 30 minutes and a threat in an hour, and rules open at most one for
\* an event in 5 minutes: nothing purges a cache entry or passes it over in its window.
AlertsAreSpaced ==
    \A b, c \in created : b.id < c.id =>
        /\ b.key = c.key => c.at - b.at >= Window(c.key[1])
        /\ b.event = c.event /\ {b.key[1], c.key[1]} \subseteq Rules =>
               c.at - b.at >= EventWindow

\* What the caches suppress has an incident: every entry stems from a call that stored
\* one, or whose key save_incident had recorded as PROCESSED.  A save that raised
\* suppresses nothing, and the next match is tried again.
SuppressedIsStored ==
    LET Vouched(i) == \E r \in rows \cup processed : r.id = i
    IN  /\ \A x \in key_cache : \E c \in created :
               c.key = x.key /\ c.at = x.at /\ Vouched(c.saved)
        /\ \A x \in event_cache : \E c \in created :
               c.event = x.key /\ c.at = x.at /\ Vouched(c.saved)

\* A HIGH or CRITICAL incident that is stored was announced under its own id, or the call
\* that stored it is still at work.  What goes unannounced costs a commit whose answer was
\* lost, or a worker that died between the commit and the tasks: one incident each, and
\* failures of any other kind cost none.
StoredIsAnnounced ==
    LET silent == {r \in rows : r.loud /\ r.id \notin announced \cup {data.id}}
    IN  Cardinality(silent) <= unheard + restarts
=============================================================================
