---------------------------- MODULE EventPipeline ----------------------------
(***************************************************************************)
(* The way of an event through the worker (src/worker/main.py): Loop A     *)
(* saves it directly and publishes it to the in-memory bus, the listener's *)
(* handler saves it and evaluates the rules, Loop B consumes it and saves  *)
(* it again.  All saves go through DatabaseService.save_events_batch into  *)
(* one table.                                                              *)
(*                                                                         *)
(* The loops are asyncio tasks of one process; a step ends where a task    *)
(* awaits something another task can get ahead of.                         *)
(***************************************************************************)
EXTENDS InMemoryBus, FiniteSetsExt

CONSTANTS
    Txs, TxOf,       \* [Events -> Txs]
    NoEvent,
    SeenLimit,       \* entries of the seen set that are too many for it (20000) ...
    SeenKept,        \* ... and what a cut leaves of them (10000)
    MaxSaveFailures, \* bound: saves that fail, wholly, for some of their rows or in their
                     \* answer
    MaxLapses        \* bound: restarts of the worker and cuts of the seen set

ASSUME PipelineAssumption ==
    /\ TxOf \in [Events -> Txs] /\ NoEvent \notin Events
    /\ \A e, f \in Events : KeyOf[e] = KeyOf[f] => TxOf[e] = TxOf[f]
    /\ {SeenLimit, SeenKept, MaxSaveFailures, MaxLapses} \subseteq Nat
    /\ SeenKept <= SeenLimit

VARIABLES
    rows,             \* [Txs -> Events \cup {NoEvent}] the events table
    polling,          \* the event Loop A has saved and not yet published
    seen,             \* _handler_seen_events
    batch,            \* messages Loop B has consumed and not yet saved
    evaluations,      \* [Events -> Nat] rule evaluations of an event
    polled,           \* auxiliary: events Loop A has saved, once or more often
    refused,          \* auxiliary: events whose publication was refused by a full queue
    counted,          \* auxiliary: events save_events_batch has counted as saved
    handled, cuts,    \* auxiliary: calls of the handler that were not skipped; cuts of seen
    saveFailures, restarts

pipelineVars == <<rows, polling, seen, batch, evaluations, polled, refused, counted,
                  handled, cuts, saveFailures, restarts>>
vars == <<busVars, pipelineVars>>

TypeOK ==
    /\ BusTypeOK
    /\ rows \in [Txs -> Events \cup {NoEvent}]
    /\ polling \in Events \cup {NoEvent}
    /\ seen \subseteq Events /\ refused \subseteq Events /\ counted \subseteq Events
    /\ batch \in Seq(Events) /\ Len(batch) <= BatchSize
    /\ evaluations \in [Events -> Nat] /\ polled \subseteq Events
    /\ handled \in Nat /\ cuts \in Nat /\ restarts \in Nat /\ cuts + restarts <= MaxLapses
    /\ saveFailures \in 0..MaxSaveFailures

Init ==
    /\ BusInit
    /\ rows = [t \in Txs |-> NoEvent]
    /\ polling = NoEvent
    /\ seen = {} /\ batch = <<>> /\ polled = {} /\ refused = {} /\ counted = {}
    /\ evaluations = [e \in Events |-> 0]
    /\ handled = 0 /\ cuts = 0 /\ saveFailures = 0 /\ restarts = 0

-----------------------------------------------------------------------------
(* save_events_batch.                                                      *)

ElementsOf(events) == {events[i] : i \in DOMAIN events}

\* Mutant: save_events_batch returns after its first event.
FirstInserted(events, ok) ==
    [t \in Txs |-> IF rows[t] = NoEvent /\ TxOf[events[1]] = t /\ events[1] \in ok
                   THEN events[1] ELSE rows[t]]

\* The loops give save_events_batch no log_index, so a row is known by chain and
\* transaction alone, and the first event of a transaction keeps it.
Inserted(events, ok) ==
    [t \in Txs |->
        LET hits == {i \in DOMAIN events : events[i] \in ok /\ TxOf[events[i]] = t}
        IN  IF rows[t] # NoEvent \/ hits = {} THEN rows[t]
            ELSE events[CHOOSE i \in hits : \A j \in hits : i <= j]]

\* Every event has a savepoint of its own; when the session or the commit fails after
\* the retries no row is written, and when only the answer of the commit is lost every
\* row is there and none is counted.  The callers do not learn of any of it.
Save(events) ==
    \E ok \in SUBSET ElementsOf(events) :
        /\ \/ /\ ok = ElementsOf(events) /\ counted' = counted \cup ok
              /\ UNCHANGED saveFailures
           \/ /\ counted' \in {counted, counted \cup ok}
              /\ saveFailures < MaxSaveFailures /\ saveFailures' = saveFailures + 1
        /\ rows' = Inserted(events, ok)

-----------------------------------------------------------------------------
(* Loop A.                                                                 *)

\* Mutant: the handler does not remember the events it has seen.
NotRemembered(e) == {seen}

MayLapse == cuts + restarts < MaxLapses

\* A set of Python has no order: a cut keeps any of the entries, the new one or not.
Overflows(e) == Cardinality(seen \cup {e}) > SeenLimit

Remembered(e) ==
    IF Overflows(e) THEN kSubset(SeenKept, seen \cup {e}) ELSE {seen \cup {e}}

\* _save_event_to_db, called by the listener: the only place that evaluates rules.  The
\* event counts as seen before it is saved.  (The listener has a set of its own before
\* this one, which is cut in the same way and can only skip more events.)
HandleEvent(e) ==
    /\ polling = NoEvent
    /\ e \notin seen
    /\ IF Overflows(e) THEN MayLapse /\ cuts' = cuts + 1 ELSE UNCHANGED cuts
    /\ seen' \in Remembered(e)
    /\ Save(<<e>>)
    /\ handled' = handled + 1
    /\ evaluations' = [evaluations EXCEPT ![e] = @ + 1]
    /\ UNCHANGED <<busVars, polling, batch, polled, refused, restarts>>

\* An event of get_logs is saved; a turn that failed polls its events again.
PollSave(e) ==
    /\ polling = NoEvent
    /\ polled' = polled \cup {e}
    /\ polling' = e
    /\ Save(<<e>>)
    /\ UNCHANGED <<busVars, seen, batch, evaluations, refused, handled, cuts, restarts>>

\* publish, and what it means for an event it does not take.
Publication(e) ==
    /\ BusPublish(e) \/ (~IsNew(e) /\ UNCHANGED busVars)
    /\ refused' = IF IsNew(e) /\ accepted' = accepted THEN refused \cup {e} ELSE refused

\* ... and is then published, best effort.
PollPublish ==
    /\ polling # NoEvent
    /\ Publication(polling)
    /\ polling' = NoEvent
    /\ UNCHANGED <<rows, seen, batch, evaluations, polled, counted, handled, cuts,
                   saveFailures, restarts>>

-----------------------------------------------------------------------------
(* Loop B.                                                                 *)

DetectConsume ==
    /\ batch = <<>>
    /\ BusConsume
    /\ batch' = SubSeq(queue, 1, Taken)
    /\ UNCHANGED <<rows, polling, seen, evaluations, polled, refused, counted, handled,
                   cuts, saveFailures, restarts>>

DetectSave ==
    /\ batch # <<>>
    /\ Save(batch)
    /\ batch' = <<>>
    /\ UNCHANGED <<busVars, polling, seen, evaluations, polled, refused, handled, cuts,
                   restarts>>

-----------------------------------------------------------------------------
\* The worker is replaced: only the table survives.
Restart ==
    /\ MayLapse
    /\ restarts' = restarts + 1
    /\ BusClose
    /\ polling' = NoEvent /\ seen' = {} /\ batch' = <<>>
    /\ UNCHANGED <<rows, evaluations, polled, refused, counted, handled, cuts, saveFailures>>

Next ==
    \/ \E e \in Events : HandleEvent(e) \/ PollSave(e)
    \/ PollPublish \/ DetectConsume \/ DetectSave \/ Restart

Spec == Init /\ [][Next]_vars

\* Loop A finishes with its event and Loop B keeps consuming.
FairSpec == Spec /\ WF_vars(PollPublish) /\ WF_vars(DetectConsume) /\ WF_vars(DetectSave)

-----------------------------------------------------------------------------
(* Properties.                                                             *)

\* main.py:1115 and 2789: rules see an event once, so that the velocity rules do not
\* count it twice.  What the code keeps of this: once more for every restart and for every
\* cut of the seen set, and a cut comes only after the handler took SeenLimit - SeenKept
\* + 1 more events, skipped ones not counted.
EvaluatedOnce ==
    /\ \A e \in Events : evaluations[e] <= 1 + restarts + cuts
    /\ cuts * (SeenLimit - SeenKept + 1) <= handled

\* The second way through the bus makes up for a direct save that failed: when Loop A
\* is done with an event, its transaction has a row or will get one from Loop B, unless
\* two saves failed, the queue gave the event up, or the worker restarted.
PolledIsKept ==
    \A e \in Events :
        \/ e \notin polled \/ polling = e
        \/ rows[TxOf[e]] # NoEvent
        \/ \E m \in Queued \cup ElementsOf(batch) : TxOf[m] = TxOf[e]
        \/ saveFailures > 1 \/ restarts > 0
        \/ \E m \in refused \cup evicted : KeyOf[m] = KeyOf[e]

\* What waits in the queue is saved in the end, also when its direct save has failed,
\* unless a second save fails, the queue gives it up or the worker restarts.
QueuedIsSaved ==
    \A e \in Events :
        (e \in Queued) ~>
            (rows[TxOf[e]] # NoEvent \/ saveFailures > 1 \/ restarts > 0 \/ e \in evicted)

\* models/events.py:157: events are duplicates when chain, transaction and log index
\* agree: an event counted as saved and not in the table is a duplicate of one that is.
UnsavedIsDuplicate ==
    \A e \in counted : rows[TxOf[e]] # NoEvent /\ KeyOf[rows[TxOf[e]]] = KeyOf[e]
=============================================================================
