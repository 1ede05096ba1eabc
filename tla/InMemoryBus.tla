------------------------------ MODULE InMemoryBus ------------------------------
(***************************************************************************)
(* InMemoryBus (src/pipeline/bus.py), the bus of a single-instance         *)
(* deployment.  publish and consume hold the bus lock for their whole body *)
(* and are one action each.                                                *)
(***************************************************************************)
EXTENDS Naturals, Sequences

CONSTANTS
    Events,        \* messages producers publish
    Keys,          \* idempotency keys
    KeyOf,         \* [Events -> Keys] sha256 of chain_id:tx_hash:log_index
    MaxSize,       \* QUEUE_MAX_SIZE
    BatchSize,     \* BATCH_SIZE of the detection loop
    DropPolicies   \* the values QUEUE_DROP_POLICY may have

ASSUME BusAssumption ==
    /\ KeyOf \in [Events -> Keys]
    /\ MaxSize \in Nat \ {0}
    /\ BatchSize \in Nat \ {0}
    /\ DropPolicies \subseteq {"never", "oldest", "low_severity"}

VARIABLES
    drop_policy,      \* QUEUE_DROP_POLICY, read once when the module is loaded
    queue,            \* deque of messages
    processed_keys,
    accepted,         \* auxiliary: events for which publish returned True
    delivered,        \* auxiliary: events consume returned
    evicted           \* auxiliary: events the policy "oldest" threw out

busVars == <<drop_policy, queue, processed_keys, accepted, delivered, evicted>>

KeysOf(S) == {KeyOf[e] : e \in S}
Queued == {queue[i] : i \in 1..Len(queue)}

BusTypeOK ==
    /\ drop_policy \in DropPolicies
    /\ queue \in Seq(Events)
    /\ Len(queue) <= MaxSize
    /\ processed_keys \subseteq Keys
    /\ accepted \subseteq Events
    /\ delivered \subseteq Events
    /\ evicted \subseteq Events

BusInit ==
    /\ drop_policy \in DropPolicies
    /\ queue = <<>>
    /\ processed_keys = {}
    /\ accepted = {}
    /\ delivered = {}
    /\ evicted = {}

\* Mutant: the deque is compared with a strict bound.
HasRoomOffByOne == Len(queue) <= MaxSize

HasRoom == Len(queue) < MaxSize

\* Mutant: duplicates get in.
AcceptsDuplicates(e) == TRUE

IsNew(e) == KeyOf[e] \notin processed_keys

\* publish of a message whose key is new; a known key changes nothing.  The key is
\* spent before the capacity check.  "oldest" is the only policy that makes room:
\* "never" and "low_severity" both refuse the new message, whatever its severity.
BusPublish(e) ==
    /\ IsNew(e)
    /\ processed_keys' = processed_keys \cup {KeyOf[e]}
    /\ \/ /\ HasRoom
          /\ queue' = Append(queue, e)
          /\ accepted' = accepted \cup {e}
          /\ UNCHANGED evicted
       \/ /\ ~HasRoom /\ drop_policy = "oldest"
          /\ queue' = Append(Tail(queue), e)
          /\ accepted' = accepted \cup {e}
          /\ evicted' = evicted \cup {Head(queue)}
       \/ /\ ~HasRoom /\ drop_policy # "oldest"
          /\ UNCHANGED <<queue, accepted, evicted>>
    /\ UNCHANGED <<drop_policy, delivered>>

\* Mutant: a full batch is handed out and stays in the queue.
RemainingUntouched(n) == queue

Remaining(n) == SubSeq(queue, n + 1, Len(queue))

Taken == IF Len(queue) < BatchSize THEN Len(queue) ELSE BatchSize

\* consume pops up to BatchSize messages from the left.
BusConsume ==
    /\ queue # <<>>
    /\ queue' = Remaining(Taken)
    /\ delivered' = delivered \cup {queue[i] : i \in 1..Taken}
    /\ UNCHANGED <<drop_policy, processed_keys, accepted, evicted>>

\* close forgets the queue and the keys; the auxiliary record starts over.
BusClose ==
    /\ queue' = <<>>
    /\ processed_keys' = {}
    /\ accepted' = {}
    /\ delivered' = {}
    /\ evicted' = {}
    /\ UNCHANGED drop_policy

BusNext == (\E e \in Events : BusPublish(e)) \/ BusConsume \/ BusClose

BusSpec == BusInit /\ [][BusNext]_busVars

-----------------------------------------------------------------------------
(* Properties.                                                             *)

\* The queue never holds a message twice, nor two messages of one key, nor one
\* that was already handed out: consumers see a key at most once.
AtMostOncePerKey ==
    /\ \A i, j \in 1..Len(queue) : KeyOf[queue[i]] = KeyOf[queue[j]] => i = j
    /\ \A i \in 1..Len(queue) : KeyOf[queue[i]] \notin KeysOf(delivered)
    /\ KeysOf(accepted) \subseteq processed_keys

\* An accepted message is in exactly one place: waiting, handed out, or evicted
\* by the policy "oldest".
AcceptedIsAccountedFor ==
    /\ accepted = Queued \cup delivered \cup evicted
    /\ Queued \cap evicted = {}
    /\ delivered \cap evicted = {}
    /\ Queued \cap delivered = {}
    /\ drop_policy # "oldest" => evicted = {}

\* The bus implements the promise of EventBus: it forgets, refuses and gives up no more
\* messages than a queue of MaxSize must.
Abstract == INSTANCE EventBus WITH
    waiting <- Queued, handed <- delivered, spent <- processed_keys, Capacity <- MaxSize
ImplementsEventBus == Abstract!Spec
=============================================================================
