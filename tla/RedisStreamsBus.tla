--------------------------- MODULE RedisStreamsBus ---------------------------
(***************************************************************************)
(* RedisStreamsBus (src/pipeline/bus.py), the bus of a deployment with     *)
(* several workers: a capped stream, one consumer group, and a set of      *)
(* processed idempotency keys.  Every await on Redis is a step of its own, *)
(* so workers interleave between them, and a worker may crash there.       *)
(*                                                                         *)
(* Entry number n of the stream stands for its Redis id.                   *)
(***************************************************************************)
EXTENDS Naturals, Sequences, FiniteSets

CONSTANTS
    Keys,
    Workers,
    NoKey, NoWorker,
    MaxLen,        \* QUEUE_MAX_SIZE, the cap given to XADD
    BatchSize,
    MaxEntries,    \* bound: entries ever added
    MaxFailures,   \* bound: Redis calls that fail
    MaxCrashes     \* bound: workers that crash

ASSUME StreamAssumption ==
    /\ NoKey \notin Keys /\ NoWorker \notin Workers
    /\ MaxLen \in Nat \ {0} /\ BatchSize \in Nat \ {0} /\ MaxEntries \in Nat
    /\ MaxFailures \in Nat /\ MaxCrashes \in Nat

Ids == 1..MaxEntries

VARIABLES
    stream,        \* keys of all entries ever added, in order
    trimmed,       \* how many of them XADD has trimmed away
    cursor,        \* the last entry the group was given
    pending,       \* [Ids -> Workers \cup {NoWorker}] the group's pending list
    acked,         \* entries acknowledged
    processed,     \* the Redis set of processed keys
    publishing,    \* [Workers -> Keys \cup {NoKey}] passed the duplicate check
    batch,         \* [Workers -> Seq(Ids)] read and not yet looked at
    marked,        \* [Workers -> BOOLEAN] the first of batch was added to processed
    collected,     \* [Workers -> SUBSET Ids] acknowledged, to be returned
    returned,      \* auxiliary: [Ids -> Nat] how often an entry was returned
    failures, crashes

groupVars  == <<cursor, pending, acked>>
workerVars == <<publishing, batch, marked, collected>>
vars == <<stream, trimmed, groupVars, processed, workerVars, returned, failures, crashes>>

TypeOK ==
    /\ stream \in Seq(Keys) /\ Len(stream) <= MaxEntries
    /\ trimmed \in 0..Len(stream) /\ cursor \in 0..Len(stream)
    /\ pending \in [Ids -> Workers \cup {NoWorker}]
    /\ acked \subseteq 1..Len(stream)
    /\ processed \subseteq Keys
    /\ publishing \in [Workers -> Keys \cup {NoKey}]
    /\ \A w \in Workers : batch[w] \in Seq(Ids) /\ collected[w] \subseteq Ids
    /\ marked \in [Workers -> BOOLEAN]
    /\ returned \in [Ids -> 0..1]

Init ==
    /\ stream = <<>> /\ trimmed = 0 /\ cursor = 0
    /\ pending = [n \in Ids |-> NoWorker]
    /\ acked = {} /\ processed = {}
    /\ publishing = [w \in Workers |-> NoKey]
    /\ batch = [w \in Workers |-> <<>>]
    /\ marked = [w \in Workers |-> FALSE]
    /\ collected = [w \in Workers |-> {}]
    /\ returned = [n \in Ids |-> 0]
    /\ failures = 0 /\ crashes = 0

-----------------------------------------------------------------------------
CallFails == failures < MaxFailures /\ failures' = failures + 1

(* publish: the duplicate check and the XADD are two calls.                *)

CheckProcessed(w, k) ==
    /\ publishing[w] = NoKey
    /\ k \notin processed
    /\ publishing' = [publishing EXCEPT ![w] = k]
    /\ UNCHANGED <<stream, trimmed, groupVars, processed, batch, marked, collected,
                   returned, failures, crashes>>

\* Mutant: the cap given to XADD is one entry short.
TrimmedShort == {t \in trimmed..Len(stream) : t = trimmed \/ t <= Len(stream) + 2 - MaxLen}

\* The cap is approximate: Redis keeps at least MaxLen entries, the added one included.
TrimmedTo == {t \in trimmed..Len(stream) : t = trimmed \/ t <= Len(stream) + 1 - MaxLen}

\* XADD takes effect, whether its answer arrives or not: publish only returns.
Xadd(w) ==
    /\ publishing[w] # NoKey
    /\ Len(stream) < MaxEntries
    /\ stream' = Append(stream, publishing[w])
    /\ trimmed' \in TrimmedTo
    /\ publishing' = [publishing EXCEPT ![w] = NoKey]
    /\ UNCHANGED <<groupVars, processed, batch, marked, collected, returned, failures, crashes>>

\* XADD raises without effect: publish returns False.
XaddFails(w) ==
    /\ CallFails
    /\ publishing[w] # NoKey
    /\ publishing' = [publishing EXCEPT ![w] = NoKey]
    /\ UNCHANGED <<stream, trimmed, groupVars, processed, batch, marked, collected, returned,
                   crashes>>

-----------------------------------------------------------------------------
(* consume.                                                                *)

Idle(w) == batch[w] = <<>> /\ collected[w] = {}

NextCursor(ids) == ids[Len(ids)]

\* The entries XREADGROUP ">" gives: the first ones after the cursor still there.
Unread ==
    LET first == IF cursor >= trimmed THEN cursor + 1 ELSE trimmed + 1
        last  == IF first + BatchSize - 1 <= Len(stream) THEN first + BatchSize - 1
                 ELSE Len(stream)
    IN  [i \in 1..(last + 1 - first) |-> first + i - 1]

\* The group gives them to w.
GivenTo(w) == [n \in Ids |-> IF \E i \in DOMAIN Unread : Unread[i] = n THEN w ELSE pending[n]]

ReadGroup(w) ==
    /\ Idle(w)
    /\ Unread # <<>>
    /\ batch' = [batch EXCEPT ![w] = Unread]
    /\ cursor' = NextCursor(Unread)
    /\ pending' = GivenTo(w)
    /\ UNCHANGED <<stream, trimmed, acked, processed, publishing, marked, collected,
                   returned, failures, crashes>>

\* XREADGROUP takes effect and its answer is lost: consume returns nothing, and what the
\* group gave the worker stays pending.
ReadGroupUnheard(w) ==
    /\ CallFails
    /\ Idle(w)
    /\ Unread # <<>>
    /\ cursor' = NextCursor(Unread)
    /\ pending' = GivenTo(w)
    /\ UNCHANGED <<stream, trimmed, acked, processed, workerVars, returned, crashes>>

\* Mutant: the key is not recorded.
KeptKeys(k) == processed

WithKey(k) == processed \cup {k}

\* SADD of the entry's key.
MarkProcessed(w) ==
    /\ batch[w] # <<>> /\ ~marked[w]
    /\ processed' = WithKey(stream[Head(batch[w])])
    /\ marked' = [marked EXCEPT ![w] = TRUE]
    /\ UNCHANGED <<stream, trimmed, groupVars, publishing, batch, collected, returned,
                   failures, crashes>>

Released(n) == [pending EXCEPT ![n] = NoWorker]

\* Mutant: consume keeps only its last message.
LastGathered(w, n) == [collected EXCEPT ![w] = {n}]

Gathered(w, n) == [collected EXCEPT ![w] = @ \cup {n}]

\* XACK, after which the message joins the list consume returns.
Acknowledge(w) ==
    LET n == Head(batch[w]) IN
    /\ batch[w] # <<>> /\ marked[w]
    /\ pending' = Released(n)
    /\ acked' = acked \cup {n}
    /\ collected' = Gathered(w, n)
    /\ batch' = [batch EXCEPT ![w] = Tail(@)]
    /\ marked' = [marked EXCEPT ![w] = FALSE]
    /\ UNCHANGED <<stream, trimmed, cursor, processed, publishing, returned, failures, crashes>>

\* SADD or XACK raises, before or after it took effect: the message is logged and
\* skipped.  It stays pending, unless it was acknowledged and only the answer was lost.
SkipMessage(w) ==
    LET n == Head(batch[w]) IN
    /\ CallFails
    /\ batch[w] # <<>>
    /\ \/ ~marked[w] /\ processed' \in {processed, WithKey(stream[n])} /\ UNCHANGED <<pending, acked>>
       \/ marked[w] /\ UNCHANGED <<processed, pending, acked>>
       \/ marked[w] /\ pending' = Released(n) /\ acked' = acked \cup {n} /\ UNCHANGED processed
    /\ batch' = [batch EXCEPT ![w] = Tail(@)]
    /\ marked' = [marked EXCEPT ![w] = FALSE]
    /\ UNCHANGED <<stream, trimmed, cursor, publishing, collected, returned, crashes>>

\* Mutant: the list of messages is kept from call to call.
ListKept(w) == collected

HandedOver(w) == [collected EXCEPT ![w] = {}]

\* consume returns the collected messages to the detection loop.
Return(w) ==
    /\ batch[w] = <<>> /\ collected[w] # {}
    /\ returned' = [n \in Ids |-> returned[n] + IF n \in collected[w] THEN 1 ELSE 0]
    /\ collected' = HandedOver(w)
    /\ UNCHANGED <<stream, trimmed, groupVars, processed, publishing, batch, marked,
                   failures, crashes>>

\* The process dies; its successor has another pid and so another consumer name.
Crash(w) ==
    /\ crashes < MaxCrashes
    /\ crashes' = crashes + 1
    /\ publishing' = [publishing EXCEPT ![w] = NoKey]
    /\ batch' = [batch EXCEPT ![w] = <<>>]
    /\ marked' = [marked EXCEPT ![w] = FALSE]
    /\ collected' = [collected EXCEPT ![w] = {}]
    /\ UNCHANGED <<stream, trimmed, groupVars, processed, returned, failures>>

Next ==
    \E w \in Workers :
        \/ \E k \in Keys : CheckProcessed(w, k)
        \/ Xadd(w) \/ XaddFails(w)
        \/ ReadGroup(w) \/ ReadGroupUnheard(w)
        \/ MarkProcessed(w)
        \/ Acknowledge(w)
        \/ SkipMessage(w)
        \/ Return(w)
        \/ Crash(w)

Spec == Init /\ [][Next]_vars

\* A detection loop that keeps running calls consume again and again.
Consumption(w) == ReadGroup(w) \/ MarkProcessed(w) \/ Acknowledge(w) \/ Return(w)
FairSpec == Spec /\ \A w \in Workers : WF_vars(Consumption(w))

-----------------------------------------------------------------------------
(* Properties.                                                             *)

Held(w) == {batch[w][i] : i \in DOMAIN batch[w]} \cup collected[w]

\* The consumer group gives an entry to one worker only, and consume returns it at
\* most once, even when workers crash and calls fail in between.
EntryHandedOnce ==
    /\ \A n \in Ids : returned[n] <= 1
    /\ \A v, w \in Workers : v # w => Held(v) \cap Held(w) = {}
    /\ \A w \in Workers : \A n \in Held(w) : returned[n] = 0

\* A message is returned only after its key was recorded and it was acknowledged, so
\* a publication that starts after the return is refused as a duplicate.
ReturnedIsRecorded ==
    \A n \in 1..Len(stream) :
        (returned[n] > 0 \/ \E w \in Workers : n \in collected[w]) =>
            stream[n] \in processed /\ n \in acked /\ pending[n] = NoWorker

\* Entries a worker was given and does not have, that it did not return: no worker reads
\* them again.  The group has forgotten those that are not on its pending list either.
Missing == {n \in 1..cursor : /\ n > trimmed /\ returned[n] = 0
                              /\ \A w \in Workers : n \notin Held(w)}
Forgotten == {n \in Missing : pending[n] = NoWorker}

\* Acknowledged messages are only in the consumer's memory until consume returns, and
\* nobody reads a pending list again.  Still a crash or a failing call costs at most the
\* batch of one worker, and the pending list accounts for what is missing, but for what
\* a crash had collected and one message for each answer of XACK that was lost.
LossesAreBounded ==
    /\ Cardinality(Missing) <= BatchSize * (crashes + failures)
    /\ Cardinality(Forgotten) <= BatchSize * crashes + failures

Awaited == {n \in 1..Len(stream) : n > cursor /\ n > trimmed}

HeldBy == [w \in Workers |-> Held(w)]

Delivered == {n \in Ids : returned[n] > 0}

Queue == INSTANCE WorkQueue WITH
    Capacity <- MaxLen, newest <- Len(stream), waiting <- Awaited, held <- HeldBy,
    done <- Delivered

\* RedisStreamsBus.publish and consume, call by call, are a queue that workers share: its
\* entries leave it oldest first, each to one worker, and only those MaxLen behind the
\* newest leave it untaken; a failing call or a crash costs what the worker held.
ImplementsWorkQueue == Queue!Spec

\* As long as no worker crashes and no call fails, every entry is returned unless the
\* cap trimmed it first.
EveryEntryReturned ==
    \A n \in Ids :
        (n <= Len(stream)) ~> (returned[n] > 0 \/ n <= trimmed \/ failures + crashes > 0)
=============================================================================
