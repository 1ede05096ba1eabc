------------------------- MODULE EventPipeline_proofs -------------------------
(***************************************************************************)
(* For every set of messages, every key function, capacity, batch size and *)
(* drop policy: InMemoryBus hands out a key at most once, knows where each *)
(* accepted message is, and implements the promise of EventBus.            *)
(*                                                                         *)
(* For every set of events, transactions and keys, and any number of       *)
(* failing saves, restarts and cuts of the seen set: all this holds of the *)
(* bus inside the pipeline, rules see an event once more only after a      *)
(* restart or a cut, and a polled event is kept on one of its two ways to  *)
(* the table as long as only one save fails.                               *)
(***************************************************************************)
EXTENDS EventPipeline, FiniteSetTheorems, TLAPS

-----------------------------------------------------------------------------
(* The bus.                                                                *)

IInv == BusTypeOK /\ AtMostOncePerKey /\ AcceptedIsAccountedFor

\* What the queue holds after a message is appended, and after a prefix is taken.
LEMMA AppendElements ==
    ASSUME NEW q \in Seq(Events), NEW e \in Events
    PROVE  /\ Append(q, e) \in Seq(Events)
           /\ Len(Append(q, e)) = Len(q) + 1
           /\ \A i \in 1..Len(q) : Append(q, e)[i] = q[i]
           /\ Append(q, e)[Len(q) + 1] = e
  OBVIOUS

LEMMA SuffixElements ==
    ASSUME NEW q \in Seq(Events), NEW n \in Nat, n <= Len(q)
    PROVE  LET r == SubSeq(q, n + 1, Len(q))
           IN  /\ r \in Seq(Events)
               /\ Len(r) = Len(q) - n
               /\ \A i \in 1..Len(r) : r[i] = q[n + i]
<1> DEFINE r == SubSeq(q, n + 1, Len(q))
<1>1. Len(q) \in Nat
  OBVIOUS
<1>2. r = [i \in 1..(Len(q) - n) |-> q[n + i]]
  BY <1>1, SMT
<1>3. \A i \in 1..(Len(q) - n) : q[n + i] \in Events
  BY <1>1
<1>4. r \in [1..(Len(q) - n) -> Events]
  BY <1>2, <1>3
<1>5. Len(q) - n \in Nat
  BY <1>1
<1> QED
  BY <1>2, <1>4, <1>5

LEMMA TailElements ==
    ASSUME NEW q \in Seq(Events), q # <<>>
    PROVE  /\ Tail(q) \in Seq(Events)
           /\ Len(Tail(q)) = Len(q) - 1
           /\ \A i \in 1..Len(Tail(q)) : Tail(q)[i] = q[i + 1]
           /\ Head(q) = q[1] /\ Head(q) \in Events /\ Len(q) \in Nat /\ Len(q) >= 1
  OBVIOUS

LEMMA InitIInv == BusInit => IInv
  BY BusAssumption DEF BusInit, IInv, BusTypeOK, AtMostOncePerKey,
                       AcceptedIsAccountedFor, Queued, KeysOf

\* Publishing appends a message of an unspent key to the queue, or to what is left
\* of it when the oldest message goes.
LEMMA PublishFacts ==
    ASSUME IInv, NEW e \in Events, BusPublish(e)
    PROVE  /\ KeyOf[e] \in Keys \ processed_keys
           /\ processed_keys' = processed_keys \cup {KeyOf[e]}
           /\ delivered' = delivered /\ drop_policy' = drop_policy
           /\ e \notin accepted
           /\ \A i \in 1..Len(queue) : KeyOf[queue[i]] # KeyOf[e]
<1>1. KeyOf[e] \in Keys
  BY BusAssumption
<1>2. /\ KeyOf[e] \notin processed_keys
      /\ processed_keys' = processed_keys \cup {KeyOf[e]}
      /\ delivered' = delivered /\ drop_policy' = drop_policy
  BY DEF BusPublish, IsNew
<1>3. KeyOf[e] \notin KeysOf(accepted)
  BY <1>2 DEF IInv, AtMostOncePerKey
<1>4. e \notin accepted
  BY <1>3 DEF KeysOf
<1>5. \A i \in 1..Len(queue) : queue[i] \in accepted
  BY DEF IInv, AcceptedIsAccountedFor, Queued
<1> QED
  BY <1>1, <1>2, <1>3, <1>4, <1>5 DEF KeysOf

LEMMA PublishIInv ==
    ASSUME IInv, NEW e \in Events, BusPublish(e)
    PROVE  IInv'
<1>1. /\ queue \in Seq(Events) /\ Len(queue) \in Nat /\ Len(queue) <= MaxSize
      /\ MaxSize \in Nat \ {0}
      /\ processed_keys \subseteq Keys /\ accepted \subseteq Events
      /\ delivered \subseteq Events /\ evicted \subseteq Events
      /\ drop_policy \in DropPolicies
  BY BusAssumption DEF IInv, BusTypeOK
<1>2. /\ KeyOf[e] \in Keys \ processed_keys
      /\ processed_keys' = processed_keys \cup {KeyOf[e]}
      /\ delivered' = delivered /\ drop_policy' = drop_policy
      /\ e \notin accepted
      /\ \A i \in 1..Len(queue) : KeyOf[queue[i]] # KeyOf[e]
  BY PublishFacts
<1>3. /\ \A i, j \in 1..Len(queue) : KeyOf[queue[i]] = KeyOf[queue[j]] => i = j
      /\ \A i \in 1..Len(queue) : KeyOf[queue[i]] \notin KeysOf(delivered)
      /\ KeysOf(accepted) \subseteq processed_keys
  BY DEF IInv, AtMostOncePerKey
<1>4. /\ accepted = Queued \cup delivered \cup evicted
      /\ Queued \cap evicted = {} /\ delivered \cap evicted = {}
      /\ Queued \cap delivered = {}
      /\ drop_policy # "oldest" => evicted = {}
  BY DEF IInv, AcceptedIsAccountedFor
<1>5. KeyOf[e] \notin KeysOf(delivered)
  BY <1>2, <1>3, <1>4 DEF KeysOf
<1>6. accepted' = accepted \cup {e} => KeysOf(accepted') \subseteq processed_keys'
  BY <1>2, <1>3 DEF KeysOf
<1>7. CASE HasRoom /\ queue' = Append(queue, e) /\ accepted' = accepted \cup {e}
           /\ UNCHANGED evicted
  <2>1. /\ queue' \in Seq(Events) /\ Len(queue') = Len(queue) + 1
        /\ \A i \in 1..Len(queue) : queue'[i] = queue[i]
        /\ queue'[Len(queue) + 1] = e
    BY <1>1, <1>7, AppendElements
  <2>2. Queued' = Queued \cup {e}
    BY <1>1, <2>1 DEF Queued
  <2>3. BusTypeOK'
    BY <1>1, <1>2, <1>7, <2>1 DEF BusTypeOK, HasRoom
  <2>4. \A i, j \in 1..Len(queue') : KeyOf[queue'[i]] = KeyOf[queue'[j]] => i = j
    BY <1>1, <1>2, <1>3, <2>1
  <2>5. \A i \in 1..Len(queue') : KeyOf[queue'[i]] \notin KeysOf(delivered)
    BY <1>1, <1>3, <1>5, <2>1
  <2>6. AtMostOncePerKey'
    BY <1>2, <1>6, <1>7, <2>4, <2>5 DEF AtMostOncePerKey, KeysOf
  <2>7. AcceptedIsAccountedFor'
    BY <1>2, <1>4, <1>7, <2>2 DEF AcceptedIsAccountedFor
  <2> QED
    BY <2>3, <2>6, <2>7 DEF IInv
<1>8. CASE ~HasRoom /\ drop_policy = "oldest" /\ queue' = Append(Tail(queue), e)
           /\ accepted' = accepted \cup {e} /\ evicted' = evicted \cup {Head(queue)}
  <2>1. queue # <<>>
    BY <1>1, <1>8 DEF HasRoom
  <2>2. /\ Tail(queue) \in Seq(Events) /\ Len(Tail(queue)) = Len(queue) - 1
        /\ \A i \in 1..Len(Tail(queue)) : Tail(queue)[i] = queue[i + 1]
        /\ Head(queue) = queue[1] /\ Head(queue) \in Events /\ Len(queue) >= 1
    BY <1>1, <2>1, TailElements
  <2>3. /\ queue' \in Seq(Events) /\ Len(queue') = Len(queue)
        /\ \A i \in 1..(Len(queue) - 1) : queue'[i] = queue[i + 1]
        /\ queue'[Len(queue)] = e
    <3>1. /\ queue' \in Seq(Events) /\ Len(queue') = Len(Tail(queue)) + 1
          /\ \A i \in 1..Len(Tail(queue)) : queue'[i] = Tail(queue)[i]
          /\ queue'[Len(Tail(queue)) + 1] = e
      BY <1>8, <2>2, AppendElements
    <3> QED
      BY <1>1, <2>2, <3>1
  <2>4. Queued = {Head(queue)} \cup {queue[i + 1] : i \in 1..(Len(queue) - 1)}
    <3>1. ASSUME NEW i \in 1..Len(queue)
          PROVE  i = 1 \/ (i - 1 \in 1..(Len(queue) - 1) /\ queue[i] = queue[(i - 1) + 1])
      BY <1>1
    <3>2. \A i \in 1..(Len(queue) - 1) : i + 1 \in 1..Len(queue)
      BY <1>1
    <3> QED
      BY <1>1, <2>2, <3>1, <3>2 DEF Queued
  <2>5. Queued' = {queue[i + 1] : i \in 1..(Len(queue) - 1)} \cup {e}
    <3>1. ASSUME NEW i \in 1..Len(queue)
          PROVE  (i \in 1..(Len(queue) - 1) /\ queue'[i] = queue[i + 1])
                 \/ (i = Len(queue) /\ queue'[i] = e)
      BY <1>1, <2>3
    <3>2. Len(queue) \in 1..Len(queue) /\ 1..(Len(queue) - 1) \subseteq 1..Len(queue)
      BY <1>1, <2>2
    <3> QED
      BY <2>3, <3>1, <3>2 DEF Queued
  <2>6. Head(queue) \notin {queue[i + 1] : i \in 1..(Len(queue) - 1)}
    BY <1>1, <1>3, <2>2
  <2>7. BusTypeOK'
    BY <1>1, <1>2, <1>8, <2>2, <2>3 DEF BusTypeOK
  <2>8. \A i, j \in 1..Len(queue') : KeyOf[queue'[i]] = KeyOf[queue'[j]] => i = j
    <3> SUFFICES ASSUME NEW i \in 1..Len(queue), NEW j \in 1..Len(queue),
                        KeyOf[queue'[i]] = KeyOf[queue'[j]]
                 PROVE  i = j
      BY <2>3
    <3>1. \A k \in 1..(Len(queue) - 1) :
             k + 1 \in 1..Len(queue) /\ queue'[k] = queue[k + 1]
      BY <1>1, <2>3
    <3>2. CASE i = Len(queue) \/ j = Len(queue)
      BY <1>1, <1>2, <2>3, <3>1, <3>2
    <3>3. CASE i # Len(queue) /\ j # Len(queue)
      <4>1. /\ i + 1 \in 1..Len(queue) /\ j + 1 \in 1..Len(queue)
            /\ KeyOf[queue[i + 1]] = KeyOf[queue[j + 1]]
        BY <1>1, <3>1, <3>3
      <4>2. i + 1 = j + 1
        BY <1>3, <4>1
      <4> QED
        BY <4>2
    <3> QED
      BY <3>2, <3>3
  <2>9. \A i \in 1..Len(queue') : KeyOf[queue'[i]] \notin KeysOf(delivered)
    BY <1>1, <1>3, <1>5, <2>3
  <2>10. AtMostOncePerKey'
    BY <1>2, <1>6, <1>8, <2>8, <2>9 DEF AtMostOncePerKey, KeysOf
  <2>11. AcceptedIsAccountedFor'
    BY <1>2, <1>4, <1>8, <2>4, <2>5, <2>6 DEF AcceptedIsAccountedFor
  <2> QED
    BY <2>7, <2>10, <2>11 DEF IInv
<1>9. CASE ~HasRoom /\ drop_policy # "oldest" /\ UNCHANGED <<queue, accepted, evicted>>
  <2>1. BusTypeOK'
    BY <1>1, <1>2, <1>9 DEF BusTypeOK
  <2>2. AtMostOncePerKey'
    BY <1>2, <1>3, <1>9 DEF AtMostOncePerKey, KeysOf
  <2>3. AcceptedIsAccountedFor'
    BY <1>2, <1>4, <1>9 DEF AcceptedIsAccountedFor, Queued
  <2> QED
    BY <2>1, <2>2, <2>3 DEF IInv
<1> QED
  BY <1>7, <1>8, <1>9 DEF BusPublish

\* consume moves a prefix of the queue to the messages handed out.
LEMMA ConsumeFacts ==
    ASSUME IInv, BusConsume
    PROVE  /\ Taken \in Nat /\ Taken <= Len(queue) /\ Len(queue) \in Nat
           /\ queue' \in Seq(Events) /\ Len(queue') = Len(queue) - Taken
           /\ \A i \in 1..Len(queue') : queue'[i] = queue[Taken + i]
           /\ Queued = Queued' \cup {queue[i] : i \in 1..Taken}
           /\ delivered' = delivered \cup {queue[i] : i \in 1..Taken}
           /\ UNCHANGED <<drop_policy, processed_keys, accepted, evicted>>
<1>1. queue \in Seq(Events) /\ Len(queue) \in Nat
  BY DEF IInv, BusTypeOK
<1>2. Taken \in Nat /\ Taken <= Len(queue)
  BY <1>1, BusAssumption DEF Taken
<1>3. /\ queue' \in Seq(Events) /\ Len(queue') = Len(queue) - Taken
      /\ \A i \in 1..Len(queue') : queue'[i] = queue[Taken + i]
  BY <1>1, <1>2, SuffixElements DEF BusConsume, Remaining
<1>4. Queued = Queued' \cup {queue[i] : i \in 1..Taken}
  <2>1. ASSUME NEW i \in 1..Len(queue)
        PROVE  i \in 1..Taken
               \/ (i - Taken \in 1..Len(queue') /\ queue'[i - Taken] = queue[i])
    <3>1. CASE i <= Taken
      BY <1>2, <3>1
    <3>2. CASE i > Taken
      <4>1. i - Taken \in 1..Len(queue')
        BY <1>1, <1>2, <1>3, <3>2
      <4>2. queue'[i - Taken] = queue[Taken + (i - Taken)]
        BY <1>3, <4>1
      <4>3. Taken + (i - Taken) = i
        BY <1>2
      <4> QED
        BY <4>1, <4>2, <4>3
    <3> QED
      BY <1>2, <3>1, <3>2
  <2>2. ASSUME NEW i \in 1..Len(queue')
        PROVE  Taken + i \in 1..Len(queue) /\ queue'[i] = queue[Taken + i]
    BY <1>1, <1>2, <1>3
  <2>3. 1..Taken \subseteq 1..Len(queue)
    BY <1>1, <1>2
  <2> QED
    BY <2>1, <2>2, <2>3 DEF Queued
<1> QED
  BY <1>1, <1>2, <1>3, <1>4 DEF BusConsume

LEMMA ConsumeIInv ==
    ASSUME IInv, BusConsume
    PROVE  IInv'
<1>1. /\ Taken \in Nat /\ Taken <= Len(queue) /\ Len(queue) \in Nat
      /\ queue' \in Seq(Events) /\ Len(queue') = Len(queue) - Taken
      /\ \A i \in 1..Len(queue') : queue'[i] = queue[Taken + i]
      /\ Queued = Queued' \cup {queue[i] : i \in 1..Taken}
      /\ delivered' = delivered \cup {queue[i] : i \in 1..Taken}
      /\ UNCHANGED <<drop_policy, processed_keys, accepted, evicted>>
  BY ConsumeFacts
<1>2. \A i \in 1..Len(queue') : Taken + i \in 1..Len(queue)
  BY <1>1
<1>3. BusTypeOK'
  BY <1>1, BusAssumption DEF IInv, BusTypeOK, AcceptedIsAccountedFor
<1>4. ASSUME NEW i \in 1..Len(queue'), NEW j \in 1..Taken
      PROVE  KeyOf[queue'[i]] # KeyOf[queue[j]]
  <2>1. /\ Taken + i \in 1..Len(queue) /\ j \in 1..Len(queue) /\ Taken + i # j
        /\ queue'[i] = queue[Taken + i]
    BY <1>1, <1>2
  <2> QED
    BY <2>1 DEF IInv, AtMostOncePerKey
<1>5. \A i, j \in 1..Len(queue') : KeyOf[queue'[i]] = KeyOf[queue'[j]] => i = j
  <2> SUFFICES ASSUME NEW i \in 1..Len(queue'), NEW j \in 1..Len(queue'),
                      KeyOf[queue'[i]] = KeyOf[queue'[j]]
               PROVE  i = j
    OBVIOUS
  <2>1. Taken + i = Taken + j
    BY <1>1, <1>2 DEF IInv, AtMostOncePerKey
  <2> QED
    BY <1>1, <2>1
<1>6. \A i \in 1..Len(queue') : KeyOf[queue'[i]] \notin KeysOf(delivered')
  <2> SUFFICES ASSUME NEW i \in 1..Len(queue'), NEW d \in delivered',
                      KeyOf[queue'[i]] = KeyOf[d]
               PROVE  FALSE
    BY DEF KeysOf
  <2>1. KeyOf[queue[Taken + i]] \notin KeysOf(delivered)
    BY <1>2 DEF IInv, AtMostOncePerKey
  <2>2. CASE d \in delivered
    BY <1>1, <2>1, <2>2 DEF KeysOf
  <2>3. CASE d \notin delivered
    BY <1>1, <1>4, <2>3
  <2> QED
    BY <2>2, <2>3
<1>7. AtMostOncePerKey'
  BY <1>1, <1>5, <1>6 DEF IInv, AtMostOncePerKey, KeysOf
<1>8. Queued' \cap {queue[i] : i \in 1..Taken} = {}
  BY <1>4 DEF Queued
<1>9. AcceptedIsAccountedFor'
  BY <1>1, <1>8 DEF IInv, AcceptedIsAccountedFor
<1> QED
  BY <1>3, <1>7, <1>9 DEF IInv

LEMMA NextIInv == IInv /\ [BusNext]_busVars => IInv'
<1> SUFFICES ASSUME IInv, [BusNext]_busVars PROVE IInv'
  OBVIOUS
<1>1. ASSUME NEW e \in Events, BusPublish(e) PROVE IInv'
  BY <1>1, PublishIInv
<1>2. CASE BusConsume
  BY <1>2, ConsumeIInv
<1>3. CASE BusClose
  BY <1>3, BusAssumption DEF BusClose, IInv, BusTypeOK, AtMostOncePerKey,
                             AcceptedIsAccountedFor, Queued, KeysOf
<1>4. CASE UNCHANGED busVars
  BY <1>4 DEF busVars, IInv, BusTypeOK, AtMostOncePerKey, AcceptedIsAccountedFor,
              Queued, KeysOf
<1> QED
  BY <1>1, <1>2, <1>3, <1>4 DEF BusNext

\* The bus keeps its types and never holds more than MaxSize messages
\* (InMemoryBus.publish, bus.py:115-160).
THEOREM BusTypeCorrect == BusSpec => []BusTypeOK
<1>1. IInv => BusTypeOK
  BY DEF IInv
<1> QED
  BY <1>1, InitIInv, NextIInv, PTL DEF BusSpec

\* A key is handed out at most once, whatever the drop policy and however
\* publications and consumptions interleave.
THEOREM BusAtMostOnce == BusSpec => []AtMostOncePerKey
<1>1. IInv => AtMostOncePerKey
  BY DEF IInv
<1> QED
  BY <1>1, InitIInv, NextIInv, PTL DEF BusSpec

\* No accepted message is lost track of: only the policy "oldest" gives one up.
THEOREM BusAccountsForAccepted == BusSpec => []AcceptedIsAccountedFor
<1>1. IInv => AcceptedIsAccountedFor
  BY DEF IInv
<1> QED
  BY <1>1, InitIInv, NextIInv, PTL DEF BusSpec

-----------------------------------------------------------------------------
(* Every step of the bus is a step of EventBus.                            *)

\* A sequence without repetition has as many elements as places.
LEMMA DistinctCounted ==
    ASSUME NEW q \in Seq(Events), \A i, j \in 1..Len(q) : q[i] = q[j] => i = j
    PROVE  Cardinality({q[i] : i \in 1..Len(q)}) = Len(q)
<1> DEFINE elements == {q[i] : i \in 1..Len(q)}
<1>1. Len(q) \in Nat /\ q \in [1..Len(q) -> elements]
  OBVIOUS
<1>2. \A m \in elements : \E i \in 1..Len(q) : q[i] = m
  OBVIOUS
<1> HIDE DEF elements
<1>3. ExistsBijection(1..Len(q), elements)
  BY <1>1, <1>2 DEF ExistsBijection, Bijection, Injection, Surjection, IsInjective
<1> QED
  BY <1>1, <1>3, FS_CountingElements DEF elements

LEMMA AbstractCounts ==
    ASSUME NEW S
    PROVE  Abstract!Cardinality(S) = Cardinality(S)
  BY DEF Abstract!Cardinality, Cardinality

\* The queue has no repetition, so it is as long as the set of what waits is large.
LEMMA QueueCounted ==
    /\ IInv => Abstract!Cardinality(Queued) = Len(queue)
    /\ IInv' => Abstract!Cardinality(Queued') = Len(queue')
<1>1. IInv => Abstract!Cardinality(Queued) = Len(queue)
  <2> SUFFICES ASSUME IInv PROVE Abstract!Cardinality(Queued) = Len(queue)
    OBVIOUS
  <2>1. queue \in Seq(Events)
    BY DEF IInv, BusTypeOK
  <2>2. \A i, j \in 1..Len(queue) : queue[i] = queue[j] => i = j
    BY DEF IInv, AtMostOncePerKey
  <2>3. Cardinality(Queued) = Len(queue)
    BY <2>1, <2>2, DistinctCounted DEF Queued
  <2> QED
    BY <2>3, AbstractCounts
<1>2. IInv' => Abstract!Cardinality(Queued') = Len(queue')
  <2> SUFFICES ASSUME IInv' PROVE Abstract!Cardinality(Queued') = Len(queue')
    OBVIOUS
  <2>1. queue' \in Seq(Events)
    BY DEF IInv, BusTypeOK
  <2>2. \A i, j \in 1..Len(queue') : queue'[i] = queue'[j] => i = j
    BY DEF IInv, AtMostOncePerKey
  <2>3. Cardinality(Queued') = Len(queue')
    BY <2>1, <2>2, DistinctCounted DEF Queued
  <2> QED
    BY <2>3, AbstractCounts
<1> QED
  BY <1>1, <1>2

LEMMA InitRefines == BusInit => Abstract!Init
  BY DEF BusInit, Abstract!Init, Queued

\* Only a full bus refuses a message, or gives up one for it.
LEMMA PublishRefines ==
    ASSUME IInv, NEW e \in Events, BusPublish(e)
    PROVE  Abstract!Next
<1>1. /\ KeyOf[e] \in Keys \ processed_keys
      /\ processed_keys' = processed_keys \cup {KeyOf[e]}
      /\ delivered' = delivered
  BY PublishFacts
<1>2. queue \in Seq(Events) /\ Len(queue) \in Nat /\ Len(queue) <= MaxSize /\ MaxSize \in Nat \ {0}
  BY BusAssumption DEF IInv, BusTypeOK
<1>3. Abstract!Cardinality(Queued') <= MaxSize
  <2>1. IInv'
    BY PublishIInv
  <2> QED
    BY <2>1, QueueCounted DEF IInv, BusTypeOK
<1>4. ~HasRoom => Abstract!IsFull
  <2>1. ~HasRoom => Len(queue) = MaxSize
    BY <1>2 DEF HasRoom
  <2> QED
    BY <2>1, QueueCounted DEF Abstract!IsFull
<1>5. ASSUME NEW lost \in SUBSET Queued, \A m, n \in lost : m = n, lost # {} => ~HasRoom,
             Queued' = (Queued \ lost) \cup {e}
      PROVE  Abstract!Next
  <2>1. Abstract!Publish(e, lost, TRUE)
    BY <1>1, <1>3, <1>4, <1>5 DEF Abstract!Publish
  <2> QED
    BY <2>1 DEF Abstract!Next
<1>6. CASE HasRoom /\ queue' = Append(queue, e)
  <2>1. Queued' = Queued \cup {e}
    BY <1>2, <1>6, AppendElements DEF Queued
  <2>2. {} \in SUBSET Queued /\ Queued' = (Queued \ {}) \cup {e}
    BY <2>1
  <2> QED
    BY <1>5, <2>2
<1>7. CASE ~HasRoom /\ queue' = Append(Tail(queue), e)
  <2>1. queue # <<>>
    BY <1>2, <1>7 DEF HasRoom
  <2>2. /\ Tail(queue) \in Seq(Events) /\ Len(Tail(queue)) = Len(queue) - 1
        /\ \A i \in 1..Len(Tail(queue)) : Tail(queue)[i] = queue[i + 1]
    BY <1>2, <2>1, TailElements
  <2>3. /\ Len(queue') = Len(queue) /\ Len(queue) >= 1
        /\ \A i \in 1..(Len(queue) - 1) : queue'[i] = queue[i + 1]
        /\ queue'[Len(queue)] = e
    BY <1>2, <1>7, <2>1, <2>2, AppendElements
  <2>4. \A i \in 1..Len(queue) : queue[i] = queue[1] => i = 1
    BY <2>3 DEF IInv, AtMostOncePerKey
  <2>5. Queued' \subseteq (Queued \ {queue[1]}) \cup {e}
    <3>1. ASSUME NEW i \in 1..Len(queue')
          PROVE  queue'[i] = e \/ (i + 1 \in 1..Len(queue) /\ i + 1 # 1 /\ queue'[i] = queue[i + 1])
      BY <1>2, <2>3
    <3> QED
      BY <2>4, <3>1 DEF Queued
  <2>6. (Queued \ {queue[1]}) \cup {e} \subseteq Queued'
    <3>1. ASSUME NEW i \in 1..Len(queue), i # 1
          PROVE  i - 1 \in 1..Len(queue') /\ queue'[i - 1] = queue[i]
      <4>1. i - 1 \in 1..(Len(queue) - 1) /\ (i - 1) + 1 = i /\ i - 1 \in 1..Len(queue')
        BY <1>2, <2>3, <3>1
      <4> QED
        BY <2>3, <4>1
    <3>2. Len(queue) \in 1..Len(queue') /\ queue'[Len(queue)] = e
      BY <1>2, <2>3
    <3> QED
      BY <3>1, <3>2 DEF Queued
  <2>7. Queued' = (Queued \ {queue[1]}) \cup {e}
    BY <2>5, <2>6
  <2>8. {queue[1]} \in SUBSET Queued
    BY <1>2, <2>3 DEF Queued
  <2> QED
    BY <1>5, <1>7, <2>7, <2>8
<1>8. CASE ~HasRoom /\ queue' = queue
  <2>1. Queued' = Queued
    BY <1>8 DEF Queued
  <2>2. Abstract!Publish(e, {}, FALSE)
    BY <1>1, <1>3, <1>4, <1>8, <2>1 DEF Abstract!Publish
  <2> QED
    BY <2>2 DEF Abstract!Next
<1> QED
  BY <1>6, <1>7, <1>8 DEF BusPublish

\* The detailed bus implements the promise the loops rely on: keys spent once, messages
\* handed out once, and none refused or given up before the bus holds MaxSize.
THEOREM BusImplementsEventBus == BusSpec => ImplementsEventBus
<1>1. IInv /\ [BusNext]_busVars => [Abstract!Next]_(Abstract!vars)
  <2> SUFFICES ASSUME IInv, [BusNext]_busVars
               PROVE  [Abstract!Next]_(Abstract!vars)
    OBVIOUS
  <2>1. ASSUME NEW e \in Events, BusPublish(e) PROVE Abstract!Next
    BY <2>1, PublishRefines
  <2>2. CASE BusConsume
    <3> DEFINE handed == {queue[i] : i \in 1..Taken}
    <3>1. /\ Queued = Queued' \cup handed
          /\ delivered' = delivered \cup handed
          /\ UNCHANGED processed_keys
      BY <2>2, ConsumeFacts
    <3>2. AcceptedIsAccountedFor'
      BY <2>2, ConsumeIInv DEF IInv
    <3>3. Queued' \cap delivered' = {}
      BY <3>2 DEF AcceptedIsAccountedFor
    <3>4. handed \in SUBSET Queued /\ Queued' = Queued \ handed
      BY <3>1, <3>3
    <3>5. Abstract!Consume(handed)
      BY <3>1, <3>4 DEF Abstract!Consume
    <3> QED
      BY <3>4, <3>5 DEF Abstract!Next
  <2>3. CASE BusClose
    BY <2>3 DEF BusClose, Abstract!Close, Abstract!Next, Queued
  <2>4. CASE UNCHANGED busVars
    BY <2>4 DEF busVars, Abstract!vars, Queued
  <2> QED
    BY <2>1, <2>2, <2>3, <2>4 DEF BusNext
<1> QED
  BY <1>1, InitIInv, NextIInv, InitRefines, PTL
     DEF BusSpec, ImplementsEventBus, Abstract!Spec

-----------------------------------------------------------------------------
(* The pipeline around it.                                                 *)

\* An event counts as seen no later than it is evaluated; a restart forgets that it was
\* seen, and a cut may, which allows for one more evaluation. What is in the seen set, and
\* what was cut from it, the handler once took.
PipelineIInv ==
    /\ polling \in Events \cup {NoEvent} /\ evaluations \in [Events -> Nat]
    /\ restarts \in Nat /\ cuts \in Nat /\ handled \in Nat
    /\ IsFiniteSet(seen)
    /\ \A e \in Events : evaluations[e] <= restarts + cuts + (IF e \in seen THEN 1 ELSE 0)
    /\ Cardinality(seen) + cuts * (SeenLimit - SeenKept + 1) <= handled

LEMMA InitPipelineIInv == Init => PipelineIInv
<1>1. Cardinality({}) = 0 /\ IsFiniteSet({})
  BY FS_EmptySet
<1>2. 0 * (SeenLimit - SeenKept + 1) = 0
  BY PipelineAssumption
<1> QED
  BY <1>1, <1>2 DEF Init, PipelineIInv

\* The handler takes an event, with or without a cut of its seen set.
LEMMA HandleIInv ==
    ASSUME PipelineIInv, NEW e \in Events, HandleEvent(e)
    PROVE  PipelineIInv'
<1> DEFINE D == SeenLimit - SeenKept + 1
           all == seen \cup {e}
<1>1. /\ e \notin seen /\ seen' \in Remembered(e) /\ handled' = handled + 1
      /\ IF Overflows(e) THEN cuts' = cuts + 1 ELSE cuts' = cuts
      /\ evaluations' = [evaluations EXCEPT ![e] = @ + 1]
      /\ restarts' = restarts /\ polling' = polling
  BY DEF HandleEvent
<1>2. /\ polling \in Events \cup {NoEvent} /\ evaluations \in [Events -> Nat] /\ restarts \in Nat /\ cuts \in Nat /\ handled \in Nat
      /\ \A f \in Events : evaluations[f] <= restarts + cuts + (IF f \in seen THEN 1 ELSE 0)
      /\ Cardinality(seen) + cuts * D <= handled
  BY DEF PipelineIInv
<1>3. IsFiniteSet(all) /\ Cardinality(all) = Cardinality(seen) + 1 /\ Cardinality(seen) \in Nat
  BY <1>1, FS_AddElement, FS_CardinalityType DEF PipelineIInv
<1>4. D \in Nat /\ SeenKept \in Nat /\ SeenLimit \in Nat /\ D = SeenLimit - SeenKept + 1
  BY PipelineAssumption
<1>5. cuts * D \in Nat /\ (cuts + 1) * D = cuts * D + D
  BY <1>2, <1>4
<1>6. evaluations' \in [Events -> Nat]
  BY <1>1, <1>2
<1>7. CASE ~Overflows(e)
  <2>1. seen' = all /\ cuts' = cuts
    BY <1>1, <1>7 DEF Remembered
  <2>2. Cardinality(seen') + cuts' * D <= handled'
    BY <1>1, <1>2, <1>3, <1>5, <2>1
  <2>3. ASSUME NEW f \in Events
        PROVE  evaluations'[f] <= restarts' + cuts' + (IF f \in seen' THEN 1 ELSE 0)
    <3>1. CASE f = e
      BY <1>1, <1>2, <2>1, <3>1
    <3>2. CASE f # e
      BY <1>1, <1>2, <2>1, <3>2
    <3> QED
      BY <3>1, <3>2
  <2> QED
    BY <1>1, <1>2, <1>3, <1>6, <2>1, <2>2, <2>3 DEF PipelineIInv
<1>8. CASE Overflows(e)
  <2>1. /\ seen' \subseteq all /\ Cardinality(seen') = SeenKept /\ cuts' = cuts + 1
        /\ Cardinality(all) > SeenLimit
    BY <1>1, <1>8 DEF Remembered, kSubset, Overflows
  <2>2. IsFiniteSet(seen')
    BY <1>3, <2>1, FS_Subset
  <2>3. Cardinality(seen') + cuts' * D = SeenKept + cuts * D + D
    BY <1>4, <1>5, <2>1
  <2>4. Cardinality(seen') + cuts' * D <= handled'
    BY <1>1, <1>2, <1>3, <1>4, <1>5, <2>1, <2>3
  <2>5. ASSUME NEW f \in Events
        PROVE  evaluations'[f] <= restarts' + cuts' + (IF f \in seen' THEN 1 ELSE 0)
    <3>1. evaluations'[f] \in Nat /\ evaluations'[f] <= restarts + cuts + 1
      <4>1. CASE f = e
        BY <1>1, <1>2, <4>1
      <4>2. CASE f # e
        BY <1>1, <1>2, <4>2
      <4> QED
        BY <4>1, <4>2
    <3> QED
      BY <1>1, <1>2, <2>1, <3>1
  <2> QED
    BY <1>1, <1>2, <1>6, <2>1, <2>2, <2>4, <2>5 DEF PipelineIInv
<1> QED
  BY <1>7, <1>8

LEMMA NextPipelineIInv == PipelineIInv /\ [Next]_vars => PipelineIInv'
<1> SUFFICES ASSUME PipelineIInv, [Next]_vars PROVE PipelineIInv'
  OBVIOUS
<1>1. ASSUME NEW e \in Events, HandleEvent(e) PROVE PipelineIInv'
  BY <1>1, HandleIInv
<1>2. CASE Restart
  <2>1. /\ restarts' = restarts + 1 /\ seen' = {} /\ polling' = NoEvent
        /\ UNCHANGED <<evaluations, cuts, handled>>
    BY <1>2 DEF Restart
  <2>2. Cardinality(seen') = 0 /\ IsFiniteSet(seen') /\ Cardinality(seen) \in Nat
    BY <2>1, FS_EmptySet, FS_CardinalityType DEF PipelineIInv
  <2>3. cuts * (SeenLimit - SeenKept + 1) \in Nat
    BY PipelineAssumption DEF PipelineIInv
  <2>4. Cardinality(seen') + cuts' * (SeenLimit - SeenKept + 1) <= handled'
    BY <2>1, <2>2, <2>3 DEF PipelineIInv
  <2>5. ASSUME NEW f \in Events
        PROVE  evaluations'[f] <= restarts' + cuts' + (IF f \in seen' THEN 1 ELSE 0)
    BY <2>1 DEF PipelineIInv
  <2> QED
    BY <2>1, <2>2, <2>4, <2>5 DEF PipelineIInv
<1>3. CASE \/ \E e \in Events : PollSave(e)
           \/ PollPublish \/ DetectConsume \/ DetectSave \/ UNCHANGED vars
  <2>1. UNCHANGED <<evaluations, restarts, cuts, handled, seen>>
    BY <1>3 DEF PollSave, PollPublish, DetectConsume, DetectSave, vars, pipelineVars
  <2>2. polling' \in Events \cup {NoEvent}
    BY <1>3 DEF PollSave, PollPublish, DetectConsume, DetectSave, vars, pipelineVars,
                PipelineIInv
  <2> QED
    BY <2>1, <2>2 DEF PipelineIInv
<1> QED
  BY <1>1, <1>2, <1>3 DEF Next

\* The rules see an event at most once, and once more for each restart and each cut of the
\* seen set, whichever way and however often the event arrives; cuts are at least SeenLimit
\* - SeenKept + 1 handled events apart (worker/main.py:1543-1551).
THEOREM RulesSeeAnEventOnce == Spec => []EvaluatedOnce
<1>1. PipelineIInv => EvaluatedOnce
  <2> SUFFICES ASSUME PipelineIInv PROVE EvaluatedOnce
    OBVIOUS
  <2>1. Cardinality(seen) \in Nat /\ cuts * (SeenLimit - SeenKept + 1) \in Nat
    BY FS_CardinalityType, PipelineAssumption DEF PipelineIInv
  <2>2. cuts * (SeenLimit - SeenKept + 1) <= handled
    BY <2>1 DEF PipelineIInv
  <2>3. ASSUME NEW e \in Events PROVE evaluations[e] <= 1 + restarts + cuts
    BY DEF PipelineIInv
  <2> QED
    BY <2>2, <2>3 DEF EvaluatedOnce
<1> QED
  BY <1>1, InitPipelineIInv, NextPipelineIInv, PTL DEF Spec

-----------------------------------------------------------------------------
(* Each step of the pipeline is a step of the bus, or leaves it alone.     *)

LEMMA NextIsBusNext == PipelineIInv /\ [Next]_vars => [BusNext]_busVars
<1> SUFFICES ASSUME PipelineIInv, [Next]_vars PROVE [BusNext]_busVars
  OBVIOUS
<1>1. ASSUME NEW e \in Events, HandleEvent(e) \/ PollSave(e) PROVE UNCHANGED busVars
  BY <1>1 DEF HandleEvent, PollSave
<1>2. CASE PollPublish
  <2>1. polling \in Events
    BY <1>2 DEF PollPublish, PipelineIInv
  <2> QED
    BY <1>2, <2>1 DEF PollPublish, Publication, BusNext
<1>3. CASE DetectConsume
  BY <1>3 DEF DetectConsume, BusNext
<1>4. CASE DetectSave
  BY <1>4 DEF DetectSave
<1>5. CASE Restart
  BY <1>5 DEF Restart, BusNext
<1>6. CASE UNCHANGED vars
  BY <1>6 DEF vars
<1> QED
  BY <1>1, <1>2, <1>3, <1>4, <1>5, <1>6 DEF Next

LEMMA PipelineRunsBus == Spec => BusSpec
<1>1. Init => BusInit
  BY DEF Init
<1> QED
  BY <1>1, InitPipelineIInv, NextPipelineIInv, NextIsBusNext, PTL DEF Spec, BusSpec

\* Inside the pipeline, too, no key is handed to Loop B twice.
THEOREM PipelineAtMostOnce == Spec => []AtMostOncePerKey
  BY PipelineRunsBus, BusAtMostOnce, PTL

\* ... the bus accounts for every message it accepted ...
THEOREM PipelineAccountsForAccepted == Spec => []AcceptedIsAccountedFor
  BY PipelineRunsBus, BusAccountsForAccepted, PTL

\* ... and the pipeline keeps the promise of EventBus.
THEOREM PipelineImplementsEventBus == Spec => ImplementsEventBus
  BY PipelineRunsBus, BusImplementsEventBus, PTL

-----------------------------------------------------------------------------
(* The second way makes up for the first.                                  *)

LEMMA LeastPosition ==
    ASSUME NEW S, S \subseteq Nat, S # {}
    PROVE  \E i \in S : \A j \in S : i <= j
<1> DEFINE T == {0..i : i \in S}
<1>1. \A i \in S : IsFiniteSet(0..i) /\ 0..i \in SUBSET Nat
  BY FS_Interval
<1>2. T \subseteq FiniteSubsetsOf(Nat) /\ T # {}
  BY <1>1 DEF FiniteSubsetsOf
<1>3. PICK x \in T : \A y \in T : ~(<<y, x>> \in StrictSubsetOrdering(Nat))
  BY <1>2, FS_StrictSubsetOrderingWellFounded, WFMin
<1>4. PICK i \in S : x = 0..i
  OBVIOUS
<1>5. ASSUME NEW j \in S, j < i PROVE FALSE
  <2>1. 0..j \in T /\ 0..j \subseteq 0..i /\ i \in 0..i /\ i \notin 0..j
    BY <1>5
  <2>2. <<0..j, x>> \in StrictSubsetOrdering(Nat)
    BY <1>1, <1>4, <2>1 DEF StrictSubsetOrdering
  <2> QED
    BY <1>3, <2>1, <2>2
<1> QED
  BY <1>5

\* An event that is saved, for itself or not, leaves its transaction with a row.
LEMMA InsertedHasRow ==
    ASSUME NEW events \in Seq(Events), NEW ok, NEW m \in ElementsOf(events), m \in ok
    PROVE  Inserted(events, ok)[TxOf[m]] # NoEvent
<1> DEFINE t == TxOf[m]
           hits == {i \in DOMAIN events : events[i] \in ok /\ TxOf[events[i]] = t}
<1>1. DOMAIN events = 1..Len(events) /\ Len(events) \in Nat
      /\ \A i \in DOMAIN events : events[i] \in Events
  OBVIOUS
<1>2. hits # {} /\ hits \subseteq Nat
  BY <1>1 DEF ElementsOf
<1>3. \E i \in hits : \A j \in hits : i <= j
  BY <1>2, LeastPosition
<1> DEFINE k == CHOOSE i \in hits : \A j \in hits : i <= j
<1>4. k \in hits
  BY <1>3
<1>5. m \in Events /\ t \in Txs
  BY <1>1, PipelineAssumption DEF ElementsOf
<1>6. Inserted(events, ok)[t] = IF rows[t] # NoEvent \/ hits = {} THEN rows[t] ELSE events[k]
  BY <1>5 DEF Inserted
<1> HIDE DEF k
<1>7. events[k] \in Events /\ NoEvent \notin Events
  BY <1>1, <1>4, PipelineAssumption
<1> QED
  BY <1>2, <1>6, <1>7

\* A save keeps the rows there are, and writes all of its events or counts as failed.
LEMMA SaveFacts ==
    ASSUME NEW events \in Seq(Events), Save(events), saveFailures \in Nat
    PROVE  /\ \A t \in Txs : rows[t] # NoEvent => rows'[t] = rows[t]
           /\ \/ /\ saveFailures' = saveFailures
                 /\ \A m \in ElementsOf(events) : rows'[TxOf[m]] # NoEvent
              \/ saveFailures' = saveFailures + 1
<1>1. PICK ok \in SUBSET ElementsOf(events) :
          /\ \/ ok = ElementsOf(events) /\ saveFailures' = saveFailures
             \/ saveFailures' = saveFailures + 1
          /\ rows' = Inserted(events, ok)
  BY DEF Save
<1>2. ok = ElementsOf(events) => \A m \in ElementsOf(events) : rows'[TxOf[m]] # NoEvent
  BY <1>1, InsertedHasRow
<1>3. \A t \in Txs : rows[t] # NoEvent => rows'[t] = rows[t]
  BY <1>1 DEF Inserted
<1> QED
  BY <1>1, <1>2, <1>3

\* An event is safe when its transaction has a row or its key still is on the second way.
Safe(e) ==
    \/ rows[TxOf[e]] # NoEvent
    \/ \E m \in Queued \cup ElementsOf(batch) : KeyOf[m] = KeyOf[e]
    \/ saveFailures > 1 \/ restarts > 0
    \/ \E m \in refused \cup evicted : KeyOf[m] = KeyOf[e]

\* A key the bus knows is that of an event that was polled and is safe; an event without
\* a row has used up one failure.
KeptIInv ==
    /\ polling \in Events \cup {NoEvent} /\ batch \in Seq(Events)
    /\ saveFailures \in Nat /\ restarts \in Nat /\ polled \subseteq Events
    /\ polling # NoEvent => polling \in polled
    /\ \A e \in polled : polling = e \/ Safe(e)
    /\ \A k \in processed_keys : \E m \in polled : KeyOf[m] = k /\ Safe(m)
    /\ \A e \in polled : rows[TxOf[e]] # NoEvent \/ saveFailures >= 1

LEMMA SameKeySafe ==
    ASSUME NEW e \in Events, NEW m \in Events, KeyOf[e] = KeyOf[m], Safe(m)
    PROVE  Safe(e)
<1>1. TxOf[e] = TxOf[m]
  BY PipelineAssumption
<1> QED
  BY <1>1 DEF Safe

\* What is safe stays so while events are saved and the second way is left alone.
LEMMA SafeStays ==
    ASSUME NEW e \in Events, Safe(e),
           \A t \in Txs : rows[t] # NoEvent => rows'[t] # NoEvent,
           saveFailures \in Nat, saveFailures' \in {saveFailures, saveFailures + 1},
           restarts' = restarts,
           \A m \in Queued \cup ElementsOf(batch) :
               KeyOf[m] = KeyOf[e] =>
                   \/ \E n \in (Queued \cup ElementsOf(batch))' : KeyOf[n] = KeyOf[e]
                   \/ \E n \in evicted' : KeyOf[n] = KeyOf[e],
           refused \subseteq refused', evicted \subseteq evicted'
    PROVE  Safe(e)'
<1>1. TxOf[e] \in Txs
  BY PipelineAssumption
<1>2. saveFailures > 1 => saveFailures' > 1
  OBVIOUS
<1> QED
  BY <1>1, <1>2 DEF Safe

\* The direct saves.
LEMMA DirectSaveKept ==
    ASSUME KeptIInv, NEW e \in Events, HandleEvent(e) \/ PollSave(e)
    PROVE  KeptIInv'
<1> USE DEF KeptIInv
<1>1. /\ Save(<<e>>) /\ polling = NoEvent
      /\ UNCHANGED <<queue, processed_keys, evicted, batch, refused, restarts>>
      /\ \/ UNCHANGED <<polled, polling>>
         \/ polled' = polled \cup {e} /\ polling' = e
  <2>1. CASE HandleEvent(e)
    BY <2>1 DEF HandleEvent, busVars
  <2>2. CASE PollSave(e)
    BY <2>2 DEF PollSave, busVars
  <2> QED
    BY <2>1, <2>2
<1>2. <<e>> \in Seq(Events) /\ ElementsOf(<<e>>) = {e}
  BY DEF ElementsOf
<1>3. /\ \A t \in Txs : rows[t] # NoEvent => rows'[t] = rows[t]
      /\ \/ saveFailures' = saveFailures /\ rows'[TxOf[e]] # NoEvent
         \/ saveFailures' = saveFailures + 1
  BY <1>1, <1>2, SaveFacts
<1>4. (Queued \cup ElementsOf(batch))' = Queued \cup ElementsOf(batch)
  BY <1>1 DEF Queued, ElementsOf
<1>5. ASSUME NEW f \in Events, Safe(f) PROVE Safe(f)'
  BY <1>1, <1>3, <1>4, <1>5, SafeStays
<1>6. NoEvent \notin Events /\ \A f \in Events : TxOf[f] \in Txs
  BY PipelineAssumption
<1>7. \A f \in polled' : polling' = f \/ Safe(f)'
  BY <1>1, <1>5, <1>6
<1>8. \A k \in processed_keys' : \E m \in polled' : KeyOf[m] = k /\ Safe(m)'
  BY <1>1, <1>5
<1>9. \A f \in polled' : rows'[TxOf[f]] # NoEvent \/ saveFailures' >= 1
  BY <1>1, <1>3, <1>6
<1>10. /\ polling' \in Events \cup {NoEvent} /\ batch' \in Seq(Events)
       /\ saveFailures' \in Nat /\ restarts' \in Nat /\ polled' \subseteq Events
       /\ (polling' # NoEvent => polling' \in polled')
  BY <1>1, <1>3
<1> QED
  BY <1>7, <1>8, <1>9, <1>10

\* The publication.
LEMMA PublishKept ==
    ASSUME KeptIInv, IInv, PollPublish
    PROVE  KeptIInv'
<1> USE DEF KeptIInv
<1>1. PICK e \in polled :
          /\ polling = e /\ e \in Events /\ polling' = NoEvent /\ Publication(e)
          /\ UNCHANGED <<rows, batch, polled, saveFailures, restarts>>
  BY DEF PollPublish
<1>2. queue \in Seq(Events) /\ Len(queue) \in Nat
  BY DEF IInv, BusTypeOK
<1>3. \A f \in Events : TxOf[f] \in Txs
  BY PipelineAssumption
<1>4. CASE ~IsNew(e) /\ UNCHANGED busVars
  <2>1. UNCHANGED <<queue, processed_keys, evicted, refused>>
    BY <1>1, <1>4 DEF busVars, Publication
  <2>2. (Queued \cup ElementsOf(batch))' = Queued \cup ElementsOf(batch)
    BY <1>1, <2>1 DEF Queued, ElementsOf
  <2>3. ASSUME NEW f \in Events, Safe(f) PROVE Safe(f)'
    BY <1>1, <2>1, <2>2, <2>3 DEF Safe
  <2>4. Safe(e)
    BY <1>1, <1>4, SameKeySafe DEF IsNew
  <2> QED
    BY <1>1, <2>1, <2>3, <2>4
<1>5. CASE BusPublish(e)
  <2>1. /\ processed_keys' = processed_keys \cup {KeyOf[e]} /\ refused \subseteq refused'
        /\ evicted \subseteq evicted'
        /\ \/ queue' = Append(queue, e) /\ evicted' = evicted
           \/ /\ queue # <<>> /\ queue' = Append(Tail(queue), e)
              /\ evicted' = evicted \cup {Head(queue)}
           \/ queue' = queue /\ e \in refused'
    <3>1. ~HasRoom => queue # <<>>
      BY <1>2, BusAssumption DEF HasRoom
    <3> QED
      BY <1>1, <1>5, <3>1 DEF BusPublish, Publication
  <2>2. \A m \in Queued : m \in Queued' \/ m \in evicted'
    <3>1. CASE queue' = Append(queue, e)
      BY <1>1, <1>2, <3>1, AppendElements DEF Queued
    <3>2. CASE /\ queue # <<>> /\ queue' = Append(Tail(queue), e)
               /\ evicted' = evicted \cup {Head(queue)}
      <4>1. /\ Tail(queue) \in Seq(Events) /\ Len(Tail(queue)) = Len(queue) - 1
            /\ \A i \in 1..Len(Tail(queue)) : Tail(queue)[i] = queue[i + 1]
            /\ Head(queue) = queue[1] /\ Len(queue) >= 1
        BY <1>2, <3>2, TailElements
      <4>2. /\ Len(queue') = Len(queue)
            /\ \A i \in 1..(Len(queue) - 1) : queue'[i] = queue[i + 1]
        BY <1>1, <1>2, <3>2, <4>1, AppendElements
      <4>3. ASSUME NEW i \in 1..Len(queue) PROVE queue[i] \in Queued' \/ queue[i] \in evicted'
        <5>1. CASE i = 1
          BY <3>2, <4>1, <5>1
        <5>2. CASE i # 1
          <6>1. i - 1 \in 1..(Len(queue) - 1) /\ i - 1 \in 1..Len(queue') /\ (i - 1) + 1 = i
            BY <1>2, <4>2, <5>2
          <6>2. queue'[i - 1] = queue[i]
            BY <4>2, <6>1
          <6> QED
            BY <6>1, <6>2 DEF Queued
        <5> QED
          BY <5>1, <5>2
      <4> QED
        BY <4>3 DEF Queued
    <3>3. CASE queue' = queue
      BY <3>3 DEF Queued
    <3> QED
      BY <2>1, <3>1, <3>2, <3>3
  <2>3. e \in Queued' \/ e \in refused'
    <3>1. CASE queue' = Append(queue, e)
      BY <1>1, <1>2, <3>1, AppendElements DEF Queued
    <3>2. CASE queue # <<>> /\ queue' = Append(Tail(queue), e)
      <4>1. Tail(queue) \in Seq(Events) /\ Len(Tail(queue)) \in Nat
        BY <1>2, <3>2, TailElements
      <4> QED
        BY <1>1, <3>2, <4>1, AppendElements DEF Queued
    <3> QED
      BY <2>1, <3>1, <3>2
  <2>4. ElementsOf(batch)' = ElementsOf(batch)
    BY <1>1 DEF ElementsOf
  <2>5. ASSUME NEW f \in Events, Safe(f) PROVE Safe(f)'
    <3>1. /\ UNCHANGED <<rows, saveFailures, restarts>>
          /\ \A m \in Queued \cup ElementsOf(batch) :
                 KeyOf[m] = KeyOf[f] =>
                     \/ \E n \in (Queued \cup ElementsOf(batch))' : KeyOf[n] = KeyOf[f]
                     \/ \E n \in evicted' : KeyOf[n] = KeyOf[f]
      BY <1>1, <2>2, <2>4
    <3> QED
      BY <2>1, <2>5, <3>1, SafeStays
  <2>6. Safe(e)'
    BY <2>3 DEF Safe
  <2>7. \A f \in polled' : Safe(f)'
    BY <1>1, <2>5, <2>6
  <2>8. \A k \in processed_keys' : \E m \in polled' : KeyOf[m] = k /\ Safe(m)'
    BY <1>1, <2>1, <2>5, <2>6
  <2> QED
    BY <1>1, <2>7, <2>8
<1> QED
  BY <1>1, <1>4, <1>5 DEF Publication

\* Loop B.
LEMMA ConsumeKept ==
    ASSUME KeptIInv, IInv, DetectConsume
    PROVE  KeptIInv'
<1> USE DEF KeptIInv
<1>1. /\ batch = <<>> /\ batch' = SubSeq(queue, 1, Taken) /\ BusConsume
      /\ UNCHANGED <<rows, polling, polled, refused, saveFailures, restarts>>
  BY DEF DetectConsume
<1>2. /\ Taken \in Nat /\ Taken <= Len(queue) /\ Len(queue) \in Nat /\ queue \in Seq(Events)
      /\ Queued = Queued' \cup {queue[i] : i \in 1..Taken}
      /\ UNCHANGED <<processed_keys, evicted>>
  BY <1>1, ConsumeFacts DEF IInv, BusTypeOK
<1>3. /\ batch' \in Seq(Events) /\ DOMAIN batch' = 1..Taken
      /\ \A i \in 1..Taken : batch'[i] = queue[i]
  <2>1. batch' = [i \in 1..Taken |-> queue[i]]
    BY <1>1, <1>2, SMT
  <2>2. \A i \in 1..Taken : queue[i] \in Events
    BY <1>2
  <2>3. batch' \in [1..Taken -> Events]
    BY <2>1, <2>2
  <2> QED
    BY <1>2, <2>1, <2>3
<1>4. ElementsOf(batch)' = {queue[i] : i \in 1..Taken}
  BY <1>3 DEF ElementsOf
<1>5. (Queued \cup ElementsOf(batch))' = Queued
  BY <1>2, <1>4
<1>6. Queued \cup ElementsOf(batch) = Queued
  BY <1>1 DEF ElementsOf
<1>7. ASSUME NEW f \in Events, Safe(f) PROVE Safe(f)'
  BY <1>1, <1>2, <1>5, <1>6, <1>7 DEF Safe
<1> QED
  BY <1>1, <1>2, <1>3, <1>7

LEMMA DetectSaveKept ==
    ASSUME KeptIInv, DetectSave
    PROVE  KeptIInv'
<1> USE DEF KeptIInv
<1>1. /\ Save(batch) /\ batch' = <<>>
      /\ UNCHANGED <<queue, processed_keys, evicted, polling, polled, refused, restarts>>
  BY DEF DetectSave, busVars
<1>2. /\ \A t \in Txs : rows[t] # NoEvent => rows'[t] = rows[t]
      /\ \/ /\ saveFailures' = saveFailures
            /\ \A m \in ElementsOf(batch) : rows'[TxOf[m]] # NoEvent
         \/ saveFailures' = saveFailures + 1
  BY <1>1, SaveFacts
<1>3. \A f \in Events : TxOf[f] \in Txs
  BY PipelineAssumption
<1>4. Queued' = Queued /\ \A m \in ElementsOf(batch) : m \in Events
  BY <1>1 DEF Queued, ElementsOf
<1>5. \A f \in polled : rows'[TxOf[f]] # NoEvent \/ saveFailures' >= 1
  BY <1>2, <1>3
<1>6. ASSUME NEW f \in polled, Safe(f) PROVE Safe(f)'
  <2>1. CASE rows[TxOf[f]] # NoEvent
    BY <1>2, <1>3, <2>1 DEF Safe
  <2>2. CASE rows[TxOf[f]] = NoEvent /\ saveFailures' = saveFailures + 1
    <3>1. saveFailures' > 1
      BY <2>2
    <3> QED
      BY <3>1 DEF Safe
  <2>3. CASE \E m \in ElementsOf(batch) : KeyOf[m] = KeyOf[f] /\ rows'[TxOf[m]] # NoEvent
    <3>1. rows'[TxOf[f]] # NoEvent
      BY <1>4, <2>3, PipelineAssumption
    <3> QED
      BY <3>1 DEF Safe
  <2>4. CASE \/ \E m \in Queued : KeyOf[m] = KeyOf[f]
             \/ \E m \in refused \cup evicted : KeyOf[m] = KeyOf[f]
             \/ restarts > 0
    BY <1>1, <1>4, <2>4 DEF Safe
  <2>5. CASE saveFailures > 1
    <3>1. saveFailures' > 1
      BY <1>2, <2>5
    <3> QED
      BY <3>1 DEF Safe
  <2> QED
    BY <1>2, <1>6, <2>1, <2>2, <2>3, <2>4, <2>5 DEF Safe
<1>7. batch' \in Seq(Events) /\ saveFailures' \in Nat
  BY <1>1, <1>2
<1> QED
  BY <1>1, <1>5, <1>6, <1>7

LEMMA InitKept == Init => KeptIInv
  BY DEF Init, BusInit, KeptIInv

LEMMA NextKept == KeptIInv /\ IInv /\ [Next]_vars => KeptIInv'
<1> SUFFICES ASSUME KeptIInv, IInv, [Next]_vars PROVE KeptIInv'
  OBVIOUS
<1>1. ASSUME NEW e \in Events, HandleEvent(e) \/ PollSave(e) PROVE KeptIInv'
  BY <1>1, DirectSaveKept
<1>2. CASE Restart
  <2>1. /\ restarts' = restarts + 1 /\ processed_keys' = {} /\ polling' = NoEvent
        /\ batch' = <<>> /\ UNCHANGED <<rows, polled, saveFailures>>
    BY <1>2 DEF Restart, BusClose
  <2>2. restarts' \in Nat /\ restarts' > 0 /\ batch' \in Seq(Events)
    BY <2>1 DEF KeptIInv
  <2>3. \A e : Safe(e)'
    BY <2>2 DEF Safe
  <2> QED
    BY <2>1, <2>2, <2>3 DEF KeptIInv
<1>3. CASE UNCHANGED vars
  <2>1. UNCHANGED <<busVars, pipelineVars>>
    BY <1>3 DEF vars
  <2> QED
    BY <2>1 DEF KeptIInv, Safe, Queued, ElementsOf, busVars, pipelineVars
<1> QED
  BY <1>1, <1>2, <1>3, PublishKept, ConsumeKept, DetectSaveKept DEF Next

\* A direct save that fails costs nothing: what Loop A is done with has a row, or is on its
\* way through the bus, until a second save fails, the queue gives its key up, or the worker
\* restarts (worker/main.py:1120-1127, 2754-2811).
THEOREM PolledEventsAreKept == Spec => []PolledIsKept
<1>1. KeptIInv /\ IInv => PolledIsKept
  <2> SUFFICES ASSUME KeptIInv, IInv, NEW e \in Events, e \in polled, polling # e
               PROVE  \/ rows[TxOf[e]] # NoEvent
                      \/ \E m \in Queued \cup ElementsOf(batch) : TxOf[m] = TxOf[e]
                      \/ saveFailures > 1 \/ restarts > 0
                      \/ \E m \in refused \cup evicted : KeyOf[m] = KeyOf[e]
    BY DEF PolledIsKept
  <2>1. Safe(e)
    BY DEF KeptIInv
  <2>2. \A m \in Queued \cup ElementsOf(batch) : m \in Events
    BY DEF Queued, ElementsOf, KeptIInv, IInv, BusTypeOK
  <2> QED
    BY <2>1, <2>2, PipelineAssumption DEF Safe
<1>2. BusSpec => []IInv
  BY InitIInv, NextIInv, PTL DEF BusSpec
<1> QED
  BY <1>1, <1>2, PipelineRunsBus, InitKept, NextKept, PTL DEF Spec

-----------------------------------------------------------------------------
(* Types of the pipeline.                                                  *)

LEMMA InsertedTyped ==
    ASSUME NEW events \in Seq(Events), NEW ok, rows \in [Txs -> Events \cup {NoEvent}]
    PROVE  Inserted(events, ok) \in [Txs -> Events \cup {NoEvent}]
<1> DEFINE hits(t) == {i \in DOMAIN events : events[i] \in ok /\ TxOf[events[i]] = t}
           first(t) == CHOOSE i \in hits(t) : \A j \in hits(t) : i <= j
<1>1. DOMAIN events \subseteq Nat /\ \A i \in DOMAIN events : events[i] \in Events
  OBVIOUS
<1>2. ASSUME NEW t \in Txs, hits(t) # {} PROVE events[first(t)] \in Events
  <2>1. hits(t) \subseteq Nat
    BY <1>1
  <2>2. \E i \in hits(t) : \A j \in hits(t) : i <= j
    BY <1>2, <2>1, LeastPosition
  <2>3. first(t) \in hits(t)
    BY <2>2
  <2> QED
    BY <1>1, <2>3
<1>3. Inserted(events, ok) =
          [t \in Txs |-> IF rows[t] # NoEvent \/ hits(t) = {} THEN rows[t] ELSE events[first(t)]]
  BY DEF Inserted
<1> HIDE DEF hits, first
<1> QED
  BY <1>2, <1>3

LEMMA SaveTyped ==
    ASSUME TypeOK, NEW events \in Seq(Events), Save(events)
    PROVE  /\ rows' \in [Txs -> Events \cup {NoEvent}] /\ counted' \subseteq Events
           /\ saveFailures' \in 0..MaxSaveFailures
<1>1. PICK ok \in SUBSET ElementsOf(events) :
          /\ rows' = Inserted(events, ok) /\ counted' \in {counted, counted \cup ok}
          /\ \/ UNCHANGED saveFailures
             \/ saveFailures < MaxSaveFailures /\ saveFailures' = saveFailures + 1
  BY DEF Save
<1>2. ElementsOf(events) \subseteq Events
  BY DEF ElementsOf
<1> QED
  BY <1>1, <1>2, InsertedTyped, PipelineAssumption DEF TypeOK

\* What Loop B has in its hands is one batch of the bus.
LEMMA ConsumeTyped ==
    ASSUME TypeOK, IInv, DetectConsume
    PROVE  batch' \in Seq(Events) /\ Len(batch') <= BatchSize
<1>1. /\ Taken \in Nat /\ Taken <= Len(queue) /\ Len(queue) \in Nat /\ queue \in Seq(Events)
      /\ batch' = SubSeq(queue, 1, Taken)
  BY ConsumeFacts DEF IInv, BusTypeOK, DetectConsume
<1>2. Taken <= BatchSize
  BY <1>1, BusAssumption DEF Taken
<1>3. batch' = [i \in 1..Taken |-> queue[i]]
  BY <1>1, SMT
<1>4. \A i \in 1..Taken : queue[i] \in Events
  BY <1>1
<1>5. batch' \in [1..Taken -> Events]
  BY <1>3, <1>4
<1>6. batch' \in Seq(Events) /\ Len(batch') = Taken
  BY <1>1, <1>3, <1>5
<1> QED
  BY <1>2, <1>6

\* The state of the pipeline keeps its types: a row holds an event or none, Loop B never
\* has more than one batch in its hands, and the bus inside keeps its own.
THEOREM PipelineTypeCorrect == Spec => []TypeOK
<1>1. Init /\ BusTypeOK => TypeOK
  <2> SUFFICES ASSUME Init, BusTypeOK PROVE TypeOK
    OBVIOUS
  <2>1. batch \in Seq(Events) /\ Len(batch) <= BatchSize
    BY BusAssumption DEF Init
  <2> QED
    BY <2>1, PipelineAssumption DEF Init, TypeOK
<1>2. TypeOK /\ IInv /\ BusTypeOK' /\ [Next]_vars => TypeOK'
  <2> SUFFICES ASSUME TypeOK, IInv, BusTypeOK', [Next]_vars PROVE TypeOK'
    OBVIOUS
  <2>1. ASSUME NEW e \in Events, HandleEvent(e) PROVE TypeOK'
    <3>1. <<e>> \in Seq(Events) /\ Save(<<e>>)
      BY <2>1 DEF HandleEvent
    <3>2. evaluations' \in [Events -> Nat] /\ handled' \in Nat
      BY <2>1 DEF HandleEvent, TypeOK
    <3>3. seen' \subseteq Events
      BY <2>1 DEF HandleEvent, Remembered, kSubset, TypeOK
    <3>4. cuts' \in Nat /\ cuts' + restarts <= MaxLapses
      BY <2>1, PipelineAssumption DEF HandleEvent, MayLapse, TypeOK
    <3> QED
      BY <2>1, <3>1, <3>2, <3>3, <3>4, SaveTyped DEF HandleEvent, TypeOK
  <2>2. ASSUME NEW e \in Events, PollSave(e) PROVE TypeOK'
    <3>1. <<e>> \in Seq(Events) /\ Save(<<e>>)
      BY <2>2 DEF PollSave
    <3> QED
      BY <2>2, <3>1, SaveTyped DEF PollSave, TypeOK
  <2>3. CASE PollPublish
    BY <2>3 DEF PollPublish, Publication, TypeOK
  <2>4. CASE DetectConsume
    BY <2>4, ConsumeTyped DEF DetectConsume, TypeOK
  <2>5. CASE DetectSave
    <3>1. Save(batch) /\ batch \in Seq(Events)
      BY <2>5 DEF DetectSave, TypeOK
    <3>2. batch' \in Seq(Events) /\ Len(batch') <= BatchSize
      BY <2>5, BusAssumption DEF DetectSave
    <3> QED
      BY <2>5, <3>1, <3>2, SaveTyped DEF DetectSave, TypeOK
  <2>6. CASE Restart
    <3>1. restarts' \in Nat /\ cuts + restarts' <= MaxLapses
      BY <2>6, PipelineAssumption DEF Restart, MayLapse, TypeOK
    <3>2. batch' \in Seq(Events) /\ Len(batch') <= BatchSize
      BY <2>6, BusAssumption DEF Restart
    <3> QED
      BY <2>6, <3>1, <3>2 DEF Restart, TypeOK
  <2>7. CASE UNCHANGED vars
    BY <2>7 DEF vars, pipelineVars, TypeOK
  <2> QED
    BY <2>1, <2>2, <2>3, <2>4, <2>5, <2>6, <2>7 DEF Next
<1>3. BusSpec => []IInv
  BY InitIInv, NextIInv, PTL DEF BusSpec
<1> QED
  BY <1>1, <1>2, <1>3, PipelineRunsBus, BusTypeCorrect, PTL DEF Spec
=============================================================================
