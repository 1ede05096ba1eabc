------------------------ MODULE RedisStreamsBus_proofs ------------------------
(***************************************************************************)
(* For every number of workers, keys and entries, every cap and batch      *)
(* size, and any number of failing calls and crashes: RedisStreamsBus      *)
(* hands an entry to one worker, returns it once, after it was recorded    *)
(* and acknowledged, and each crash or failing call costs at most a batch. *)
(* To its workers it is the queue of WorkQueue.                            *)
(***************************************************************************)
EXTENDS RedisStreamsBus, FiniteSetTheorems, TLAPS

StreamTypes ==
    /\ stream \in Seq(Keys) /\ Len(stream) <= MaxEntries
    /\ trimmed \in 0..Len(stream) /\ cursor \in 0..Len(stream)
    /\ pending \in [Ids -> Workers \cup {NoWorker}]
    /\ acked \subseteq 1..Len(stream)
    /\ processed \subseteq Keys
    /\ publishing \in [Workers -> Keys \cup {NoKey}]
    /\ batch \in [Workers -> Seq(Ids)]
    /\ marked \in [Workers -> BOOLEAN]
    /\ collected \in [Workers -> SUBSET Ids]
    /\ returned \in [Ids -> 0..1]
    /\ crashes \in Nat

\* What a worker has in its batch is pending for it alone, and there once.
BatchIsPending ==
    \A w \in Workers : \A i \in 1..Len(batch[w]) :
        batch[w][i] <= cursor /\ pending[batch[w][i]] = w

BatchIsDistinct ==
    \A w \in Workers : \A i, j \in 1..Len(batch[w]) : batch[w][i] = batch[w][j] => i = j

MarkedIsRecorded ==
    \A w \in Workers :
        marked[w] => batch[w] # <<>> /\ stream[Head(batch[w])] \in processed

\* What has left the pending list through an acknowledgement.
Done(n) == n <= cursor /\ n \in acked /\ pending[n] = NoWorker /\ stream[n] \in processed

CollectedIsDone ==
    \A w \in Workers : \A n \in collected[w] : Done(n) /\ returned[n] = 0

CollectedOnce ==
    \A v, w \in Workers : v # w => collected[v] \cap collected[w] = {}

ReturnedIsDone == \A n \in Ids : returned[n] # 0 => Done(n)

BatchIsBounded ==
    \A w \in Workers : /\ IsFiniteSet(collected[w])
                       /\ Cardinality(collected[w]) + Len(batch[w]) <= BatchSize

StreamIInv ==
    /\ StreamTypes /\ BatchIsPending /\ BatchIsDistinct /\ MarkedIsRecorded
    /\ CollectedIsDone /\ CollectedOnce /\ ReturnedIsDone

LossIInv == StreamIInv /\ BatchIsBounded /\ failures \in Nat /\ LossesAreBounded

LEMMA InitStreamIInv == Init => StreamIInv
<1> SUFFICES ASSUME Init PROVE StreamIInv
  OBVIOUS
<1>1. StreamTypes
  BY StreamAssumption DEF Init, StreamTypes
<1>2. /\ BatchIsPending /\ BatchIsDistinct /\ MarkedIsRecorded
      /\ CollectedIsDone /\ CollectedOnce /\ ReturnedIsDone
  BY DEF Init, BatchIsPending, BatchIsDistinct, MarkedIsRecorded, CollectedIsDone,
         CollectedOnce, ReturnedIsDone, Ids
<1> QED
  BY <1>1, <1>2 DEF StreamIInv

-----------------------------------------------------------------------------
(* What XREADGROUP gives.                                                  *)

LEMMA UnreadFacts ==
    ASSUME StreamTypes, Unread # <<>>
    PROVE  /\ Unread \in Seq(Ids) /\ Len(Unread) \in Nat \ {0} /\ Len(Unread) <= BatchSize
           /\ DOMAIN Unread = 1..Len(Unread)
           /\ NextCursor(Unread) \in 1..Len(stream) /\ cursor < NextCursor(Unread)
           /\ \A i \in 1..Len(Unread) : /\ Unread[i] > cursor /\ Unread[i] > trimmed
                                        /\ Unread[i] <= NextCursor(Unread)
           /\ \A i, j \in 1..Len(Unread) : Unread[i] = Unread[j] => i = j
           /\ \A n \in 1..NextCursor(Unread) : n > cursor /\ n > trimmed =>
                  \E i \in 1..Len(Unread) : Unread[i] = n
<1> DEFINE first == IF cursor >= trimmed THEN cursor + 1 ELSE trimmed + 1
           last == IF first + BatchSize - 1 <= Len(stream) THEN first + BatchSize - 1
                   ELSE Len(stream)
           size == last + 1 - first
<1>1. Unread = [i \in 1..size |-> first + i - 1]
  BY DEF Unread
<1>2. /\ cursor \in Nat /\ trimmed \in Nat /\ Len(stream) \in Nat /\ MaxEntries \in Nat
      /\ Len(stream) <= MaxEntries /\ BatchSize \in Nat \ {0}
      /\ cursor <= Len(stream) /\ trimmed <= Len(stream)
  BY StreamAssumption DEF StreamTypes
<1>3. /\ first \in Nat /\ last \in Nat /\ size \in Int
      /\ first > cursor /\ first > trimmed /\ (first = cursor + 1 \/ first = trimmed + 1)
      /\ last <= Len(stream) /\ size <= BatchSize
  BY <1>2
<1> HIDE DEF first, last
<1>4. size >= 1
  <2> SUFFICES ASSUME ~(size >= 1) PROVE FALSE
    OBVIOUS
  <2>1. 1..size = {}
    BY <1>3
  <2>2. Unread = [i \in {} |-> first + i - 1]
    BY <1>1, <2>1
  <2>3. Unread = <<>>
    BY <2>2
  <2> QED
    BY <2>3
<1>5. size \in Nat
  BY <1>3, <1>4
<1>6. \A i \in 1..size : first + i - 1 \in Ids
  BY <1>2, <1>3, <1>5 DEF Ids
<1>7. Unread \in [1..size -> Ids]
  BY <1>1, <1>6
<1>8. Unread \in Seq(Ids) /\ Len(Unread) = size /\ DOMAIN Unread = 1..size
  BY <1>5, <1>7
<1>9. NextCursor(Unread) = last
  BY <1>1, <1>3, <1>4, <1>5, <1>8 DEF NextCursor
<1>10. \A i \in 1..size : Unread[i] = first + i - 1
  BY <1>1
<1>11. ASSUME NEW n \in 1..last, n > cursor, n > trimmed
       PROVE  \E i \in 1..size : Unread[i] = n
  <2>1. n + 1 - first \in 1..size /\ first + (n + 1 - first) - 1 = n
    BY <1>2, <1>3, <1>11
  <2> QED
    BY <1>10, <2>1
<1>12. last \in 1..Len(stream) /\ cursor < last
  BY <1>2, <1>3, <1>4
<1>13. \A i \in 1..size : /\ first + i - 1 > cursor /\ first + i - 1 > trimmed
                          /\ first + i - 1 <= last
  BY <1>2, <1>3, <1>4
<1>14. \A i, j \in 1..size : Unread[i] = Unread[j] => i = j
  BY <1>3, <1>5, <1>10
<1>15. size \in Nat \ {0} /\ size <= BatchSize
  BY <1>3, <1>4, <1>5
<1>16. \A n \in 1..last : n > cursor /\ n > trimmed => \E i \in 1..size : Unread[i] = n
  BY <1>11
<1>17. \A i \in 1..size : Unread[i] > cursor /\ Unread[i] > trimmed /\ Unread[i] <= last
  BY <1>10, <1>13
<1> HIDE DEF size
<1> QED
  BY <1>8, <1>9, <1>12, <1>14, <1>15, <1>16, <1>17

LEMMA TailFacts ==
    ASSUME NEW q \in Seq(Ids), q # <<>>
    PROVE  /\ Tail(q) \in Seq(Ids) /\ Len(q) \in Nat \ {0} /\ Len(Tail(q)) = Len(q) - 1
           /\ \A i \in 1..Len(Tail(q)) : i + 1 \in 1..Len(q) /\ Tail(q)[i] = q[i + 1]
           /\ Head(q) = q[1] /\ Head(q) \in Ids /\ 1 \in 1..Len(q)
  OBVIOUS

-----------------------------------------------------------------------------
(* Every step preserves StreamIInv.                                        *)

LEMMA PublishingIInv ==
    ASSUME StreamIInv, NEW w \in Workers, NEW k \in Keys \cup {NoKey},
           CheckProcessed(w, k) \/ (XaddFails(w) /\ k = NoKey)
    PROVE  StreamIInv'
<1> USE DEF StreamIInv
<1>1. /\ publishing' = [publishing EXCEPT ![w] = k]
      /\ UNCHANGED <<stream, trimmed, cursor, pending, acked, processed, batch, marked,
                     collected, returned, crashes>>
  BY DEF CheckProcessed, XaddFails, groupVars
<1>2. StreamTypes'
  BY <1>1 DEF StreamTypes
<1>3. BatchIsPending' /\ BatchIsDistinct' /\ MarkedIsRecorded'
  BY <1>1 DEF BatchIsPending, BatchIsDistinct, MarkedIsRecorded
<1>4. CollectedIsDone' /\ CollectedOnce' /\ ReturnedIsDone'
  BY <1>1 DEF CollectedIsDone, CollectedOnce, ReturnedIsDone, Done
<1> QED
  BY <1>2, <1>3, <1>4

\* An entry that is added changes none of those before it.
LEMMA XaddIInv ==
    ASSUME StreamIInv, NEW w \in Workers, Xadd(w)
    PROVE  StreamIInv'
<1> USE DEF StreamIInv
<1>1. /\ publishing[w] # NoKey /\ Len(stream) < MaxEntries
      /\ stream' = Append(stream, publishing[w])
      /\ trimmed' \in trimmed..Len(stream)
      /\ publishing' = [publishing EXCEPT ![w] = NoKey]
      /\ UNCHANGED <<cursor, pending, acked, processed, batch, marked, collected, returned,
                     crashes>>
  BY DEF Xadd, TrimmedTo, groupVars
<1>2. publishing[w] \in Keys
  BY <1>1 DEF StreamTypes
<1>3. /\ stream' \in Seq(Keys) /\ Len(stream') = Len(stream) + 1
      /\ \A n \in 1..Len(stream) : stream'[n] = stream[n]
  BY <1>1, <1>2 DEF StreamTypes
<1>4. /\ Len(stream) \in Nat /\ trimmed \in 0..Len(stream) /\ cursor \in 0..Len(stream)
      /\ MaxEntries \in Nat
  BY StreamAssumption DEF StreamTypes
<1>5. StreamTypes'
  <2>1. Len(stream') <= MaxEntries
    BY <1>1, <1>3, <1>4
  <2>2. trimmed' \in 0..Len(stream') /\ cursor' \in 0..Len(stream')
    BY <1>1, <1>3, <1>4
  <2>3. acked' \subseteq 1..Len(stream')
    BY <1>1, <1>3, <1>4 DEF StreamTypes
  <2>4. publishing' \in [Workers -> Keys \cup {NoKey}]
    BY <1>1 DEF StreamTypes
  <2> QED
    BY <1>1, <1>3, <2>1, <2>2, <2>3, <2>4 DEF StreamTypes
<1>6. BatchIsPending' /\ BatchIsDistinct'
  BY <1>1 DEF BatchIsPending, BatchIsDistinct
<1>7. ASSUME NEW n \in Ids, Done(n) PROVE Done(n)'
  <2>1. n \in 1..Len(stream)
    BY <1>4, <1>7 DEF Done, Ids
  <2> QED
    BY <1>1, <1>3, <1>7, <2>1 DEF Done
<1>8. MarkedIsRecorded'
  <2> SUFFICES ASSUME NEW v \in Workers, marked[v]
               PROVE  batch[v] # <<>> /\ stream'[Head(batch[v])] \in processed
    BY <1>1 DEF MarkedIsRecorded
  <2>1. batch[v] # <<>> /\ stream[Head(batch[v])] \in processed
    BY DEF MarkedIsRecorded
  <2>2. batch[v] \in Seq(Ids)
    BY DEF StreamTypes
  <2>3. Head(batch[v]) = batch[v][1] /\ Head(batch[v]) \in Ids /\ 1 \in 1..Len(batch[v])
    BY <2>1, <2>2, TailFacts
  <2>4. Head(batch[v]) <= cursor
    BY <2>3 DEF BatchIsPending
  <2>5. Head(batch[v]) \in 1..Len(stream)
    BY <1>4, <2>3, <2>4 DEF Ids
  <2> QED
    BY <1>3, <2>1, <2>5
<1>9. CollectedIsDone' /\ CollectedOnce' /\ ReturnedIsDone'
  BY <1>1, <1>7 DEF CollectedIsDone, CollectedOnce, ReturnedIsDone, StreamTypes
<1> QED
  BY <1>5, <1>6, <1>8, <1>9

\* A worker gets what the group gives it, or nothing when the answer is lost.
LEMMA ReadBatch ==
    ASSUME StreamIInv, NEW w \in Workers, ReadGroup(w) \/ ReadGroupUnheard(w)
    PROVE  \E got \in {Unread, <<>>} : batch' = [batch EXCEPT ![w] = got]
<1>1. CASE ReadGroup(w)
  BY <1>1 DEF ReadGroup
<1>2. CASE ReadGroupUnheard(w)
  <2>1. batch' = batch /\ batch[w] = <<>> /\ batch \in [Workers -> Seq(Ids)]
    BY <1>2 DEF ReadGroupUnheard, Idle, workerVars, StreamIInv, StreamTypes
  <2>2. batch' = [batch EXCEPT ![w] = <<>>]
    BY <2>1
  <2> QED
    BY <2>2
<1> QED
  BY <1>1, <1>2

\* The entries a worker reads are after the cursor: nobody else has had them.
LEMMA ReadGroupIInv ==
    ASSUME StreamIInv, NEW w \in Workers, ReadGroup(w) \/ ReadGroupUnheard(w)
    PROVE  StreamIInv'
<1> USE DEF StreamIInv
<1>0. PICK got \in {Unread, <<>>} : batch' = [batch EXCEPT ![w] = got]
  BY ReadBatch
<1>1. /\ batch[w] = <<>> /\ collected[w] = {} /\ Unread # <<>>
      /\ cursor' = NextCursor(Unread)
      /\ pending' = [n \in Ids |-> IF \E i \in DOMAIN Unread : Unread[i] = n THEN w
                                   ELSE pending[n]]
      /\ UNCHANGED <<stream, trimmed, acked, processed, publishing, marked, collected,
                     returned, crashes>>
  BY DEF ReadGroup, ReadGroupUnheard, GivenTo, Idle, workerVars
<1>2. /\ Unread \in Seq(Ids) /\ DOMAIN Unread = 1..Len(Unread)
      /\ cursor' \in 1..Len(stream) /\ cursor < cursor'
      /\ \A i \in 1..Len(Unread) : Unread[i] > cursor /\ Unread[i] <= cursor'
      /\ \A i, j \in 1..Len(Unread) : Unread[i] = Unread[j] => i = j
  BY <1>1, UnreadFacts
<1>3. cursor \in Nat /\ cursor' \in Nat
  BY <1>2 DEF StreamTypes
<1>4. StreamTypes'
  <2>1. pending' \in [Ids -> Workers \cup {NoWorker}]
    BY <1>1 DEF StreamTypes
  <2>2. batch' \in [Workers -> Seq(Ids)]
    <3>1. got \in Seq(Ids)
      <4>1. <<>> \in Seq(Ids)
        OBVIOUS
      <4> QED
        BY <1>2, <4>1
    <3> QED
      BY <1>0, <3>1 DEF StreamTypes
  <2>3. cursor' \in 0..Len(stream')
    BY <1>1, <1>2
  <2> QED
    BY <1>1, <2>1, <2>2, <2>3 DEF StreamTypes
<1>5. \A n \in Ids : n <= cursor => pending'[n] = pending[n]
  <2> SUFFICES ASSUME NEW n \in Ids, n <= cursor PROVE pending'[n] = pending[n]
    OBVIOUS
  <2>1. n \in Nat
    BY DEF Ids
  <2>2. ~\E i \in DOMAIN Unread : Unread[i] = n
    BY <1>2, <1>3, <2>1
  <2> QED
    BY <1>1, <2>2
<1>6. \A n \in Ids : Done(n) => Done(n)'
  <2> SUFFICES ASSUME NEW n \in Ids, Done(n) PROVE Done(n)'
    OBVIOUS
  <2>1. n \in Nat /\ n <= cursor
    BY DEF Done, Ids
  <2> QED
    BY <1>1, <1>2, <1>3, <1>5, <2>1 DEF Done
<1>7. /\ batch'[w] = got
      /\ \A v \in Workers : v # w => batch'[v] = batch[v]
  BY <1>0 DEF StreamTypes
<1>8. BatchIsPending'
  <2> SUFFICES ASSUME NEW v \in Workers, NEW i \in 1..Len(batch'[v])
               PROVE  batch'[v][i] <= cursor' /\ pending'[batch'[v][i]] = v
    BY DEF BatchIsPending
  <2>1. CASE v = w
    <3>1. got = Unread
      BY <1>7, <2>1
    <3>2. i \in DOMAIN Unread /\ Unread[i] \in Ids /\ Unread[i] <= cursor'
      BY <1>2, <1>7, <2>1, <3>1
    <3> QED
      BY <1>1, <1>7, <2>1, <3>1, <3>2
  <2>2. CASE v # w
    <3>1. batch[v] \in Seq(Ids) /\ batch'[v] = batch[v]
      BY <1>7, <2>2 DEF StreamTypes
    <3>2. batch[v][i] \in Ids /\ batch[v][i] <= cursor /\ pending[batch[v][i]] = v
      BY <3>1 DEF BatchIsPending
    <3>3. batch[v][i] \in Nat
      BY <3>2 DEF Ids
    <3> QED
      BY <1>2, <1>3, <1>5, <3>1, <3>2, <3>3
  <2> QED
    BY <2>1, <2>2
<1>9. BatchIsDistinct'
  BY <1>2, <1>7 DEF BatchIsDistinct
<1>10. MarkedIsRecorded'
  BY <1>1, <1>7 DEF MarkedIsRecorded
<1>11. CollectedIsDone' /\ CollectedOnce' /\ ReturnedIsDone'
  BY <1>1, <1>6 DEF CollectedIsDone, CollectedOnce, ReturnedIsDone, StreamTypes
<1> QED
  BY <1>4, <1>8, <1>9, <1>10, <1>11

LEMMA MarkProcessedIInv ==
    ASSUME StreamIInv, NEW w \in Workers, MarkProcessed(w)
    PROVE  StreamIInv'
<1> USE DEF StreamIInv
<1>1. /\ batch[w] # <<>>
      /\ processed' = processed \cup {stream[Head(batch[w])]}
      /\ marked' = [marked EXCEPT ![w] = TRUE]
      /\ UNCHANGED <<stream, trimmed, cursor, pending, acked, publishing, batch, collected,
                     returned, crashes>>
  BY DEF MarkProcessed, WithKey, groupVars
<1>2. batch[w] \in Seq(Ids)
  BY DEF StreamTypes
<1>3. /\ Head(batch[w]) = batch[w][1] /\ Head(batch[w]) \in Ids
      /\ 1 \in 1..Len(batch[w])
  BY <1>1, <1>2, TailFacts
<1>4. Head(batch[w]) <= cursor
  BY <1>3 DEF BatchIsPending
<1>5. Head(batch[w]) \in 1..Len(stream) /\ stream \in Seq(Keys)
  BY <1>3, <1>4 DEF Ids, StreamTypes
<1>6. stream[Head(batch[w])] \in Keys
  BY <1>5
<1>7. StreamTypes'
  BY <1>1, <1>6 DEF StreamTypes
<1>8. BatchIsPending' /\ BatchIsDistinct'
  BY <1>1 DEF BatchIsPending, BatchIsDistinct
<1>9. MarkedIsRecorded'
  <2> SUFFICES ASSUME NEW v \in Workers, marked'[v]
               PROVE  batch[v] # <<>> /\ stream[Head(batch[v])] \in processed'
    BY <1>1 DEF MarkedIsRecorded
  <2>1. CASE v = w
    BY <1>1, <2>1
  <2>2. CASE v # w
    <3>1. marked'[v] = marked[v]
      BY <1>1, <2>2 DEF StreamTypes
    <3>2. marked[v]
      BY <3>1
    <3> QED
      BY <1>1, <3>2 DEF MarkedIsRecorded
  <2> QED
    BY <2>1, <2>2
<1>10. CollectedIsDone' /\ CollectedOnce' /\ ReturnedIsDone'
  BY <1>1 DEF CollectedIsDone, CollectedOnce, ReturnedIsDone, Done
<1> QED
  BY <1>7, <1>8, <1>9, <1>10

\* A worker is done with the first entry of its batch, acknowledged or skipped.
LEMMA BatchMovesOn ==
    ASSUME StreamIInv, NEW w \in Workers, batch[w] # <<>>,
           batch' = [batch EXCEPT ![w] = Tail(@)],
           marked' = [marked EXCEPT ![w] = FALSE],
           UNCHANGED <<stream, cursor>>, processed \subseteq processed',
           \A n \in Ids : n # Head(batch[w]) => pending'[n] = pending[n]
    PROVE  /\ batch' \in [Workers -> Seq(Ids)] /\ marked' \in [Workers -> BOOLEAN]
           /\ BatchIsPending' /\ BatchIsDistinct' /\ MarkedIsRecorded'
<1> USE DEF StreamIInv
<1>1. batch \in [Workers -> Seq(Ids)] /\ batch[w] \in Seq(Ids) /\ marked \in [Workers -> BOOLEAN]
  BY DEF StreamTypes
<1>2. /\ Tail(batch[w]) \in Seq(Ids) /\ Len(batch[w]) \in Nat \ {0}
      /\ Len(Tail(batch[w])) = Len(batch[w]) - 1
      /\ \A i \in 1..Len(Tail(batch[w])) :
             i + 1 \in 1..Len(batch[w]) /\ Tail(batch[w])[i] = batch[w][i + 1]
      /\ Head(batch[w]) = batch[w][1] /\ Head(batch[w]) \in Ids /\ 1 \in 1..Len(batch[w])
  BY <1>1, TailFacts
<1>3. batch'[w] = Tail(batch[w]) /\ \A v \in Workers : v # w => batch'[v] = batch[v]
  BY <1>1
<1>4. batch' \in [Workers -> Seq(Ids)] /\ marked' \in [Workers -> BOOLEAN]
  BY <1>1, <1>2
<1>5. pending[Head(batch[w])] = w
  BY <1>2 DEF BatchIsPending
<1>6. BatchIsPending'
  <2> SUFFICES ASSUME NEW v \in Workers, NEW i \in 1..Len(batch'[v])
               PROVE  batch'[v][i] <= cursor' /\ pending'[batch'[v][i]] = v
    BY DEF BatchIsPending
  <2>1. CASE v = w
    <3>1. i + 1 \in 1..Len(batch[w]) /\ batch'[w][i] = batch[w][i + 1] /\ i \in Nat /\ i # 0
      <4>1. i \in 1..Len(Tail(batch[w]))
        BY <1>3, <2>1
      <4>2. i \in Nat /\ i # 0
        BY <1>2, <4>1
      <4> QED
        BY <1>2, <1>3, <4>1, <4>2
    <3>2. batch[w][i + 1] \in Ids
      BY <1>1, <3>1
    <3>3. i + 1 # 1
      BY <3>1
    <3>4. batch[w][i + 1] # Head(batch[w])
      BY <1>2, <3>1, <3>3 DEF BatchIsDistinct
    <3>5. batch[w][i + 1] <= cursor /\ pending[batch[w][i + 1]] = w
      BY <3>1 DEF BatchIsPending
    <3> QED
      BY <2>1, <3>1, <3>2, <3>4, <3>5
  <2>2. CASE v # w
    <3>1. batch[v] \in Seq(Ids) /\ batch'[v] = batch[v]
      BY <1>1, <1>3, <2>2
    <3>2. batch[v][i] \in Ids /\ batch[v][i] <= cursor /\ pending[batch[v][i]] = v
      BY <3>1 DEF BatchIsPending
    <3>3. batch[v][i] # Head(batch[w])
      BY <1>5, <2>2, <3>2
    <3> QED
      BY <3>1, <3>2, <3>3
  <2> QED
    BY <2>1, <2>2
<1>7. BatchIsDistinct'
  <2> SUFFICES ASSUME NEW v \in Workers, NEW i \in 1..Len(batch'[v]), NEW j \in 1..Len(batch'[v]),
                      batch'[v][i] = batch'[v][j]
               PROVE  i = j
    BY DEF BatchIsDistinct
  <2>1. CASE v = w
    <3>1. /\ i + 1 \in 1..Len(batch[w]) /\ j + 1 \in 1..Len(batch[w])
          /\ batch[w][i + 1] = batch[w][j + 1]
      <4>1. i \in 1..Len(Tail(batch[w])) /\ j \in 1..Len(Tail(batch[w]))
        BY <1>3, <2>1
      <4> QED
        BY <1>2, <1>3, <2>1, <4>1
    <3>2. i + 1 = j + 1
      BY <3>1 DEF BatchIsDistinct
    <3>3. i \in Nat /\ j \in Nat
      BY <1>2, <1>3, <2>1
    <3> QED
      BY <3>2, <3>3
  <2>2. CASE v # w
    BY <1>3, <2>2 DEF BatchIsDistinct
  <2> QED
    BY <2>1, <2>2
<1>8. MarkedIsRecorded'
  <2> SUFFICES ASSUME NEW v \in Workers, marked'[v]
               PROVE  batch'[v] # <<>> /\ stream[Head(batch'[v])] \in processed'
    BY DEF MarkedIsRecorded
  <2>1. v # w
    BY <1>1
  <2>2. marked'[v] = marked[v] /\ batch'[v] = batch[v]
    BY <1>1, <1>3, <2>1
  <2>3. marked[v]
    BY <2>2
  <2> QED
    BY <2>2, <2>3 DEF MarkedIsRecorded
<1> QED
  BY <1>4, <1>6, <1>7, <1>8

LEMMA AcknowledgeIInv ==
    ASSUME StreamIInv, NEW w \in Workers, Acknowledge(w)
    PROVE  StreamIInv'
<1> USE DEF StreamIInv
<1>0. batch[w] # <<>> /\ batch[w] \in Seq(Ids)
  BY DEF Acknowledge, StreamTypes
<1>3. PICK n \in Ids : n = Head(batch[w]) /\ n = batch[w][1] /\ 1 \in 1..Len(batch[w])
  BY <1>0, TailFacts
<1>1. /\ batch[w] # <<>> /\ marked[w]
      /\ pending' = [pending EXCEPT ![n] = NoWorker]
      /\ acked' = acked \cup {n}
      /\ collected' = [collected EXCEPT ![w] = @ \cup {n}]
      /\ batch' = [batch EXCEPT ![w] = Tail(@)]
      /\ marked' = [marked EXCEPT ![w] = FALSE]
      /\ UNCHANGED <<stream, trimmed, cursor, processed, publishing, returned, crashes>>
  BY <1>3 DEF Acknowledge, Released, Gathered
<1>2. pending \in [Ids -> Workers \cup {NoWorker}]
  BY DEF StreamTypes
<1>4. n <= cursor /\ pending[n] = w
  BY <1>3 DEF BatchIsPending
<1>5. stream[n] \in processed
  BY <1>1, <1>3 DEF MarkedIsRecorded
<1>6. NoWorker \notin Workers
  BY StreamAssumption
<1>7. ~Done(n)
  BY <1>4, <1>6 DEF Done
<1>8. returned[n] = 0
  BY <1>7 DEF ReturnedIsDone
<1>9. Done(n)'
  BY <1>1, <1>2, <1>4, <1>5 DEF Done
<1>10. \A m \in Ids : Done(m) => Done(m)'
  BY <1>1, <1>2 DEF Done
<1>11. /\ batch' \in [Workers -> Seq(Ids)] /\ marked' \in [Workers -> BOOLEAN]
       /\ BatchIsPending' /\ BatchIsDistinct' /\ MarkedIsRecorded'
  <2>1. \A m \in Ids : m # n => pending'[m] = pending[m]
    BY <1>1, <1>2
  <2> QED
    BY <1>1, <1>3, <2>1, BatchMovesOn
<1>12. StreamTypes'
  <2>1. n \in 1..Len(stream)
    BY <1>4 DEF Ids, StreamTypes
  <2>2. acked' \subseteq 1..Len(stream')
    BY <1>1, <2>1 DEF StreamTypes
  <2>3. pending' \in [Ids -> Workers \cup {NoWorker}]
    BY <1>1, <1>2
  <2>4. collected' \in [Workers -> SUBSET Ids]
    BY <1>1 DEF StreamTypes
  <2> QED
    BY <1>1, <1>11, <2>2, <2>3, <2>4 DEF StreamTypes
<1>13. /\ collected'[w] = collected[w] \cup {n}
       /\ \A v \in Workers : v # w => collected'[v] = collected[v]
       /\ \A v \in Workers : collected[v] \subseteq Ids
  BY <1>1 DEF StreamTypes
<1>14. CollectedIsDone'
  BY <1>1, <1>8, <1>9, <1>10, <1>13 DEF CollectedIsDone
<1>15. CollectedOnce'
  <2>1. \A v \in Workers : n \notin collected[v]
    BY <1>7 DEF CollectedIsDone
  <2> QED
    BY <1>13, <2>1 DEF CollectedOnce
<1>16. ReturnedIsDone'
  BY <1>1, <1>10 DEF ReturnedIsDone
<1> QED
  BY <1>11, <1>12, <1>14, <1>15, <1>16

LEMMA SkipMessageIInv ==
    ASSUME StreamIInv, NEW w \in Workers, SkipMessage(w)
    PROVE  StreamIInv'
<1> USE DEF StreamIInv
<1>0. batch[w] # <<>> /\ batch[w] \in Seq(Ids)
  BY DEF SkipMessage, StreamTypes
<1>1. PICK n \in Ids : n = Head(batch[w]) /\ n = batch[w][1] /\ 1 \in 1..Len(batch[w])
  BY <1>0, TailFacts
<1>2. /\ batch' = [batch EXCEPT ![w] = Tail(@)]
      /\ marked' = [marked EXCEPT ![w] = FALSE]
      /\ UNCHANGED <<stream, trimmed, cursor, publishing, collected, returned, crashes>>
  BY DEF SkipMessage
<1>3. \/ processed' \in {processed, processed \cup {stream[n]}} /\ UNCHANGED <<pending, acked>>
      \/ /\ marked[w] /\ processed' = processed
         /\ pending' = [pending EXCEPT ![n] = NoWorker] /\ acked' = acked \cup {n}
  BY <1>1 DEF SkipMessage, Released, WithKey
<1>4. n <= cursor /\ n \in 1..Len(stream) /\ pending[n] = w
  <2>1. n <= cursor /\ pending[n] = w
    BY <1>1 DEF BatchIsPending
  <2> QED
    BY <2>1 DEF Ids, StreamTypes
<1>5. /\ processed \subseteq processed' /\ processed' \subseteq Keys
      /\ acked \subseteq acked' /\ acked' \subseteq 1..Len(stream)
      /\ pending' \in [Ids -> Workers \cup {NoWorker}]
      /\ \A m \in Ids : m # n => pending'[m] = pending[m]
  <2>1. stream[n] \in Keys
    BY <1>4 DEF StreamTypes
  <2> QED
    BY <1>3, <1>4, <2>1 DEF StreamTypes
<1>6. /\ batch' \in [Workers -> Seq(Ids)] /\ marked' \in [Workers -> BOOLEAN]
      /\ BatchIsPending' /\ BatchIsDistinct' /\ MarkedIsRecorded'
  BY <1>0, <1>1, <1>2, <1>5, BatchMovesOn
<1>7. StreamTypes'
  BY <1>2, <1>5, <1>6 DEF StreamTypes
<1>8. ASSUME NEW m \in Ids, Done(m) PROVE Done(m)'
  <2>1. m # n
    BY <1>4, <1>8, StreamAssumption DEF Done
  <2> QED
    BY <1>2, <1>5, <1>8, <2>1 DEF Done
<1>9. CollectedIsDone' /\ CollectedOnce' /\ ReturnedIsDone'
  BY <1>2, <1>8 DEF CollectedIsDone, CollectedOnce, ReturnedIsDone, StreamTypes
<1> QED
  BY <1>6, <1>7, <1>9

LEMMA ReturnIInv ==
    ASSUME StreamIInv, NEW w \in Workers, Return(w)
    PROVE  StreamIInv'
<1> USE DEF StreamIInv
<1>1. /\ returned' = [n \in Ids |-> returned[n] + IF n \in collected[w] THEN 1 ELSE 0]
      /\ collected' = [collected EXCEPT ![w] = {}]
      /\ UNCHANGED <<stream, trimmed, cursor, pending, acked, processed, publishing, batch,
                     marked, crashes>>
  BY DEF Return, HandedOver, groupVars
<1>2. \A n \in Ids : /\ n \in collected[w] => returned'[n] = 1
                     /\ n \notin collected[w] => returned'[n] = returned[n]
  <2> SUFFICES ASSUME NEW n \in Ids
               PROVE  /\ n \in collected[w] => returned'[n] = 1
                      /\ n \notin collected[w] => returned'[n] = returned[n]
    OBVIOUS
  <2>1. returned[n] \in 0..1 /\ (n \in collected[w] => returned[n] = 0)
    BY DEF StreamTypes, CollectedIsDone
  <2>2. CASE n \in collected[w]
    BY <1>1, <2>1, <2>2
  <2>3. CASE n \notin collected[w]
    BY <1>1, <2>1, <2>3
  <2> QED
    BY <2>2, <2>3
<1>3. returned' \in [Ids -> 0..1]
  <2>1. \A n \in Ids : returned'[n] \in 0..1
    BY <1>2 DEF StreamTypes
  <2> QED
    BY <1>1, <2>1
<1>4. collected' \in [Workers -> SUBSET Ids]
  BY <1>1 DEF StreamTypes
<1>5. StreamTypes'
  BY <1>1, <1>3, <1>4 DEF StreamTypes
<1>6. BatchIsPending' /\ BatchIsDistinct' /\ MarkedIsRecorded'
  BY <1>1 DEF BatchIsPending, BatchIsDistinct, MarkedIsRecorded
<1>7. /\ collected'[w] = {} /\ \A v \in Workers : v # w => collected'[v] = collected[v]
      /\ \A v \in Workers : collected[v] \subseteq Ids
  BY <1>1 DEF StreamTypes
<1>8. \A n \in Ids : Done(n)' <=> Done(n)
  BY <1>1 DEF Done
<1>9. CollectedOnce'
  BY <1>7 DEF CollectedOnce
<1>10. CollectedIsDone'
  <2> SUFFICES ASSUME NEW v \in Workers, NEW n \in collected'[v]
               PROVE  Done(n)' /\ returned'[n] = 0
    BY DEF CollectedIsDone
  <2>1. v # w /\ n \in collected[v] /\ n \in Ids
    BY <1>7
  <2>2. n \notin collected[w]
    BY <2>1 DEF CollectedOnce
  <2> QED
    BY <1>2, <1>8, <2>1, <2>2 DEF CollectedIsDone
<1>11. ReturnedIsDone'
  BY <1>2, <1>8 DEF CollectedIsDone, ReturnedIsDone
<1> QED
  BY <1>5, <1>6, <1>9, <1>10, <1>11

LEMMA CrashIInv ==
    ASSUME StreamIInv, NEW w \in Workers, Crash(w)
    PROVE  StreamIInv'
<1> USE DEF StreamIInv
<1>1. /\ publishing' = [publishing EXCEPT ![w] = NoKey]
      /\ batch' = [batch EXCEPT ![w] = <<>>]
      /\ marked' = [marked EXCEPT ![w] = FALSE]
      /\ collected' = [collected EXCEPT ![w] = {}]
      /\ crashes' = crashes + 1
      /\ UNCHANGED <<stream, trimmed, cursor, pending, acked, processed, returned>>
  BY DEF Crash, groupVars
<1>2. StreamTypes'
  <2>1. batch' \in [Workers -> Seq(Ids)] /\ collected' \in [Workers -> SUBSET Ids]
    BY <1>1 DEF StreamTypes
  <2>2. publishing' \in [Workers -> Keys \cup {NoKey}] /\ marked' \in [Workers -> BOOLEAN]
    BY <1>1 DEF StreamTypes
  <2> QED
    BY <1>1, <2>1, <2>2 DEF StreamTypes
<1>3. \A v \in Workers : /\ v = w => batch'[v] = <<>> /\ collected'[v] = {} /\ ~marked'[v]
                         /\ v # w => /\ batch'[v] = batch[v] /\ collected'[v] = collected[v]
                                     /\ marked'[v] = marked[v]
  BY <1>1 DEF StreamTypes
<1>4. BatchIsPending' /\ BatchIsDistinct'
  BY <1>1, <1>3 DEF BatchIsPending, BatchIsDistinct
<1>5. MarkedIsRecorded'
  <2> SUFFICES ASSUME NEW v \in Workers, marked'[v]
               PROVE  batch'[v] # <<>> /\ stream[Head(batch'[v])] \in processed
    BY <1>1 DEF MarkedIsRecorded
  <2>1. v # w
    BY <1>3
  <2>2. marked[v] /\ batch'[v] = batch[v]
    BY <1>3, <2>1
  <2> QED
    BY <2>2 DEF MarkedIsRecorded
<1>6. CollectedIsDone' /\ CollectedOnce' /\ ReturnedIsDone'
  BY <1>1, <1>3 DEF CollectedIsDone, CollectedOnce, ReturnedIsDone, Done
<1> QED
  BY <1>2, <1>4, <1>5, <1>6

LEMMA NextStreamIInv == StreamIInv /\ [Next]_vars => StreamIInv'
<1> SUFFICES ASSUME StreamIInv, [Next]_vars PROVE StreamIInv'
  OBVIOUS
<1>1. ASSUME NEW w \in Workers, (\E k \in Keys : CheckProcessed(w, k)) \/ XaddFails(w)
      PROVE  StreamIInv'
  BY <1>1, PublishingIInv
<1>2. ASSUME NEW w \in Workers, Xadd(w) PROVE StreamIInv'
  BY <1>2, XaddIInv
<1>3. ASSUME NEW w \in Workers, ReadGroup(w) \/ ReadGroupUnheard(w) PROVE StreamIInv'
  BY <1>3, ReadGroupIInv
<1>4. ASSUME NEW w \in Workers, MarkProcessed(w) PROVE StreamIInv'
  BY <1>4, MarkProcessedIInv
<1>5. ASSUME NEW w \in Workers, Acknowledge(w) PROVE StreamIInv'
  BY <1>5, AcknowledgeIInv
<1>6. ASSUME NEW w \in Workers, SkipMessage(w) PROVE StreamIInv'
  BY <1>6, SkipMessageIInv
<1>7. ASSUME NEW w \in Workers, Return(w) PROVE StreamIInv'
  BY <1>7, ReturnIInv
<1>8. ASSUME NEW w \in Workers, Crash(w) PROVE StreamIInv'
  BY <1>8, CrashIInv
<1>9. CASE UNCHANGED vars
  BY <1>9 DEF vars, groupVars, workerVars, StreamIInv, StreamTypes, BatchIsPending,
              BatchIsDistinct, MarkedIsRecorded, CollectedIsDone, CollectedOnce,
              ReturnedIsDone, Done
<1> QED
  BY <1>1, <1>2, <1>3, <1>4, <1>5, <1>6, <1>7, <1>8, <1>9 DEF Next

-----------------------------------------------------------------------------
\* The types of the stream, the group and the workers' memory.
THEOREM TypeCorrect == Spec => []TypeOK
<1>1. StreamIInv => TypeOK
  BY DEF StreamIInv, StreamTypes, TypeOK
<1> QED
  BY <1>1, InitStreamIInv, NextStreamIInv, PTL DEF Spec

\* The group gives an entry to one worker, and consume returns it at most once
\* (pipeline/bus.py, RedisStreamsBus.consume).
THEOREM HandedOnce == Spec => []EntryHandedOnce
<1>1. StreamIInv => EntryHandedOnce
  <2> SUFFICES ASSUME StreamIInv PROVE EntryHandedOnce
    OBVIOUS
  <2> USE DEF StreamIInv
  <2>1. \A n \in Ids : returned[n] <= 1
    BY DEF StreamTypes
  <2>2. NoWorker \notin Workers
    BY StreamAssumption
  <2>3. ASSUME NEW w \in Workers, NEW n \in Held(w)
        PROVE  n \in Ids /\ returned[n] = 0 /\ (pending[n] = w \/ n \in collected[w])
    <3>1. batch[w] \in Seq(Ids) /\ collected[w] \subseteq Ids
      BY DEF StreamTypes
    <3>2. CASE n \in collected[w]
      BY <3>1, <3>2 DEF CollectedIsDone
    <3>3. CASE n \notin collected[w]
      <4>1. PICK i \in 1..Len(batch[w]) : n = batch[w][i]
        BY <2>3, <3>1, <3>3 DEF Held
      <4>2. n \in Ids /\ pending[n] = w
        BY <3>1, <4>1 DEF BatchIsPending
      <4>3. ~Done(n)
        BY <2>2, <4>2 DEF Done
      <4> QED
        BY <4>2, <4>3 DEF ReturnedIsDone
    <3> QED
      BY <3>2, <3>3
  <2>4. ASSUME NEW v \in Workers, NEW w \in Workers, v # w,
               NEW n, n \in Held(v), n \in Held(w)
        PROVE  FALSE
    <3>1. pending[n] = v \/ n \in collected[v]
      BY <2>3, <2>4
    <3>2. pending[n] = w \/ n \in collected[w]
      BY <2>3, <2>4
    <3>3. \A u \in Workers : n \in collected[u] => pending[n] = NoWorker
      BY DEF CollectedIsDone, Done
    <3> QED
      BY <2>2, <2>4, <3>1, <3>2, <3>3 DEF CollectedOnce
  <2> QED
    BY <2>1, <2>3, <2>4 DEF EntryHandedOnce
<1> QED
  BY <1>1, InitStreamIInv, NextStreamIInv, PTL DEF Spec

\* What consume returns has been recorded and acknowledged before.
THEOREM ReturnedWasRecorded == Spec => []ReturnedIsRecorded
<1>1. StreamIInv => ReturnedIsRecorded
  <2> SUFFICES ASSUME StreamIInv, NEW n \in 1..Len(stream),
                      returned[n] > 0 \/ \E w \in Workers : n \in collected[w]
               PROVE  stream[n] \in processed /\ n \in acked /\ pending[n] = NoWorker
    BY DEF ReturnedIsRecorded
  <2>1. n \in Ids
    BY StreamAssumption DEF StreamIInv, StreamTypes, Ids
  <2>2. returned[n] \in 0..1
    BY <2>1 DEF StreamIInv, StreamTypes
  <2>3. Done(n)
    BY <2>1, <2>2 DEF StreamIInv, ReturnedIsDone, CollectedIsDone
  <2> QED
    BY <2>3 DEF Done
<1> QED
  BY <1>1, InitStreamIInv, NextStreamIInv, PTL DEF Spec
-----------------------------------------------------------------------------
(* What a worker holds.                                                    *)

\* What a worker holds changes only with its batch and what it has collected.
LEMMA HeldByOf ==
    ASSUME NEW w \in Workers, \A v \in Workers : v # w => Held(v)' = Held(v)
    PROVE  HeldBy' = [HeldBy EXCEPT ![w] = Held(w)']
  BY DEF HeldBy

LEMMA HeldStays ==
    ASSUME UNCHANGED <<batch, collected>>
    PROVE  HeldBy' = HeldBy
  BY DEF HeldBy, Held

LEMMA OthersStay ==
    ASSUME NEW w \in Workers, StreamTypes, NEW q, NEW S,
           batch' = [batch EXCEPT ![w] = q], collected' = [collected EXCEPT ![w] = S]
    PROVE  /\ \A v \in Workers : v # w => Held(v)' = Held(v)
           /\ batch'[w] = q /\ collected'[w] = S
<1>1. /\ batch'[w] = q /\ collected'[w] = S
      /\ \A v \in Workers : v # w => batch'[v] = batch[v] /\ collected'[v] = collected[v]
  BY DEF StreamTypes
<1> QED
  BY <1>1 DEF Held

\* The first entry of a batch, and the rest.
LEMMA SplitBatch ==
    ASSUME NEW q \in Seq(Ids), q # <<>>
    PROVE  {q[i] : i \in DOMAIN q} = {Tail(q)[i] : i \in DOMAIN Tail(q)} \cup {Head(q)}
<1>1. /\ Tail(q) \in Seq(Ids) /\ Len(q) \in Nat \ {0} /\ Len(Tail(q)) = Len(q) - 1
      /\ \A i \in 1..Len(Tail(q)) : i + 1 \in 1..Len(q) /\ Tail(q)[i] = q[i + 1]
      /\ Head(q) = q[1] /\ 1 \in 1..Len(q)
  BY TailFacts
<1>2. DOMAIN q = 1..Len(q) /\ DOMAIN Tail(q) = 1..Len(Tail(q))
  BY <1>1
<1>3. ASSUME NEW i \in 1..Len(q), i # 1
      PROVE  \E j \in 1..Len(Tail(q)) : q[i] = Tail(q)[j]
  <2>1. i - 1 \in 1..Len(Tail(q)) /\ (i - 1) + 1 = i
    BY <1>1, <1>3
  <2>2. Tail(q)[i - 1] = q[(i - 1) + 1]
    BY <1>1, <2>1
  <2> QED
    BY <2>1, <2>2
<1>4. \A n : n \in {q[i] : i \in 1..Len(q)}
             <=> n \in {Tail(q)[i] : i \in 1..Len(Tail(q))} \cup {q[1]}
  BY <1>1, <1>3
<1> QED
  BY <1>1, <1>2, <1>4

\* XACK moves the first entry of the batch to what is collected: the worker still has it.
LEMMA AcknowledgeHolds ==
    ASSUME StreamIInv, NEW w \in Workers, Acknowledge(w)
    PROVE  \A v \in Workers : Held(v)' = Held(v)
<1>1. /\ batch[w] # <<>> /\ batch' = [batch EXCEPT ![w] = Tail(batch[w])]
      /\ collected' = [collected EXCEPT ![w] = collected[w] \cup {Head(batch[w])}]
  BY DEF Acknowledge, Gathered
<1>2. StreamTypes /\ batch[w] \in Seq(Ids)
  BY DEF StreamIInv, StreamTypes
<1>3. /\ \A v \in Workers : v # w => Held(v)' = Held(v)
      /\ batch'[w] = Tail(batch[w]) /\ collected'[w] = collected[w] \cup {Head(batch[w])}
  BY <1>1, <1>2, OthersStay
<1>4. {batch[w][i] : i \in DOMAIN batch[w]}
        = {Tail(batch[w])[i] : i \in DOMAIN Tail(batch[w])} \cup {Head(batch[w])}
  BY <1>1, <1>2, SplitBatch
<1>5. Held(w)' = Held(w)
  BY <1>3, <1>4 DEF Held
<1> QED
  BY <1>3, <1>5

\* A skipped message leaves the worker's memory, and nothing else does.
LEMMA SkipHolds ==
    ASSUME StreamIInv, NEW w \in Workers, SkipMessage(w)
    PROVE  /\ \A v \in Workers : v # w => Held(v)' = Held(v)
           /\ Held(w)' \subseteq Held(w) /\ Held(w) \subseteq Held(w)' \cup {Head(batch[w])}
<1>1. batch[w] # <<>> /\ batch' = [batch EXCEPT ![w] = Tail(batch[w])] /\ collected' = collected
  BY DEF SkipMessage
<1>2. StreamTypes /\ batch[w] \in Seq(Ids)
  BY DEF StreamIInv, StreamTypes
<1>3. collected' = [collected EXCEPT ![w] = collected[w]]
  BY <1>1, <1>2 DEF StreamTypes
<1>4. /\ \A v \in Workers : v # w => Held(v)' = Held(v)
      /\ batch'[w] = Tail(batch[w]) /\ collected'[w] = collected[w]
  BY <1>1, <1>2, <1>3, OthersStay
<1>5. {batch[w][i] : i \in DOMAIN batch[w]}
        = {Tail(batch[w])[i] : i \in DOMAIN Tail(batch[w])} \cup {Head(batch[w])}
  BY <1>1, <1>2, SplitBatch
<1> QED
  BY <1>4, <1>5 DEF Held

\* A crash empties the memory of its worker only.
LEMMA CrashHolds ==
    ASSUME StreamIInv, NEW w \in Workers, Crash(w)
    PROVE  (\A v \in Workers : v # w => Held(v)' = Held(v)) /\ Held(w)' = {}
<1>1. batch' = [batch EXCEPT ![w] = <<>>] /\ collected' = [collected EXCEPT ![w] = {}]
  BY DEF Crash
<1>2. /\ \A v \in Workers : v # w => Held(v)' = Held(v)
      /\ batch'[w] = <<>> /\ collected'[w] = {}
  BY <1>1, OthersStay DEF StreamIInv
<1> QED
  BY <1>2 DEF Held

\* A worker's memory holds at most a batch.
LEMMA NextBatchIsBounded == StreamIInv /\ BatchIsBounded /\ [Next]_vars => BatchIsBounded'
<1> SUFFICES ASSUME StreamIInv, BatchIsBounded, [Next]_vars PROVE BatchIsBounded'
  OBVIOUS
<1> USE DEF StreamIInv
<1>1. ASSUME UNCHANGED <<batch, collected>> PROVE BatchIsBounded'
  BY <1>1 DEF BatchIsBounded
<1>2. ASSUME NEW w \in Workers, NEW q, NEW S, batch' = [batch EXCEPT ![w] = q],
             collected' = [collected EXCEPT ![w] = S], IsFiniteSet(S),
             Cardinality(S) + Len(q) <= BatchSize
      PROVE  BatchIsBounded'
  <2>1. \A v \in Workers : IF v = w THEN batch'[v] = q /\ collected'[v] = S
                           ELSE batch'[v] = batch[v] /\ collected'[v] = collected[v]
    BY <1>2 DEF StreamTypes
  <2> QED
    BY <1>2, <2>1 DEF BatchIsBounded
<1>3. \A w \in Workers : /\ collected = [collected EXCEPT ![w] = collected[w]]
                         /\ batch = [batch EXCEPT ![w] = batch[w]]
  BY DEF StreamTypes
<1>4. ASSUME NEW w \in Workers
      PROVE  /\ batch[w] \in Seq(Ids) /\ Len(batch[w]) \in Nat
             /\ IsFiniteSet(collected[w]) /\ Cardinality(collected[w]) \in Nat
             /\ Cardinality(collected[w]) + Len(batch[w]) <= BatchSize
             /\ BatchSize \in Nat
  <2>1. IsFiniteSet(collected[w])
    BY DEF BatchIsBounded
  <2>2. Cardinality(collected[w]) \in Nat
    BY <2>1, FS_CardinalityType
  <2> QED
    BY <2>1, <2>2, StreamAssumption DEF BatchIsBounded, StreamTypes
<1>5. IsFiniteSet({}) /\ Cardinality({}) = 0
  BY FS_EmptySet
<1>6. ASSUME NEW w \in Workers,
             \/ (\E k \in Keys : CheckProcessed(w, k)) \/ XaddFails(w)
             \/ Xadd(w) \/ MarkProcessed(w)
      PROVE  BatchIsBounded'
  BY <1>1, <1>6 DEF CheckProcessed, XaddFails, Xadd, MarkProcessed
<1>7. ASSUME NEW w \in Workers, ReadGroup(w) \/ ReadGroupUnheard(w) PROVE BatchIsBounded'
  <2>0. PICK got \in {Unread, <<>>} : batch' = [batch EXCEPT ![w] = got]
    BY <1>7, ReadBatch
  <2>1. Unread # <<>> /\ collected' = [collected EXCEPT ![w] = {}]
    BY <1>3, <1>7 DEF ReadGroup, ReadGroupUnheard, Idle, workerVars
  <2>2. Len(got) \in Nat /\ Len(got) <= BatchSize
    BY <2>1, UnreadFacts, StreamAssumption
  <2>3. Cardinality({}) + Len(got) <= BatchSize
    BY <1>5, <2>2
  <2> QED
    BY <1>2, <1>5, <2>0, <2>1, <2>3
<1>8. ASSUME NEW w \in Workers, Acknowledge(w) PROVE BatchIsBounded'
  <2>1. /\ batch[w] # <<>> /\ batch' = [batch EXCEPT ![w] = Tail(batch[w])]
        /\ collected' = [collected EXCEPT ![w] = collected[w] \cup {Head(batch[w])}]
    BY <1>8 DEF Acknowledge, Gathered
  <2>2. Len(Tail(batch[w])) = Len(batch[w]) - 1
    BY <1>4, <2>1, TailFacts
  <2>3. /\ IsFiniteSet(collected[w] \cup {Head(batch[w])})
        /\ Cardinality(collected[w] \cup {Head(batch[w])}) \in
               {Cardinality(collected[w]), Cardinality(collected[w]) + 1}
    BY <1>4, FS_AddElement
  <2>4. Cardinality(collected[w] \cup {Head(batch[w])}) + Len(Tail(batch[w])) <= BatchSize
    BY <1>4, <2>2, <2>3
  <2> QED
    BY <1>2, <2>1, <2>3, <2>4
<1>9. ASSUME NEW w \in Workers, SkipMessage(w) PROVE BatchIsBounded'
  <2>1. /\ batch[w] # <<>> /\ batch' = [batch EXCEPT ![w] = Tail(batch[w])]
        /\ collected' = [collected EXCEPT ![w] = collected[w]]
    BY <1>3, <1>9 DEF SkipMessage
  <2>2. Len(Tail(batch[w])) = Len(batch[w]) - 1
    BY <1>4, <2>1, TailFacts
  <2>3. Cardinality(collected[w]) + Len(Tail(batch[w])) <= BatchSize
    BY <1>4, <2>2
  <2> QED
    BY <1>2, <1>4, <2>1, <2>3
<1>10. ASSUME NEW w \in Workers, Return(w) PROVE BatchIsBounded'
  <2>1. /\ batch' = [batch EXCEPT ![w] = batch[w]]
        /\ collected' = [collected EXCEPT ![w] = {}]
    BY <1>3, <1>10 DEF Return, HandedOver
  <2>2. Cardinality({}) + Len(batch[w]) <= BatchSize
    BY <1>4, <1>5
  <2> QED
    BY <1>2, <1>5, <2>1, <2>2
<1>11. ASSUME NEW w \in Workers, Crash(w) PROVE BatchIsBounded'
  <2>1. /\ batch' = [batch EXCEPT ![w] = <<>>]
        /\ collected' = [collected EXCEPT ![w] = {}]
    BY <1>11 DEF Crash
  <2>2. Cardinality({}) + Len(<<>>) <= BatchSize
    BY <1>4, <1>5
  <2> QED
    BY <1>2, <1>5, <2>1, <2>2
<1>12. CASE UNCHANGED vars
  BY <1>1, <1>12 DEF vars, workerVars
<1> QED
  BY <1>6, <1>7, <1>8, <1>9, <1>10, <1>11, <1>12 DEF Next

-----------------------------------------------------------------------------
(* What crashes and failing calls cost.                                    *)

LEMMA PrefixIsFinite ==
    ASSUME NEW c \in Nat, NEW S, S \subseteq 1..c
    PROVE  IsFiniteSet(S) /\ Cardinality(S) \in Nat
<1>1. IsFiniteSet(1..c)
  BY FS_Interval
<1>2. IsFiniteSet(S)
  BY <1>1, FS_Subset
<1> QED
  BY <1>2, FS_CardinalityType

LEMMA GrowsByAtMost ==
    ASSUME NEW S, IsFiniteSet(S), NEW X, IsFiniteSet(X), NEW k \in Nat, Cardinality(X) <= k,
           NEW T, T \subseteq S \cup X
    PROVE  Cardinality(T) <= Cardinality(S) + k
<1>1. /\ IsFiniteSet(S \cup X)
      /\ Cardinality(S \cup X) = Cardinality(S) + Cardinality(X) - Cardinality(S \cap X)
      /\ IsFiniteSet(S \cap X)
  BY FS_Union, FS_Subset
<1>2. IsFiniteSet(T) /\ Cardinality(T) <= Cardinality(S \cup X)
  BY <1>1, FS_Subset
<1>3. {Cardinality(S), Cardinality(X), Cardinality(S \cap X), Cardinality(T)} \subseteq Nat
  BY <1>1, <1>2, FS_CardinalityType
<1> QED
  BY <1>1, <1>2, <1>3

\* The entries of a batch are no more than it is long.
LEMMA BatchEntries ==
    ASSUME NEW q \in Seq(Ids)
    PROVE  /\ IsFiniteSet({q[i] : i \in DOMAIN q})
           /\ Cardinality({q[i] : i \in DOMAIN q}) <= Len(q)
<1> DEFINE T == {q[i] : i \in 1..Len(q)}
<1>1. DOMAIN q = 1..Len(q) /\ Len(q) \in Nat
  OBVIOUS
<1>2. IsFiniteSet(1..Len(q)) /\ Cardinality(1..Len(q)) = Len(q)
  BY <1>1, FS_Interval
<1>3. q \in Surjection(1..Len(q), T)
  BY <1>1 DEF Surjection
<1>4. IsFiniteSet(T) /\ Cardinality(T) <= Cardinality(1..Len(q))
  BY <1>2, <1>3, FS_Surjection
<1> QED
  BY <1>1, <1>2, <1>4

\* While the group's cursor stays, only what leaves a worker's memory goes missing.
LEMMA MissingGrowsBy ==
    ASSUME StreamTypes, NEW X, cursor' = cursor, trimmed' \in Nat, trimmed <= trimmed',
           \A n \in 1..cursor : returned'[n] = 0 =>
               /\ returned[n] = 0
               /\ \A v \in Workers : n \in Held(v) => n \in Held(v)' \cup X
    PROVE  Missing' \subseteq Missing \cup X
<1> SUFFICES ASSUME NEW n \in Missing', n \notin X PROVE n \in Missing
  OBVIOUS
<1>1. /\ n \in 1..cursor /\ n > trimmed' /\ returned'[n] = 0
      /\ \A v \in Workers : n \notin Held(v)'
  BY DEF Missing
<1>2. n > trimmed
  BY <1>1 DEF StreamTypes
<1> QED
  BY <1>1, <1>2 DEF Missing

\* No step but a fault loses an entry: one that leaves a worker's memory is returned.
LEMMA OnlyFaultsLose ==
    ASSUME StreamIInv, NEW w \in Workers,
           \/ (\E k \in Keys : CheckProcessed(w, k)) \/ XaddFails(w)
           \/ Xadd(w) \/ MarkProcessed(w) \/ Acknowledge(w) \/ Return(w)
    PROVE  Missing' \subseteq Missing /\ Forgotten' \subseteq Forgotten
<1> USE DEF StreamIInv
<1>1. ASSUME Missing' \subseteq Missing \cup {}, \A n \in Missing' : pending'[n] = pending[n]
      PROVE  Missing' \subseteq Missing /\ Forgotten' \subseteq Forgotten
  BY <1>1 DEF Forgotten
<1>2. CASE \/ (\E k \in Keys : CheckProcessed(w, k)) \/ XaddFails(w)
           \/ MarkProcessed(w) \/ Xadd(w)
  <2>1. /\ UNCHANGED <<cursor, pending, returned, batch, collected>>
        /\ trimmed' \in trimmed..Len(stream) \/ trimmed' = trimmed
    BY <1>2 DEF CheckProcessed, XaddFails, MarkProcessed, Xadd, TrimmedTo, groupVars
  <2>2. trimmed' \in Nat /\ trimmed <= trimmed'
    BY <2>1 DEF StreamTypes
  <2>3. \A v \in Workers : Held(v)' = Held(v)
    BY <2>1 DEF Held
  <2>4. Missing' \subseteq Missing \cup {}
    BY <2>1, <2>2, <2>3, MissingGrowsBy
  <2> QED
    BY <1>1, <2>1, <2>4
<1>3. CASE Acknowledge(w)
  <2>1. batch[w] # <<>> /\ batch[w] \in Seq(Ids) /\ UNCHANGED <<trimmed, cursor, returned>>
    BY <1>3 DEF Acknowledge, StreamTypes
  <2>2. PICK m \in Ids : m = Head(batch[w]) /\ m = batch[w][1] /\ 1 \in DOMAIN batch[w]
    BY <2>1, TailFacts
  <2>3. m \in Held(w) /\ pending' = [pending EXCEPT ![m] = NoWorker]
    BY <1>3, <2>2 DEF Acknowledge, Released, Held
  <2>4. \A v \in Workers : Held(v)' = Held(v)
    BY <1>3, AcknowledgeHolds
  <2>5. Missing' \subseteq Missing \cup {}
    BY <2>1, <2>4, MissingGrowsBy DEF StreamTypes
  <2>6. \A n \in Missing' : n # m
    BY <2>3, <2>4 DEF Missing
  <2> QED
    BY <1>1, <2>3, <2>5, <2>6
<1>4. CASE Return(w)
  <2>1. /\ returned' = [n \in Ids |-> returned[n] + IF n \in collected[w] THEN 1 ELSE 0]
        /\ collected' = [collected EXCEPT ![w] = {}] /\ batch[w] = <<>>
        /\ UNCHANGED <<trimmed, cursor, pending, batch>>
    BY <1>4 DEF Return, HandedOver, groupVars
  <2>2. 1..cursor \subseteq Ids
    BY StreamAssumption DEF Ids, StreamTypes
  <2>3. ASSUME NEW n \in 1..cursor, returned'[n] = 0
        PROVE  returned[n] = 0 /\ n \notin collected[w]
    <3>1. returned[n] \in 0..1 /\ returned'[n] = returned[n] + IF n \in collected[w] THEN 1 ELSE 0
      BY <2>1, <2>2 DEF StreamTypes
    <3> QED
      BY <2>3, <3>1
  <2>4. Held(w) = collected[w] /\ \A v \in Workers : v # w => Held(v)' = Held(v)
    <3>1. \A v \in Workers : v # w => collected'[v] = collected[v]
      BY <2>1 DEF StreamTypes
    <3> QED
      BY <2>1, <3>1 DEF Held
  <2>5. Missing' \subseteq Missing \cup {}
    <3>1. \A n \in 1..cursor : returned'[n] = 0 =>
              returned[n] = 0 /\ \A v \in Workers : n \in Held(v) => n \in Held(v)' \cup {}
      BY <2>3, <2>4
    <3>2. cursor' = cursor /\ trimmed' \in Nat /\ trimmed <= trimmed'
      BY <2>1 DEF StreamTypes
    <3> QED
      BY <3>1, <3>2, MissingGrowsBy
  <2> QED
    BY <1>1, <2>1, <2>5
<1> QED
  BY <1>2, <1>3, <1>4

\* XREADGROUP forgets nothing, and loses what it gives only with its answer.
LEMMA ReadGroupLosses ==
    ASSUME StreamIInv, NEW w \in Workers, ReadGroup(w) \/ ReadGroupUnheard(w)
    PROVE  /\ Forgotten' \subseteq Forgotten
           /\ Missing' \subseteq Missing \cup {Unread[i] : i \in DOMAIN Unread}
           /\ ReadGroup(w) => Missing' \subseteq Missing
<1> USE DEF StreamIInv
<1>1. /\ Unread # <<>> /\ cursor' = NextCursor(Unread) /\ batch[w] = <<>> /\ collected[w] = {}
      /\ pending' = [n \in Ids |-> IF \E i \in DOMAIN Unread : Unread[i] = n THEN w
                                   ELSE pending[n]]
      /\ UNCHANGED <<stream, trimmed, collected, returned>>
  BY DEF ReadGroup, ReadGroupUnheard, GivenTo, Idle, workerVars
<1>2. /\ DOMAIN Unread = 1..Len(Unread) /\ cursor' \in 1..Len(stream)
      /\ \A n \in 1..cursor' : n > cursor /\ n > trimmed =>
             \E i \in 1..Len(Unread) : Unread[i] = n
  BY <1>1, UnreadFacts
<1>3. PICK got \in {Unread, <<>>} : batch' = [batch EXCEPT ![w] = got]
  BY ReadBatch
<1>4. batch'[w] = got /\ \A v \in Workers : v # w => batch'[v] = batch[v]
  BY <1>3 DEF StreamTypes
<1>5. Held(w) = {} /\ \A v \in Workers : v # w => Held(v)' = Held(v)
  BY <1>1, <1>4 DEF Held
<1>6. ASSUME NEW n \in Missing', ~\E i \in DOMAIN Unread : Unread[i] = n
      PROVE  n \in Missing /\ pending'[n] = pending[n]
  <2>1. n \in 1..cursor' /\ n > trimmed /\ n \in Ids /\ returned[n] = 0
    BY <1>1, <1>2, StreamAssumption DEF Missing, Ids, StreamTypes
  <2>2. n \in 1..cursor
    <3>1. ~(n > cursor)
      BY <1>2, <1>6, <2>1
    <3>2. cursor \in Nat /\ n \in Nat /\ n >= 1
      BY <1>2, <2>1 DEF StreamTypes
    <3> QED
      BY <3>1, <3>2
  <2>3. \A v \in Workers : n \notin Held(v)
    BY <1>5 DEF Missing
  <2> QED
    BY <1>1, <1>6, <2>1, <2>2, <2>3 DEF Missing
<1>7. Forgotten' \subseteq Forgotten
  <2> SUFFICES ASSUME NEW n \in Missing', pending'[n] = NoWorker PROVE n \in Forgotten
    BY DEF Forgotten
  <2>1. n \in Ids
    BY <1>1, <1>2, StreamAssumption DEF Missing, Ids, StreamTypes
  <2>2. ~\E i \in DOMAIN Unread : Unread[i] = n
    BY <1>1, <2>1, StreamAssumption
  <2> QED
    BY <1>6, <2>2 DEF Forgotten
<1>8. Missing' \subseteq Missing \cup {Unread[i] : i \in DOMAIN Unread}
  BY <1>6
<1>9. ASSUME ReadGroup(w) PROVE Missing' \subseteq Missing
  <2>1. batch'[w] = Unread
    BY <1>9 DEF ReadGroup, StreamTypes
  <2>2. \A i \in DOMAIN Unread : Unread[i] \in Held(w)'
    BY <2>1 DEF Held
  <2>3. \A n \in Missing' : ~\E i \in DOMAIN Unread : Unread[i] = n
    BY <2>2 DEF Missing
  <2> QED
    BY <1>6, <2>3
<1> QED
  BY <1>7, <1>8, <1>9

LEMMA SkipMessageLosses ==
    ASSUME StreamIInv, NEW w \in Workers, SkipMessage(w)
    PROVE  \E n : Missing' \subseteq Missing \cup {n} /\ Forgotten' \subseteq Forgotten \cup {n}
<1> USE DEF StreamIInv
<1>1. /\ batch[w] # <<>> /\ UNCHANGED <<trimmed, cursor, returned>>
      /\ pending' \in {pending, [pending EXCEPT ![Head(batch[w])] = NoWorker]}
  BY DEF SkipMessage, Released
<1>2. PICK n : n = Head(batch[w])
  OBVIOUS
<1>3. \A v \in Workers : Held(v) \subseteq Held(v)' \cup {n}
  BY <1>2, SkipHolds
<1>4. Missing' \subseteq Missing \cup {n}
  <2>1. cursor' = cursor /\ trimmed' \in Nat /\ trimmed <= trimmed'
    BY <1>1 DEF StreamTypes
  <2>2. \A m \in 1..cursor : returned'[m] = 0 =>
            returned[m] = 0 /\ \A v \in Workers : m \in Held(v) => m \in Held(v)' \cup {n}
    BY <1>1, <1>3
  <2> QED
    BY <2>1, <2>2, MissingGrowsBy
<1>5. \A m \in Ids : m # n => pending'[m] = pending[m]
  BY <1>1, <1>2 DEF StreamTypes
<1>6. Forgotten' \subseteq Forgotten \cup {n}
  <2>1. Missing' \subseteq Ids
    BY <1>1, StreamAssumption DEF Missing, Ids, StreamTypes
  <2> QED
    BY <1>4, <1>5, <2>1 DEF Forgotten
<1> QED
  BY <1>4, <1>6

\* A crash costs what its worker held, and the pending list has its batch.
LEMMA CrashLosses ==
    ASSUME StreamIInv, NEW w \in Workers, Crash(w)
    PROVE  Missing' \subseteq Missing \cup Held(w) /\ Forgotten' \subseteq Forgotten \cup collected[w]
<1> USE DEF StreamIInv
<1>1. UNCHANGED <<trimmed, cursor, pending, returned>> /\ batch[w] \in Seq(Ids)
  BY DEF Crash, groupVars, StreamTypes
<1>2. \A v \in Workers : Held(v) \subseteq Held(v)' \cup Held(w)
  BY CrashHolds
<1>3. Missing' \subseteq Missing \cup Held(w)
  BY <1>1, <1>2, MissingGrowsBy DEF StreamTypes
<1>4. \A n \in Held(w) : pending[n] = NoWorker => n \in collected[w]
  <2>1. \A i \in DOMAIN batch[w] : pending[batch[w][i]] = w
    BY <1>1 DEF BatchIsPending
  <2> QED
    BY <2>1, StreamAssumption DEF Held
<1>5. Forgotten' \subseteq Forgotten \cup collected[w]
  BY <1>1, <1>3, <1>4 DEF Forgotten
<1> QED
  BY <1>3, <1>5

\* What a worker holds is a batch at most.
LEMMA HeldIsABatch ==
    ASSUME StreamIInv, BatchIsBounded, NEW w \in Workers
    PROVE  /\ IsFiniteSet(Held(w)) /\ Cardinality(Held(w)) <= BatchSize
           /\ IsFiniteSet(collected[w]) /\ Cardinality(collected[w]) <= BatchSize
<1> DEFINE B == {batch[w][i] : i \in DOMAIN batch[w]}
<1>1. /\ batch[w] \in Seq(Ids) /\ Len(batch[w]) \in Nat /\ BatchSize \in Nat
      /\ IsFiniteSet(collected[w]) /\ Cardinality(collected[w]) + Len(batch[w]) <= BatchSize
  BY StreamAssumption DEF StreamIInv, StreamTypes, BatchIsBounded
<1>2. IsFiniteSet(B) /\ Cardinality(B) <= Len(batch[w])
  BY <1>1, BatchEntries
<1> HIDE DEF B
<1>3. Cardinality(collected[w] \cup B) <= Cardinality(collected[w]) + Len(batch[w])
  BY <1>1, <1>2, GrowsByAtMost
<1>4. Held(w) = collected[w] \cup B
  BY DEF Held, B
<1>5. IsFiniteSet(Held(w))
  BY <1>1, <1>2, <1>4, FS_Union
<1>6. Cardinality(collected[w]) \in Nat /\ Cardinality(Held(w)) \in Nat
  BY <1>1, <1>5, FS_CardinalityType
<1> QED
  BY <1>1, <1>3, <1>4, <1>5, <1>6

\* The two bounds, and how many faults pay for them.
LEMMA BoundsGrow ==
    ASSUME NEW m \in Nat, NEW n \in Nat, NEW c \in Nat, NEW f \in Nat, NEW B \in Nat \ {0},
           m <= B * (c + f), n <= B * c + f
    PROVE  /\ m + B <= B * ((c + 1) + f) /\ n + B <= B * (c + 1) + f
           /\ m + B <= B * (c + (f + 1)) /\ n + 1 <= B * c + (f + 1)
<1>1. /\ B * (c + f) \in Nat /\ B * c \in Nat
      /\ B * ((c + f) + 1) = B * (c + f) + B /\ B * (c + 1) = B * c + B
  OBVIOUS
<1>2. (c + 1) + f = (c + f) + 1 /\ c + (f + 1) = (c + f) + 1
  OBVIOUS
<1> QED
  BY <1>1, <1>2

LEMMA NextLossIInv == LossIInv /\ [Next]_vars => LossIInv'
<1> SUFFICES ASSUME LossIInv, [Next]_vars PROVE LossIInv'
  OBVIOUS
<1> USE DEF LossIInv
<1> DEFINE Bounded(m, n) == m <= BatchSize * (crashes' + failures') /\ n <= BatchSize * crashes' + failures'
<1>1. StreamIInv' /\ BatchIsBounded'
  BY NextStreamIInv, NextBatchIsBounded
<1>2. /\ IsFiniteSet(Missing) /\ Cardinality(Missing) \in Nat
      /\ IsFiniteSet(Forgotten) /\ Cardinality(Forgotten) \in Nat
      /\ IsFiniteSet(Missing') /\ Cardinality(Missing') \in Nat
      /\ IsFiniteSet(Forgotten') /\ Cardinality(Forgotten') \in Nat
  <2>1. cursor \in Nat /\ Missing \subseteq 1..cursor /\ Forgotten \subseteq 1..cursor
    BY DEF StreamIInv, StreamTypes, Missing, Forgotten
  <2>2. cursor' \in Nat /\ Missing' \subseteq 1..cursor' /\ Forgotten' \subseteq 1..cursor'
    BY <1>1 DEF StreamIInv, StreamTypes, Missing, Forgotten
  <2> QED
    BY <2>1, <2>2, PrefixIsFinite
<1>3. /\ Cardinality(Missing) <= BatchSize * (crashes + failures)
      /\ Cardinality(Forgotten) <= BatchSize * crashes + failures
  BY DEF LossesAreBounded
<1>4. BatchSize \in Nat \ {0} /\ crashes \in Nat /\ failures \in Nat
  BY StreamAssumption DEF StreamIInv, StreamTypes
<1>5. /\ Cardinality(Missing) + BatchSize <= BatchSize * ((crashes + 1) + failures)
      /\ Cardinality(Forgotten) + BatchSize <= BatchSize * (crashes + 1) + failures
      /\ Cardinality(Missing) + BatchSize <= BatchSize * (crashes + (failures + 1))
      /\ Cardinality(Forgotten) + 1 <= BatchSize * crashes + (failures + 1)
  BY <1>2, <1>3, <1>4, BoundsGrow
<1>6. \/ crashes' = crashes /\ failures' \in {failures, failures + 1}
      \/ crashes' = crashes + 1 /\ failures' = failures
  <2>1. ASSUME NEW w \in Workers,
               \/ (\E k \in Keys : CheckProcessed(w, k)) \/ XaddFails(w) \/ Xadd(w)
               \/ ReadGroup(w) \/ ReadGroupUnheard(w) \/ MarkProcessed(w) \/ Acknowledge(w)
               \/ SkipMessage(w) \/ Return(w)
        PROVE  crashes' = crashes /\ failures' \in {failures, failures + 1}
    BY <2>1 DEF CheckProcessed, XaddFails, Xadd, ReadGroup, ReadGroupUnheard, MarkProcessed,
                Acknowledge, SkipMessage, Return, CallFails
  <2>2. ASSUME NEW w \in Workers, Crash(w) PROVE crashes' = crashes + 1 /\ failures' = failures
    BY <2>2 DEF Crash
  <2>3. CASE UNCHANGED vars
    BY <2>3 DEF vars
  <2> QED
    BY <2>1, <2>2, <2>3 DEF Next
<1>7. failures' \in Nat
  BY <1>4, <1>6
<1>8. ASSUME Missing' \subseteq Missing, Forgotten' \subseteq Forgotten PROVE LossesAreBounded'
  <2>1. /\ Cardinality(Missing') <= Cardinality(Missing)
        /\ Cardinality(Forgotten') <= Cardinality(Forgotten)
    BY <1>2, <1>8, FS_Subset
  <2>2. CASE crashes' = crashes /\ failures' = failures
    <3>1. BatchSize * (crashes + failures) \in Nat /\ BatchSize * crashes + failures \in Nat
      BY <1>4
    <3>2. /\ Cardinality(Missing') <= BatchSize * (crashes + failures)
          /\ Cardinality(Forgotten') <= BatchSize * crashes + failures
      BY <1>2, <1>3, <2>1, <3>1
    <3> QED
      BY <2>2, <3>2 DEF LossesAreBounded
  <2>3. CASE crashes' = crashes /\ failures' = failures + 1
    <3>1. /\ Cardinality(Missing') <= BatchSize * (crashes + (failures + 1))
          /\ Cardinality(Forgotten') <= BatchSize * crashes + (failures + 1)
      <4>1. /\ BatchSize * (crashes + (failures + 1)) \in Nat
            /\ BatchSize * crashes + (failures + 1) \in Nat
        BY <1>4
      <4> QED
        BY <1>2, <1>4, <1>5, <2>1, <4>1
    <3> QED
      BY <2>3, <3>1 DEF LossesAreBounded
  <2>4. CASE crashes' = crashes + 1 /\ failures' = failures
    <3>1. /\ Cardinality(Missing') <= BatchSize * ((crashes + 1) + failures)
          /\ Cardinality(Forgotten') <= BatchSize * (crashes + 1) + failures
      <4>1. /\ BatchSize * ((crashes + 1) + failures) \in Nat
            /\ BatchSize * (crashes + 1) + failures \in Nat
        BY <1>4
      <4> QED
        BY <1>2, <1>4, <1>5, <2>1, <4>1
    <3> QED
      BY <2>4, <3>1 DEF LossesAreBounded
  <2> QED
    BY <1>6, <2>2, <2>3, <2>4
<1>9. ASSUME NEW w \in Workers,
             \/ (\E k \in Keys : CheckProcessed(w, k)) \/ XaddFails(w) \/ Xadd(w)
             \/ MarkProcessed(w) \/ Acknowledge(w) \/ Return(w)
      PROVE  LossesAreBounded'
  BY <1>8, <1>9, OnlyFaultsLose
<1>10. ASSUME NEW w \in Workers, ReadGroup(w) PROVE LossesAreBounded'
  BY <1>8, <1>10, ReadGroupLosses
<1>11. ASSUME NEW w \in Workers, ReadGroupUnheard(w) PROVE LossesAreBounded'
  <2>1. crashes' = crashes /\ failures' = failures + 1 /\ Unread # <<>>
    BY <1>11 DEF ReadGroupUnheard, CallFails
  <2>2. /\ IsFiniteSet({Unread[i] : i \in DOMAIN Unread})
        /\ Cardinality({Unread[i] : i \in DOMAIN Unread}) <= BatchSize
    <3>1. Unread \in Seq(Ids) /\ Len(Unread) \in Nat /\ Len(Unread) <= BatchSize
      BY <2>1, UnreadFacts DEF StreamIInv
    <3>2. /\ IsFiniteSet({Unread[i] : i \in DOMAIN Unread})
          /\ Cardinality({Unread[i] : i \in DOMAIN Unread}) <= Len(Unread)
      BY <3>1, BatchEntries
    <3>3. Cardinality({Unread[i] : i \in DOMAIN Unread}) \in Nat
      BY <3>2, FS_CardinalityType
    <3> QED
      BY <1>4, <3>1, <3>2, <3>3
  <2>3. Cardinality(Missing') <= Cardinality(Missing) + BatchSize
    BY <1>2, <1>4, <1>11, <2>2, ReadGroupLosses, GrowsByAtMost
  <2>4. Cardinality(Forgotten') <= Cardinality(Forgotten)
    BY <1>2, <1>11, ReadGroupLosses, FS_Subset
  <2>5. /\ BatchSize * (crashes + (failures + 1)) \in Nat
        /\ BatchSize * crashes + (failures + 1) \in Nat
    BY <1>4
  <2>6. /\ Cardinality(Missing') <= BatchSize * (crashes + (failures + 1))
        /\ Cardinality(Forgotten') <= BatchSize * crashes + (failures + 1)
    BY <1>2, <1>4, <1>5, <2>3, <2>4, <2>5
  <2> QED
    BY <2>1, <2>6 DEF LossesAreBounded
<1>12. ASSUME NEW w \in Workers, SkipMessage(w) PROVE LossesAreBounded'
  <2>1. crashes' = crashes /\ failures' = failures + 1
    BY <1>12 DEF SkipMessage, CallFails
  <2>2. PICK n : Missing' \subseteq Missing \cup {n} /\ Forgotten' \subseteq Forgotten \cup {n}
    BY <1>12, SkipMessageLosses
  <2>3. IsFiniteSet({n}) /\ Cardinality({n}) <= 1
    <3>1. IsFiniteSet({n}) /\ Cardinality({n}) = 1
      BY FS_Singleton
    <3> QED
      BY <3>1
  <2>4. /\ Cardinality(Missing') <= Cardinality(Missing) + 1
        /\ Cardinality(Forgotten') <= Cardinality(Forgotten) + 1
    BY <1>2, <2>2, <2>3, GrowsByAtMost
  <2>5. /\ BatchSize * (crashes + (failures + 1)) \in Nat
        /\ BatchSize * crashes + (failures + 1) \in Nat
    BY <1>4
  <2>6. /\ Cardinality(Missing') <= BatchSize * (crashes + (failures + 1))
        /\ Cardinality(Forgotten') <= BatchSize * crashes + (failures + 1)
    BY <1>2, <1>4, <1>5, <2>4, <2>5
  <2> QED
    BY <2>1, <2>6 DEF LossesAreBounded
<1>13. ASSUME NEW w \in Workers, Crash(w) PROVE LossesAreBounded'
  <2>1. crashes' = crashes + 1 /\ failures' = failures
    BY <1>13 DEF Crash
  <2>2. /\ IsFiniteSet(Held(w)) /\ Cardinality(Held(w)) <= BatchSize
        /\ IsFiniteSet(collected[w]) /\ Cardinality(collected[w]) <= BatchSize
    BY HeldIsABatch
  <2>3. /\ Cardinality(Missing') <= Cardinality(Missing) + BatchSize
        /\ Cardinality(Forgotten') <= Cardinality(Forgotten) + BatchSize
    BY <1>2, <1>4, <1>13, <2>2, CrashLosses, GrowsByAtMost
  <2>4. /\ BatchSize * ((crashes + 1) + failures) \in Nat
        /\ BatchSize * (crashes + 1) + failures \in Nat
    BY <1>4
  <2>5. /\ Cardinality(Missing') <= BatchSize * ((crashes + 1) + failures)
        /\ Cardinality(Forgotten') <= BatchSize * (crashes + 1) + failures
    BY <1>2, <1>4, <1>5, <2>3, <2>4
  <2> QED
    BY <2>1, <2>5 DEF LossesAreBounded
<1>14. ASSUME UNCHANGED vars PROVE LossesAreBounded'
  <2>1. \A v \in Workers : Held(v)' = Held(v)
    BY <1>14 DEF vars, workerVars, Held
  <2>2. Missing' = Missing /\ pending' = pending
    BY <1>14, <2>1 DEF vars, groupVars, Missing
  <2>3. Forgotten' = Forgotten
    BY <2>2 DEF Forgotten
  <2> QED
    BY <1>8, <2>2, <2>3
<1>15. LossesAreBounded'
  BY <1>9, <1>10, <1>11, <1>12, <1>13, <1>14 DEF Next
<1> QED
  BY <1>1, <1>7, <1>15

LEMMA InitLossIInv == Init => LossIInv
<1> SUFFICES ASSUME Init PROVE LossIInv
  OBVIOUS
<1>1. StreamIInv
  BY InitStreamIInv
<1>2. IsFiniteSet({}) /\ Cardinality({}) = 0
  BY FS_EmptySet
<1>3. BatchIsBounded
  BY <1>2, StreamAssumption DEF Init, BatchIsBounded
<1>4. Missing = {} /\ Forgotten = {}
  BY DEF Init, Missing, Forgotten
<1>5. LossesAreBounded
  BY <1>2, <1>4, StreamAssumption DEF Init, LossesAreBounded
<1> QED
  BY <1>1, <1>3, <1>5 DEF Init, LossIInv

\* Acknowledging before the message is processed, and never reading a pending list, costs
\* one batch for each crash or failing call, and no trimming or second worker adds to it;
\* beyond what a crash had collected, the group forgets one message for each lost answer.
THEOREM FaultsCostBatches == Spec => []LossesAreBounded
<1>1. LossIInv => LossesAreBounded
  BY DEF LossIInv
<1> QED
  BY <1>1, InitLossIInv, NextLossIInv, PTL DEF Spec

-----------------------------------------------------------------------------
(* RedisStreamsBus implements WorkQueue.                                   *)

\* A worker that ends up with less has lost the rest.
LEMMA LosesSome ==
    ASSUME NEW w \in Workers, \A v \in Workers : v # w => Held(v)' = Held(v),
           Held(w)' \subseteq Held(w),
           Awaited' = Awaited, Delivered' = Delivered, Len(stream)' = Len(stream)
    PROVE  Queue!Next
<1>1. PICK kept : kept = Held(w)'
  OBVIOUS
<1>2. HeldBy' = [HeldBy EXCEPT ![w] = kept]
  BY <1>1, HeldByOf
<1>3. HeldBy[w] = Held(w)
  BY DEF HeldBy
<1>4. Queue!Lose(w, kept) /\ kept \in SUBSET HeldBy[w]
  BY <1>1, <1>2, <1>3 DEF Queue!Lose
<1> QED
  BY <1>4 DEF Queue!Next

\* Publishing: the entry added is the newest; what the cap trims is MaxLen behind it.
LEMMA XaddAdds ==
    ASSUME StreamIInv, NEW w \in Workers, Xadd(w)
    PROVE  Queue!Next
<1>1. /\ publishing[w] # NoKey /\ stream' = Append(stream, publishing[w])
      /\ trimmed' \in trimmed..Len(stream)
      /\ trimmed' = trimmed \/ trimmed' <= Len(stream) + 1 - MaxLen
      /\ UNCHANGED <<cursor, batch, collected, returned>>
  BY DEF Xadd, TrimmedTo, groupVars
<1>2. /\ publishing[w] \in Keys /\ stream \in Seq(Keys) /\ Len(stream) \in Nat
      /\ trimmed \in 0..Len(stream) /\ cursor \in 0..Len(stream) /\ MaxLen \in Nat \ {0}
  BY <1>1, StreamAssumption DEF StreamIInv, StreamTypes
<1>3. Len(stream') = Len(stream) + 1
  BY <1>1, <1>2
<1> DEFINE lost == {n \in Awaited : n <= trimmed'}
<1>4. Awaited' = (Awaited \ lost) \cup {Len(stream')}
  <2>1. Awaited' = {n \in 1..(Len(stream) + 1) : n > cursor /\ n > trimmed'}
    BY <1>1, <1>3 DEF Awaited
  <2>2. ASSUME NEW n
        PROVE  n \in {m \in 1..(Len(stream) + 1) : m > cursor /\ m > trimmed'}
                 <=> n \in (Awaited \ lost) \cup {Len(stream) + 1}
    BY <1>1, <1>2 DEF Awaited
  <2> QED
    BY <1>3, <2>1, <2>2
<1>5. \A n \in lost : n + MaxLen <= Len(stream')
  BY <1>1, <1>2, <1>3 DEF Awaited
<1>6. HeldBy' = HeldBy /\ Delivered' = Delivered
  BY <1>1, HeldStays DEF Delivered
<1>7. lost \in SUBSET Awaited
  OBVIOUS
<1>8. Queue!Add(lost)
  BY <1>3, <1>4, <1>5, <1>6 DEF Queue!Add
<1> QED
  BY <1>7, <1>8 DEF Queue!Next

\* XREADGROUP: what the group gives a worker are the oldest entries nobody has had.
LEMMA ReadGroupTakes ==
    ASSUME StreamIInv, NEW w \in Workers, ReadGroup(w) \/ ReadGroupUnheard(w)
    PROVE  Queue!Next
<1> DEFINE oldest == {Unread[i] : i \in DOMAIN Unread}
<1>0. PICK read \in {Unread, <<>>} : batch' = [batch EXCEPT ![w] = read]
  BY ReadBatch
<1>1. /\ batch[w] = <<>> /\ collected[w] = {} /\ Unread # <<>>
      /\ cursor' = NextCursor(Unread)
      /\ UNCHANGED <<stream, trimmed, collected, returned>>
  BY DEF ReadGroup, ReadGroupUnheard, Idle, workerVars
<1>2. StreamTypes
  BY DEF StreamIInv
<1>3. /\ DOMAIN Unread = 1..Len(Unread) /\ Len(Unread) \in Nat \ {0}
      /\ cursor' \in 1..Len(stream) /\ cursor < cursor'
      /\ \A i \in 1..Len(Unread) : Unread[i] > cursor /\ Unread[i] <= cursor'
      /\ \A i \in 1..Len(Unread) : Unread[i] > trimmed
      /\ Unread \in Seq(Ids)
      /\ \A n \in 1..cursor' : n > cursor /\ n > trimmed =>
             \E i \in 1..Len(Unread) : Unread[i] = n
  BY <1>1, <1>2, UnreadFacts
<1>4. /\ cursor \in 0..Len(stream) /\ trimmed \in 0..Len(stream) /\ Len(stream) \in Nat
  BY <1>2 DEF StreamTypes
<1>5. \A n : n \in oldest <=> n \in 1..cursor' /\ n > cursor /\ n > trimmed
  <2> SUFFICES ASSUME NEW n
               PROVE  n \in oldest <=> n \in 1..cursor' /\ n > cursor /\ n > trimmed
    OBVIOUS
  <2>1. ASSUME n \in oldest PROVE n \in 1..cursor' /\ n > cursor /\ n > trimmed
    <3>1. PICK i \in 1..Len(Unread) : n = Unread[i]
      BY <1>3, <2>1
    <3>2. n \in Ids
      BY <1>3, <3>1
    <3> QED
      BY <1>3, <1>4, <3>1, <3>2 DEF Ids
  <2> QED
    BY <1>3, <2>1
<1> HIDE DEF oldest
<1>6. oldest \in SUBSET Awaited /\ Awaited' = Awaited \ oldest
  <2>1. \A n : n \in Awaited <=> n \in 1..Len(stream) /\ n > cursor /\ n > trimmed
    BY DEF Awaited
  <2>2. \A n : n \in Awaited' <=> n \in 1..Len(stream) /\ n > cursor' /\ n > trimmed
    BY <1>1 DEF Awaited
  <2>3. \A n : n \in oldest => n \in Awaited
    BY <1>3, <1>4, <1>5, <2>1
  <2>4. \A n : n \in Awaited' <=> n \in Awaited /\ n \notin oldest
    BY <1>3, <1>4, <1>5, <2>1, <2>2
  <2> QED
    BY <2>3, <2>4
<1>7. \A m \in oldest, n \in Awaited \ oldest : m < n
  BY <1>3, <1>4, <1>5 DEF Awaited
<1>8. oldest # {}
  <2>1. 1 \in DOMAIN Unread
    BY <1>3
  <2> QED
    BY <2>1 DEF oldest
<1>9. Held(w) = {} /\ HeldBy[w] = {}
  BY <1>1 DEF Held, HeldBy
<1> DEFINE got == {read[i] : i \in DOMAIN read}
<1>10. HeldBy' = [HeldBy EXCEPT ![w] = got] /\ got \in {oldest, {}}
  <2>1. collected' = [collected EXCEPT ![w] = {}]
    BY <1>1, <1>2 DEF StreamTypes
  <2>2. /\ \A v \in Workers : v # w => Held(v)' = Held(v)
        /\ batch'[w] = read /\ collected'[w] = {}
    BY <1>0, <1>2, <2>1, OthersStay
  <2>3. Held(w)' = got
    BY <2>2 DEF Held
  <2>4. got \in {oldest, {}}
    BY DEF oldest
  <2> QED
    BY <2>2, <2>3, <2>4, HeldByOf
<1> HIDE DEF got
<1>11. Len(stream') = Len(stream) /\ Delivered' = Delivered
  BY <1>1 DEF Delivered
<1>12. Queue!Take(w, oldest, got) /\ got \in SUBSET Awaited
  BY <1>6, <1>7, <1>8, <1>9, <1>10, <1>11 DEF Queue!Take
<1> QED
  BY <1>6, <1>12 DEF Queue!Next

LEMMA AcknowledgeKeeps ==
    ASSUME StreamIInv, NEW w \in Workers, Acknowledge(w)
    PROVE  UNCHANGED Queue!vars
<1>1. UNCHANGED <<stream, trimmed, cursor, returned>>
  BY DEF Acknowledge
<1>2. HeldBy' = HeldBy
  BY AcknowledgeHolds DEF HeldBy
<1>3. Awaited' = Awaited /\ Delivered' = Delivered /\ Len(stream)' = Len(stream)
  BY <1>1 DEF Awaited, Delivered
<1> QED
  BY <1>2, <1>3 DEF Queue!vars

\* A call of consume fails: the worker no longer has its message.
LEMMA SkipMessageLoses ==
    ASSUME StreamIInv, NEW w \in Workers, SkipMessage(w)
    PROVE  Queue!Next
<1>1. UNCHANGED <<stream, trimmed, cursor, returned>>
  BY DEF SkipMessage
<1>2. Awaited' = Awaited /\ Delivered' = Delivered /\ Len(stream)' = Len(stream)
  BY <1>1 DEF Awaited, Delivered
<1> QED
  BY <1>2, SkipHolds, LosesSome

\* A worker dies: it loses what it holds.
LEMMA CrashLoses ==
    ASSUME StreamIInv, NEW w \in Workers, Crash(w)
    PROVE  Queue!Next
<1>1. UNCHANGED <<stream, trimmed, cursor, returned>>
  BY DEF Crash, groupVars
<1>2. Awaited' = Awaited /\ Delivered' = Delivered /\ Len(stream)' = Len(stream)
  BY <1>1 DEF Awaited, Delivered
<1> QED
  BY <1>2, CrashHolds, LosesSome

\* consume returns: the worker's batch is empty, so all it holds is delivered.
LEMMA ReturnDelivers ==
    ASSUME StreamIInv, NEW w \in Workers, Return(w)
    PROVE  Queue!Next
<1>1. /\ batch[w] = <<>>
      /\ returned' = [n \in Ids |-> returned[n] + IF n \in collected[w] THEN 1 ELSE 0]
      /\ collected' = [collected EXCEPT ![w] = {}]
      /\ UNCHANGED <<stream, trimmed, cursor, batch>>
  BY DEF Return, HandedOver, groupVars
<1>2. StreamTypes
  BY DEF StreamIInv
<1>3. Held(w) = collected[w] /\ HeldBy[w] = collected[w]
  BY <1>1 DEF Held, HeldBy
<1>4. HeldBy' = [HeldBy EXCEPT ![w] = {}]
  <2>1. \A v \in Workers : v # w => collected'[v] = collected[v]
    BY <1>1, <1>2 DEF StreamTypes
  <2>2. collected'[w] = {}
    BY <1>1, <1>2 DEF StreamTypes
  <2>3. \A v \in Workers : v # w => Held(v)' = Held(v)
    BY <1>1, <2>1 DEF Held
  <2>4. Held(w)' = {}
    BY <1>1, <2>2 DEF Held
  <2> QED
    BY <2>3, <2>4, HeldByOf
<1>5. Delivered' = Delivered \cup collected[w]
  <2>1. collected[w] \subseteq Ids /\ \A n \in Ids : returned[n] \in 0..1
    BY <1>2 DEF StreamTypes
  <2>2. \A n \in Ids : returned'[n] > 0 <=> returned[n] > 0 \/ n \in collected[w]
    <3> SUFFICES ASSUME NEW n \in Ids
                 PROVE  returned'[n] > 0 <=> returned[n] > 0 \/ n \in collected[w]
      OBVIOUS
    <3>1. returned'[n] = returned[n] + IF n \in collected[w] THEN 1 ELSE 0
      BY <1>1
    <3> QED
      BY <2>1, <3>1
  <2>3. \A n : n \in Delivered' <=> n \in Delivered \cup collected[w]
    BY <2>1, <2>2 DEF Delivered
  <2> QED
    BY <2>3
<1>6. Awaited' = Awaited /\ Len(stream)' = Len(stream)
  BY <1>1 DEF Awaited
<1>7. Queue!Deliver(w)
  BY <1>3, <1>4, <1>5, <1>6 DEF Queue!Deliver
<1> QED
  BY <1>7 DEF Queue!Next

LEMMA InitIsQueueInit == Init => Queue!Init
<1> SUFFICES ASSUME Init PROVE Queue!Init
  OBVIOUS
<1>1. Len(stream) = 0 /\ Awaited = {}
  BY DEF Init, Awaited
<1>2. Delivered = {}
  BY DEF Init, Delivered
<1>3. HeldBy = [w \in Workers |-> {}]
  BY DEF Init, HeldBy, Held
<1> QED
  BY <1>1, <1>2, <1>3 DEF Queue!Init

LEMMA NextIsQueueNext == StreamIInv /\ [Next]_vars => [Queue!Next]_Queue!vars
<1> SUFFICES ASSUME StreamIInv, [Next]_vars PROVE Queue!Next \/ UNCHANGED Queue!vars
  OBVIOUS
<1>1. ASSUME UNCHANGED <<stream, trimmed, cursor, batch, collected, returned>>
      PROVE  UNCHANGED Queue!vars
  BY <1>1, HeldStays DEF Queue!vars, Awaited, Delivered
<1>2. ASSUME NEW w \in Workers,
             (\E k \in Keys : CheckProcessed(w, k)) \/ XaddFails(w) \/ MarkProcessed(w)
      PROVE  UNCHANGED Queue!vars
  BY <1>1, <1>2 DEF CheckProcessed, XaddFails, MarkProcessed, groupVars
<1>3. ASSUME NEW w \in Workers, Xadd(w) PROVE Queue!Next
  BY <1>3, XaddAdds
<1>4. ASSUME NEW w \in Workers, ReadGroup(w) \/ ReadGroupUnheard(w) PROVE Queue!Next
  BY <1>4, ReadGroupTakes
<1>5. ASSUME NEW w \in Workers, Acknowledge(w) PROVE UNCHANGED Queue!vars
  BY <1>5, AcknowledgeKeeps
<1>6. ASSUME NEW w \in Workers, SkipMessage(w) PROVE Queue!Next
  BY <1>6, SkipMessageLoses
<1>7. ASSUME NEW w \in Workers, Return(w) PROVE Queue!Next
  BY <1>7, ReturnDelivers
<1>8. ASSUME NEW w \in Workers, Crash(w) PROVE Queue!Next
  BY <1>8, CrashLoses
<1>9. CASE UNCHANGED vars
  BY <1>1, <1>9 DEF vars, groupVars, workerVars
<1> QED
  BY <1>2, <1>3, <1>4, <1>5, <1>6, <1>7, <1>8, <1>9 DEF Next

\* The Redis Streams bus is a queue that its workers share: whatever the interleaving of
\* their calls, the failures and the crashes, an entry is taken by one worker, in order, and
\* the newest MaxLen entries wait until one takes them (pipeline/bus.py, publish, consume).
THEOREM StreamsImplementWorkQueue == Spec => ImplementsWorkQueue
BY InitStreamIInv, NextStreamIInv, InitIsQueueInit, NextIsQueueNext, PTL
   DEF Spec, ImplementsWorkQueue, Queue!Spec

=============================================================================
