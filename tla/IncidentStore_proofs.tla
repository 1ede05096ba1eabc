------------------------- MODULE IncidentStore_proofs -------------------------
(***************************************************************************)
(* For any number of calls, keys, incident ids, connections, failures,     *)
(* crashes and decisions: the types of IncidentStore, that a PROCESSED     *)
(* record names an incident that is stored or was lost with the call that  *)
(* marked it, that such a record is final and a decision stands as long as *)
(* calls of the key do not overlap, and that only calls which do store     *)
(* duplicates.                                                             *)
(***************************************************************************)
EXTENDS IncidentStore, FiniteSetTheorems, TLAPS

FailedMark == [status |-> "FAILED", incident |-> NoId]

\* A record that is not PROCESSED names no incident.
MarkForm ==
    \A k \in Keys :
        \/ processing[k] \in {Absent, FailedMark}
        \/ processing[k].status = "PROCESSED" /\ processing[k].incident \in Ids

\* mark_processing goes on to write only what it did not read as PROCESSED.
LoadedIsOpen ==
    \A c \in Calls :
        /\ loaded[c] \in {Unread, Absent, FailedMark}
        /\ loaded[c] # Unread => pc[c] \in {"flushed", "updated", "failing"}
        /\ loaded[c] = FailedMark => processing[Key[c]] # Absent

\* A call that updates has found a stored incident of its key.
FoundIsStored ==
    \A c \in Calls : pc[c] \in {"updating", "updated"} =>
        found[c].id \in Ids /\ rows[found[c].id].key = Key[c]

\* A flushed and uncommitted insert holds its incident id.
IdReserved ==
    \A c \in Calls : pc[c] \in {"flushed", "marked"} =>
        /\ rows[Id[c]] = NoRow
        /\ \A d \in Calls : d # c /\ pc[d] \in {"flushed", "marked"} => Id[d] # Id[c]

\* What overlap counts: below two, no two calls of the key are at work.
AloneAtWork ==
    \A c, d \in Calls :
        /\ Key[c] = Key[d] /\ overlap[Key[c]] <= 1
        /\ pc[c] \in Working /\ pc[d] \in Working
        => c = d

\* A call that works alone writes over what it has read.
LoadedIsCurrent ==
    \A c \in Calls : overlap[Key[c]] <= 1 /\ loaded[c] # Unread => loaded[c] = processing[Key[c]]

IInv ==
    /\ TypeOK /\ MarkForm /\ LoadedIsOpen /\ FoundIsStored /\ IdReserved
    /\ NamedIsStored /\ AloneAtWork /\ LoadedIsCurrent

-----------------------------------------------------------------------------
LEMMA FieldTypes ==
    ASSUME TypeOK, NEW c \in Calls
    PROVE  /\ Key[c] \in Keys /\ Id[c] \in Ids /\ Id[c] # NoId
           /\ rows[Id[c]] \in Rows /\ processing[Key[c]] \in Marks
           /\ pc[c] \in {"called"} \cup Working \cup Ended
           /\ overlap[Key[c]] \in Nat
<1>1. Key[c] \in Keys /\ Id[c] \in Ids /\ Id[c] # NoId
  BY StoreAssumption
<1>2. Cardinality(Calls) \in Nat
  BY StoreAssumption, FS_CardinalityType
<1> QED
  BY <1>1, <1>2 DEF TypeOK

\* The status of a stored incident changes, its key never does.
LEMMA StatusChange ==
    ASSUME NEW r \in Rows, r # NoRow, NEW s \in {"OPEN_PENDING", "DECIDED"}
    PROVE  WithStatus(r, s) \in Rows /\ WithStatus(r, s).key = r.key
<1>1. r \in [key: Keys, status: {"OPEN_PENDING", "DECIDED"}]
  BY DEF Rows
<1> QED
  BY <1>1 DEF Rows, WithStatus

LEMMA KeyedIsStored ==
    ASSUME NEW r \in Rows, r.key \in Keys
    PROVE  r # NoRow
  BY StoreAssumption DEF NoRow

LEMMA AtWorkCount ==
    ASSUME NEW k \in Keys
    PROVE  /\ IsFiniteSet(AtWork(k)) /\ Cardinality(AtWork(k)) \in Nat
           /\ \A c \in Calls : pc[c] = "called" =>
                  Cardinality(AtWork(k)) + 1 <= Cardinality(Calls)
<1>1. AtWork(k) \in SUBSET Calls
  BY DEF AtWork
<1>2. IsFiniteSet(AtWork(k)) /\ Cardinality(AtWork(k)) \in Nat
  BY <1>1, StoreAssumption, FS_Subset, FS_CardinalityType
<1>3. ASSUME NEW c \in Calls, pc[c] = "called"
      PROVE  Cardinality(AtWork(k)) + 1 <= Cardinality(Calls)
  <2>1. c \notin AtWork(k)
    BY <1>3 DEF AtWork, Working
  <2>2. Cardinality(AtWork(k) \cup {c}) = Cardinality(AtWork(k)) + 1
    BY <1>2, <2>1, FS_AddElement
  <2>3. AtWork(k) \cup {c} \in SUBSET Calls
    BY <1>1
  <2> QED
    BY <2>2, <2>3, StoreAssumption, FS_Subset
<1> QED
  BY <1>2, <1>3

LEMMA InitIInv == Init => IInv
<1> SUFFICES ASSUME Init PROVE IInv
  OBVIOUS
<1>1. Cardinality(Calls) \in Nat
  BY StoreAssumption, FS_CardinalityType
<1>2. TypeOK
  <2>1. /\ rows \in [Ids -> Rows] /\ processing \in [Keys -> Marks]
        /\ found \in [Calls -> [id: Ids \cup {NoId}, status: {"none", "OPEN_PENDING", "DECIDED"}]]
        /\ loaded \in [Calls -> Marks \cup {Unread}] /\ returned \in [Calls -> Ids \cup {NoId}]
    BY DEF Init, Rows, Marks
  <2>2. /\ pc \in [Calls -> {"called"} \cup Working \cup Ended]
        /\ overlap \in [Keys -> 0..Cardinality(Calls)]
    BY <1>1 DEF Init
  <2>3. starved \in BOOLEAN
    BY Zenon DEF Init
  <2>4. /\ failures \in 0..MaxFailures /\ crashes \in 0..MaxCrashes
        /\ decisions \in 0..MaxDecisions
    BY StoreAssumption DEF Init
  <2> QED
    BY <2>1, <2>2, <2>3, <2>4 DEF TypeOK
<1>3. MarkForm /\ LoadedIsOpen /\ NamedIsStored /\ LoadedIsCurrent
  BY StoreAssumption DEF Init, MarkForm, LoadedIsOpen, NamedIsStored, LoadedIsCurrent,
                         Absent, Unread, FailedMark
<1>4. FoundIsStored /\ IdReserved /\ AloneAtWork
  BY DEF Init, FoundIsStored, IdReserved, AloneAtWork, Working
<1> QED
  BY <1>2, <1>3, <1>4 DEF IInv

-----------------------------------------------------------------------------
(* Each action preserves IInv.                                             *)

LEMMA CheckIdempotencyIInv ==
    ASSUME IInv, NEW c \in Calls, CheckIdempotency(c)
    PROVE  IInv'
<1> DEFINE k == Key[c]
           others == Cardinality(AtWork(k))
<1>1. /\ k \in Keys /\ processing[k] \in Marks /\ overlap[k] \in Nat
      /\ others \in Nat /\ others + 1 <= Cardinality(Calls)
      /\ Cardinality(Calls) \in Nat
  BY FieldTypes, AtWorkCount, StoreAssumption, FS_CardinalityType
     DEF IInv, CheckIdempotency
<1>2. CASE Done(k) /\ Returns(c, processing[k].incident) /\ UNCHANGED overlap
  <2>1. processing[k].incident \in Ids
    BY <1>1, <1>2 DEF IInv, MarkForm, Done, Absent, FailedMark
  <2>2. TypeOK'
    BY <1>2, <2>1 DEF IInv, TypeOK, CheckIdempotency, Returns, At, Ended
  <2>3. (MarkForm /\ LoadedIsOpen /\ FoundIsStored /\ IdReserved /\ LoadedIsCurrent)'
    BY <1>2 DEF IInv, TypeOK, CheckIdempotency, Returns, At, MarkForm, LoadedIsOpen,
                FoundIsStored, IdReserved, LoadedIsCurrent
  <2>4. NamedIsStored'
    BY <1>2 DEF IInv, TypeOK, CheckIdempotency, Returns, At, NamedIsStored
  <2>5. AloneAtWork'
    BY <1>2 DEF IInv, TypeOK, CheckIdempotency, Returns, At, AloneAtWork, Working
  <2> QED
    BY <2>2, <2>3, <2>4, <2>5 DEF IInv
<1>3. CASE /\ ~Done(k) /\ At(c, "checked") /\ UNCHANGED returned
           /\ overlap' = [overlap EXCEPT ![k] = IF @ > others THEN @ ELSE others + 1]
  <2>1. TypeOK'
    BY <1>1, <1>3 DEF IInv, TypeOK, CheckIdempotency, At, Working
  <2>2. (MarkForm /\ LoadedIsOpen /\ FoundIsStored /\ IdReserved)'
    BY <1>3 DEF IInv, TypeOK, CheckIdempotency, At, MarkForm, LoadedIsOpen,
                FoundIsStored, IdReserved
  <2>3. NamedIsStored'
    BY <1>3 DEF IInv, TypeOK, CheckIdempotency, At, NamedIsStored
  <2>4. \A l \in Keys : overlap[l] \in Nat /\ overlap'[l] \in Nat /\ overlap'[l] >= overlap[l]
    BY <1>1, <1>3, <2>1 DEF IInv, TypeOK
  <2>5. LoadedIsCurrent'
    BY <1>3, <2>4, FieldTypes DEF IInv, CheckIdempotency, LoadedIsCurrent
  <2>6. overlap'[k] <= 1 => AtWork(k) = {}
    <3>1. overlap'[k] = IF overlap[k] > others THEN overlap[k] ELSE others + 1
      BY <1>1, <1>3 DEF IInv, TypeOK
    <3>3. overlap'[k] <= 1 => others = 0
      BY <1>1, <3>1
    <3>2. IsFiniteSet(AtWork(k))
      BY <1>1, AtWorkCount
    <3> QED
      BY <3>2, <3>3, FS_EmptySet
  <2>7. AloneAtWork'
    <3>1. \A d \in Calls : d # c => pc'[d] = pc[d]
      BY <1>3 DEF IInv, TypeOK, At
    <3>2. SUFFICES ASSUME NEW a \in Calls, NEW b \in Calls, Key[a] = Key[b],
                          overlap'[Key[a]] <= 1, pc'[a] \in Working, pc'[b] \in Working,
                          a # b
                   PROVE  FALSE
      BY DEF AloneAtWork
    <3>3. CASE a = c
      BY <2>6, <3>1, <3>2, <3>3 DEF AtWork
    <3>4. CASE b = c
      BY <2>6, <3>1, <3>2, <3>4 DEF AtWork
    <3>5. CASE a # c /\ b # c
      BY <2>4, <3>1, <3>2, <3>5, FieldTypes DEF IInv, AloneAtWork
    <3> QED
      BY <3>3, <3>4, <3>5
  <2> QED
    BY <2>1, <2>2, <2>3, <2>5, <2>7 DEF IInv
<1> QED
  BY <1>2, <1>3 DEF CheckIdempotency

\* Calls that go on or end never turn out to work next to another one.
LEMMA StillAlone ==
    ASSUME IInv, UNCHANGED overlap,
           \A d \in Calls : pc'[d] \in Working => pc[d] \in Working
    PROVE  AloneAtWork'
  BY DEF IInv, AloneAtWork

Lost == {"marked", "failing", "raised", "crashed"}

\* The incident a record names stays stored or lost, as long as stored incidents keep
\* their key and a call that holds one only stops doing so by storing it.
LEMMA StillStoredOrLost ==
    ASSUME IInv, NEW k \in Keys, processing[k].status = "PROCESSED",
           \A i \in Ids : rows[i].key \in Keys => rows'[i].key = rows[i].key,
           \A d \in Calls : pc[d] \in Lost => pc'[d] \in Lost \/ rows'[Id[d]].key = Key[d]
    PROVE  \/ rows'[processing[k].incident].key = k
           \/ \E c \in Calls : /\ Id[c] = processing[k].incident /\ Key[c] = k
                               /\ pc'[c] \in Lost
<1>1. processing[k].incident \in Ids
  BY DEF IInv, MarkForm, Absent, FailedMark
<1>2. CASE rows[processing[k].incident].key = k
  BY <1>1, <1>2
<1>3. CASE \E c \in Calls : Id[c] = processing[k].incident /\ Key[c] = k /\ pc[c] \in Lost
  BY <1>3
<1> QED
  BY <1>2, <1>3 DEF IInv, NamedIsStored, Lost

LEMMA StillNamed ==
    ASSUME IInv, UNCHANGED processing,
           \A i \in Ids : rows[i].key \in Keys => rows'[i].key = rows[i].key,
           \A d \in Calls : pc[d] \in Lost => pc'[d] \in Lost \/ rows'[Id[d]].key = Key[d]
    PROVE  NamedIsStored'
<1> SUFFICES ASSUME NEW k \in Keys, processing[k].status = "PROCESSED"
             PROVE  \/ rows'[processing[k].incident].key = k
                    \/ \E c \in Calls : /\ Id[c] = processing[k].incident /\ Key[c] = k
                                        /\ pc'[c] \in Lost
  BY DEF NamedIsStored, Lost
<1> QED
  BY StillStoredOrLost

LEMMA SelectIncidentIInv ==
    ASSUME IInv, NEW c \in Calls, SelectIncident(c)
    PROVE  IInv'
<1>1. \A d \in Calls : d # c => pc'[d] = pc[d] /\ found'[d] = found[d]
  BY DEF IInv, TypeOK, SelectIncident, At
<1>2. pc[c] = "checked" /\ pc'[c] \in {"creating", "updating", "failing"}
  BY DEF IInv, TypeOK, SelectIncident, At
<1>3. pc'[c] = "updating" => found'[c].id \in Ids /\ rows[found'[c].id].key = Key[c]
  <2>1. CASE \E i \in Existing(c) : found' = [found EXCEPT ![c] = [id |-> i, status |-> rows[i].status]]
    BY <2>1 DEF IInv, TypeOK, Existing
  <2> QED
    BY <1>2, <2>1 DEF SelectIncident, At, IInv, TypeOK
<1>4. TypeOK'
  <2>1. found' \in [Calls -> [id: Ids \cup {NoId}, status: {"none", "OPEN_PENDING", "DECIDED"}]]
    <3>1. CASE UNCHANGED found
      BY <3>1 DEF IInv, TypeOK
    <3>2. CASE \E i \in Existing(c) :
                  found' = [found EXCEPT ![c] = [id |-> i, status |-> rows[i].status]]
      <4>1. PICK i \in Existing(c) :
                  found' = [found EXCEPT ![c] = [id |-> i, status |-> rows[i].status]]
        BY <3>2
      <4>2. i \in Ids /\ rows[i].status \in {"none", "OPEN_PENDING", "DECIDED"}
        BY DEF Existing, IInv, TypeOK, Rows, NoRow
      <4> QED
        BY <4>1, <4>2 DEF IInv, TypeOK
    <3> QED
      BY <3>1, <3>2 DEF SelectIncident
  <2> QED
    BY <1>2, <2>1 DEF IInv, TypeOK, SelectIncident, At, Working
<1>5. (MarkForm /\ LoadedIsOpen /\ LoadedIsCurrent)'
  BY <1>1, <1>2 DEF IInv, SelectIncident, MarkForm, LoadedIsOpen, LoadedIsCurrent
<1>6. FoundIsStored'
  BY <1>1, <1>2, <1>3 DEF IInv, SelectIncident, FoundIsStored
<1>7. IdReserved'
  BY <1>1, <1>2 DEF IInv, SelectIncident, IdReserved
<1>8. AloneAtWork'
  BY <1>1, <1>2, StillAlone DEF SelectIncident, Working
<1>9. NamedIsStored'
  BY <1>1, <1>2, StillNamed DEF SelectIncident, Lost
<1> QED
  BY <1>4, <1>5, <1>6, <1>7, <1>8, <1>9 DEF IInv

LEMMA FlushIncidentIInv ==
    ASSUME IInv, NEW c \in Calls, FlushIncident(c)
    PROVE  IInv'
<1>1. \A d \in Calls : d # c => pc'[d] = pc[d]
  BY DEF IInv, TypeOK, FlushIncident, At
<1>2. pc[c] = "creating" /\ pc'[c] = IF rows[Id[c]] = NoRow THEN "flushed" ELSE "failing"
  BY DEF IInv, TypeOK, FlushIncident, At
<1>3. TypeOK'
  BY DEF IInv, TypeOK, FlushIncident, At, Working
<1>4. (MarkForm /\ LoadedIsOpen /\ LoadedIsCurrent /\ FoundIsStored)'
  BY <1>1, <1>2 DEF IInv, FlushIncident, MarkForm, LoadedIsOpen, LoadedIsCurrent, FoundIsStored
<1>5. IdReserved'
  BY <1>1, <1>2 DEF IInv, FlushIncident, IdReserved
<1>6. AloneAtWork'
  BY <1>1, <1>2, StillAlone DEF FlushIncident, Working
<1>7. NamedIsStored'
  BY <1>1, <1>2, StillNamed DEF FlushIncident, Lost
<1> QED
  BY <1>3, <1>4, <1>5, <1>6, <1>7 DEF IInv

LEMMA SaveFailsIInv ==
    ASSUME IInv, NEW c \in Calls, SaveFails(c)
    PROVE  IInv'
<1>1. \A d \in Calls : d # c => pc'[d] = pc[d]
  BY DEF IInv, TypeOK, SaveFails, At
<1>2. pc[c] \in {"checked", "creating", "marked", "updating"} /\ pc'[c] = "failing"
  BY DEF IInv, TypeOK, SaveFails, At
<1>3. TypeOK'
  BY StoreAssumption DEF IInv, TypeOK, SaveFails, At, Working
<1>4. (MarkForm /\ LoadedIsOpen /\ LoadedIsCurrent /\ FoundIsStored /\ IdReserved)'
  BY <1>1, <1>2 DEF IInv, SaveFails, MarkForm, LoadedIsOpen, LoadedIsCurrent, FoundIsStored,
                    IdReserved
<1>5. AloneAtWork'
  BY <1>1, <1>2, StillAlone DEF SaveFails, Working
<1>6. NamedIsStored'
  BY <1>1, <1>2, StillNamed DEF SaveFails, Lost
<1> QED
  BY <1>3, <1>4, <1>5, <1>6 DEF IInv

LEMMA CrashIInv ==
    ASSUME IInv, NEW c \in Calls, Crash(c)
    PROVE  IInv'
<1>1. \A d \in Calls : d # c => pc'[d] = pc[d] /\ loaded'[d] = loaded[d]
  BY DEF IInv, TypeOK, Crash, At
<1>2. pc[c] \in Working /\ pc'[c] = "crashed" /\ loaded'[c] = Unread
  BY DEF IInv, TypeOK, Crash, At
<1>3. TypeOK'
  BY StoreAssumption DEF IInv, TypeOK, Crash, At, Ended
<1>4. (MarkForm /\ FoundIsStored /\ IdReserved)'
  BY <1>1, <1>2 DEF IInv, Crash, MarkForm, FoundIsStored, IdReserved
<1>5. LoadedIsOpen'
  BY <1>1, <1>2 DEF IInv, Crash, LoadedIsOpen, Unread, FailedMark
<1>6. LoadedIsCurrent'
  BY <1>1, <1>2 DEF IInv, Crash, LoadedIsCurrent
<1>7. AloneAtWork'
  BY <1>1, <1>2, StillAlone DEF Crash, Working
<1>8. NamedIsStored'
  BY <1>1, <1>2, StillNamed DEF Crash, Lost
<1> QED
  BY <1>3, <1>4, <1>5, <1>6, <1>7, <1>8 DEF IInv

LEMMA UpdateIncidentStatusIInv ==
    ASSUME IInv, NEW i \in Ids, UpdateIncidentStatus(i)
    PROVE  IInv'
<1>1. /\ rows[i] # NoRow /\ rows[i] \in Rows
      /\ rows' = [rows EXCEPT ![i] = WithStatus(rows[i], "DECIDED")]
  BY DEF IInv, TypeOK, UpdateIncidentStatus
<1>2. rows' \in [Ids -> Rows] /\ \A j \in Ids : rows'[j].key = rows[j].key
  BY <1>1, StatusChange DEF IInv, TypeOK
<1>3. TypeOK'
  BY <1>2, StoreAssumption DEF IInv, TypeOK, UpdateIncidentStatus
<1>4. (MarkForm /\ LoadedIsOpen /\ LoadedIsCurrent /\ AloneAtWork)'
  BY DEF IInv, UpdateIncidentStatus, MarkForm, LoadedIsOpen, LoadedIsCurrent, AloneAtWork
<1>5. FoundIsStored'
  BY <1>2 DEF IInv, UpdateIncidentStatus, FoundIsStored
<1>6. IdReserved'
  BY <1>1, StoreAssumption DEF IInv, TypeOK, UpdateIncidentStatus, IdReserved
<1>7. NamedIsStored'
  BY <1>2, StillNamed DEF UpdateIncidentStatus
<1> QED
  BY <1>3, <1>4, <1>5, <1>6, <1>7 DEF IInv

LEMMA CommitNewIInv ==
    ASSUME IInv, NEW c \in Calls, CommitNew(c)
    PROVE  IInv'
<1> DEFINE new == [key |-> Key[c], status |-> "OPEN_PENDING"]
<1>1. /\ Key[c] \in Keys /\ Id[c] \in Ids /\ new \in Rows
      /\ pc[c] = "marked" /\ rows[Id[c]] = NoRow
  BY FieldTypes DEF IInv, CommitNew, IdReserved, Rows
<1>2. /\ \A d \in Calls : d # c => pc'[d] = pc[d]
      /\ pc'[c] = "returned"
  BY DEF IInv, TypeOK, CommitNew, Returns, At
<1>3. /\ rows' \in [Ids -> Rows] /\ rows'[Id[c]] = new
      /\ \A i \in Ids : i # Id[c] => rows'[i] = rows[i]
  BY <1>1 DEF IInv, TypeOK, CommitNew, NewRows
<1>4. \A i \in Ids : rows[i].key \in Keys => rows'[i].key = rows[i].key
  BY <1>1, <1>3, StoreAssumption DEF NoRow
<1>5. TypeOK'
  BY <1>1, <1>3, StoreAssumption DEF IInv, TypeOK, CommitNew, Returns, At, Ended
<1>6. (MarkForm /\ LoadedIsOpen /\ LoadedIsCurrent)'
  BY <1>1, <1>2 DEF IInv, CommitNew, MarkForm, LoadedIsOpen, LoadedIsCurrent
<1>7. FoundIsStored'
  BY <1>2, <1>4, StoreAssumption DEF IInv, CommitNew, FoundIsStored
<1>8. IdReserved'
  BY <1>1, <1>2, <1>3, StoreAssumption DEF IInv, IdReserved
<1>9. AloneAtWork'
  BY <1>2, StillAlone DEF CommitNew, Working
<1>10. NamedIsStored'
  <2>1. \A d \in Calls : pc[d] \in Lost => pc'[d] \in Lost \/ rows'[Id[d]].key = Key[d]
    BY <1>2, <1>3
  <2> QED
    BY <1>4, <2>1, StillNamed DEF CommitNew
<1> QED
  BY <1>5, <1>6, <1>7, <1>8, <1>9, <1>10 DEF IInv

LEMMA CommitUpdateIInv ==
    ASSUME IInv, NEW c \in Calls, CommitUpdate(c)
    PROVE  IInv'
<1> DEFINE i == found[c].id
<1>1. /\ i \in Ids /\ rows[i].key = Key[c] /\ Key[c] \in Keys
      /\ rows[i] \in Rows /\ rows[i] # NoRow
  BY FieldTypes, KeyedIsStored DEF IInv, TypeOK, CommitUpdate, FoundIsStored
<1>2. /\ \A d \in Calls : d # c => pc'[d] = pc[d]
      /\ pc[c] = "updating" /\ pc'[c] = "updated"
  BY DEF IInv, TypeOK, CommitUpdate, At
<1>3. /\ rows' \in [Ids -> Rows]
      /\ \A j \in Ids : rows'[j].key = rows[j].key /\ (j # i => rows'[j] = rows[j])
  <2>1. CASE rows' = rows
    BY <2>1 DEF IInv, TypeOK
  <2>2. CASE rows' = [rows EXCEPT ![i] = WithStatus(rows[i], "OPEN_PENDING")]
    BY <1>1, <2>2, StatusChange DEF IInv, TypeOK
  <2> QED
    BY <2>1, <2>2 DEF CommitUpdate, UpdatedRows
<1>4. TypeOK'
  BY <1>3 DEF IInv, TypeOK, CommitUpdate, At, Working
<1>5. (MarkForm /\ LoadedIsOpen /\ LoadedIsCurrent)'
  BY <1>2 DEF IInv, CommitUpdate, MarkForm, LoadedIsOpen, LoadedIsCurrent
<1>6. FoundIsStored'
  BY <1>1, <1>2, <1>3 DEF IInv, CommitUpdate, FoundIsStored
<1>7. IdReserved'
  BY <1>1, <1>2, <1>3, StoreAssumption DEF IInv, IdReserved
<1>8. AloneAtWork'
  BY <1>2, StillAlone DEF CommitUpdate, Working
<1>9. NamedIsStored'
  BY <1>2, <1>3, StillNamed DEF CommitUpdate, Lost
<1> QED
  BY <1>4, <1>5, <1>6, <1>7, <1>8, <1>9 DEF IInv

\* Where a call goes on after its marking.
\* A commit whose answer is lost changes the rows as one that is heard of does, and the
\* call goes the way of those that fail.
LEMMA CommitUnheardIInv ==
    ASSUME IInv, NEW c \in Calls, CommitUnheard(c)
    PROVE  IInv'
<1>1. /\ \A d \in Calls : d # c => pc'[d] = pc[d]
      /\ pc[c] \in {"marked", "updating"} /\ pc'[c] = "failing"
      /\ Key[c] \in Keys /\ Id[c] \in Ids
  BY FieldTypes DEF IInv, TypeOK, CommitUnheard, At
<1>2. /\ rows' \in [Ids -> Rows]
      /\ \A i \in Ids : rows[i].key \in Keys => rows'[i].key = rows[i].key
      /\ \A i \in Ids : rows[i] = NoRow /\ ~(pc[c] = "marked" /\ i = Id[c])
                       => rows'[i] = NoRow
  <2>1. CASE pc[c] = "marked" /\ rows' = NewRows(c)
    <3>1. rows[Id[c]] = NoRow /\ [key |-> Key[c], status |-> "OPEN_PENDING"] \in Rows
      BY <1>1, <2>1 DEF IInv, IdReserved, Rows
    <3> QED
      BY <1>1, <2>1, <3>1, StoreAssumption DEF IInv, TypeOK, NewRows, NoRow
  <2>2. CASE pc[c] = "updating" /\ rows' = UpdatedRows(c)
    <3>1. /\ found[c].id \in Ids /\ rows[found[c].id].key \in Keys
          /\ rows[found[c].id] \in Rows /\ rows[found[c].id] # NoRow
      BY <1>1, <2>2, KeyedIsStored DEF IInv, TypeOK, FoundIsStored
    <3>2. CASE rows' = rows
      BY <3>2 DEF IInv, TypeOK
    <3>3. CASE rows' = [rows EXCEPT ![found[c].id] =
                                       WithStatus(rows[found[c].id], "OPEN_PENDING")]
      BY <2>2, <3>1, <3>3, StatusChange DEF IInv, TypeOK
    <3> QED
      BY <2>2, <3>2, <3>3 DEF UpdatedRows
  <2> QED
    BY <2>1, <2>2 DEF CommitUnheard
<1>3. TypeOK'
  BY <1>2, StoreAssumption DEF IInv, TypeOK, CommitUnheard, At, Working
<1>4. (MarkForm /\ LoadedIsOpen /\ LoadedIsCurrent)'
  BY <1>1 DEF IInv, CommitUnheard, MarkForm, LoadedIsOpen, LoadedIsCurrent
<1>5. FoundIsStored'
  BY <1>1, <1>2, FieldTypes DEF IInv, CommitUnheard, FoundIsStored
<1>6. IdReserved'
  BY <1>1, <1>2, StoreAssumption DEF IInv, IdReserved
<1>7. AloneAtWork'
  BY <1>1, StillAlone DEF CommitUnheard, Working
<1>8. NamedIsStored'
  BY <1>1, <1>2, StillNamed DEF CommitUnheard, Lost
<1> QED
  BY <1>3, <1>4, <1>5, <1>6, <1>7, <1>8 DEF IInv

LEMMA ContinueFacts ==
    ASSUME IInv, NEW c \in Calls, pc[c] \in {"flushed", "updated", "failing"}, Continue(c)
    PROVE  /\ \A d \in Calls : d # c => pc'[d] = pc[d] /\ loaded'[d] = loaded[d]
           /\ pc[c] = "flushed" => pc'[c] = "marked"
           /\ pc[c] = "updated" => pc'[c] = "returned"
           /\ pc[c] = "failing" => pc'[c] = "raised"
           /\ loaded'[c] = Unread
           /\ pc' \in [Calls -> {"called"} \cup Working \cup Ended]
           /\ loaded' \in [Calls -> Marks \cup {Unread}]
           /\ returned' \in [Calls -> Ids \cup {NoId}]
<1>1. CASE pc[c] = "flushed"
  <2>1. At(c, "marked") /\ UNCHANGED returned /\ loaded' = [loaded EXCEPT ![c] = Unread]
    BY <1>1 DEF Continue
  <2> QED
    BY <1>1, <2>1 DEF At, IInv, TypeOK, Working
<1>2. CASE pc[c] = "updated"
  <2>1. Returns(c, found[c].id) /\ loaded' = [loaded EXCEPT ![c] = Unread]
    BY <1>2 DEF Continue
  <2>2. found[c].id \in Ids
    BY <1>2 DEF IInv, FoundIsStored
  <2> QED
    BY <1>2, <2>1, <2>2 DEF Returns, At, IInv, TypeOK, Ended
<1>3. CASE pc[c] = "failing"
  <2>1. At(c, "raised") /\ UNCHANGED returned /\ loaded' = [loaded EXCEPT ![c] = Unread]
    BY <1>3 DEF Continue
  <2> QED
    BY <1>3, <2>1 DEF At, IInv, TypeOK, Ended
<1> QED
  BY <1>1, <1>2, <1>3

LEMMA MarkReadIInv ==
    ASSUME IInv, NEW c \in Calls, MarkRead(c)
    PROVE  IInv'
<1> DEFINE k == Key[c]
<1>1. /\ k \in Keys /\ processing[k] \in Marks
      /\ pc[c] \in {"flushed", "updated", "failing"}
  BY FieldTypes DEF IInv, MarkRead
<1>2. CASE Continue(c)
  <2>1. TypeOK'
    BY <1>1, <1>2, ContinueFacts DEF IInv, TypeOK, MarkRead
  <2>2. (MarkForm /\ LoadedIsOpen /\ LoadedIsCurrent)'
    BY <1>1, <1>2, ContinueFacts
       DEF IInv, MarkRead, MarkForm, LoadedIsOpen, LoadedIsCurrent, Unread, FailedMark
  <2>3. (FoundIsStored /\ IdReserved)'
    BY <1>1, <1>2, ContinueFacts DEF IInv, MarkRead, FoundIsStored, IdReserved
  <2>4. AloneAtWork'
    BY <1>1, <1>2, ContinueFacts, StillAlone DEF MarkRead, Working
  <2>5. NamedIsStored'
    BY <1>1, <1>2, ContinueFacts, StillNamed DEF MarkRead, Lost
  <2> QED
    BY <2>1, <2>2, <2>3, <2>4, <2>5 DEF IInv
<1>3. CASE /\ ~Final(processing[k]) /\ UNCHANGED <<pc, returned>>
           /\ loaded' = [loaded EXCEPT ![c] = processing[k]]
  <2>1. processing[k] \in {Absent, FailedMark}
    BY <1>1, <1>3 DEF IInv, MarkForm, Final
  <2>2. /\ loaded'[c] = processing[k]
        /\ \A d \in Calls : d # c => loaded'[d] = loaded[d]
    BY <1>3 DEF IInv, TypeOK
  <2>3. TypeOK'
    BY <1>1, <1>3 DEF IInv, TypeOK, MarkRead
  <2>4. LoadedIsOpen'
    BY <1>1, <1>3, <2>1, <2>2 DEF IInv, MarkRead, LoadedIsOpen, Absent, FailedMark
  <2>5. LoadedIsCurrent'
    BY <2>2 DEF IInv, MarkRead, LoadedIsCurrent
  <2>6. (MarkForm /\ FoundIsStored /\ IdReserved /\ AloneAtWork /\ NamedIsStored)'
    BY <1>3 DEF IInv, MarkRead, MarkForm, FoundIsStored, IdReserved, AloneAtWork, NamedIsStored
  <2> QED
    BY <2>3, <2>4, <2>5, <2>6 DEF IInv
<1> QED
  BY <1>2, <1>3 DEF MarkRead

\* What mark_processing writes: a record of one of the two forms, and when it is not the
\* one that was there and is PROCESSED, it names the incident of the call.
LEMMA MarkedFacts ==
    ASSUME IInv, NEW c \in Calls, loaded[c] # Unread
    PROVE  LET old == processing[Key[c]]
               new == Marked(c, old)
           IN  /\ new \in Marks /\ new # Absent
               /\ \/ new = FailedMark
                  \/ new = old
                  \/ /\ new.status = "PROCESSED" /\ new.incident = MarkedId(c)
                     /\ pc[c] \in {"flushed", "updated"}
                     /\ MarkedId(c) \in Ids
<1> DEFINE old == processing[Key[c]]
           new == Marked(c, old)
<1>1. /\ pc[c] \in {"flushed", "updated", "failing"}
      /\ loaded[c] \in {Absent, FailedMark}
      /\ loaded[c] = FailedMark => old # Absent
  BY DEF IInv, LoadedIsOpen
<1>2. old \in Marks /\ Id[c] \in Ids /\ NoId \notin Ids
  BY FieldTypes, StoreAssumption DEF IInv
<1>3. CASE pc[c] = "failing"
  <2>1. MarkedId(c) = NoId
    BY <1>3 DEF MarkedId
  <2>2. CASE loaded[c] = Absent
    <3>1. new = IF old = Absent THEN FailedMark ELSE old
      BY <1>3, <2>1, <2>2 DEF Marked, FailedMark
    <3> QED
      BY <1>2, <3>1 DEF Marks, FailedMark, Absent
  <2>3. CASE loaded[c] = FailedMark
    <3>1. FailedMark # Absent /\ FailedMark.status = "FAILED" /\ FailedMark.incident = NoId
      BY DEF FailedMark, Absent
    <3>2. new = [status |-> old.status, incident |-> old.incident]
      BY <1>3, <2>1, <2>3, <3>1 DEF Marked
    <3>3. new = old
      BY <1>1, <1>2, <2>3, <3>2 DEF Marks
    <3> QED
      BY <1>1, <1>2, <2>3, <3>3
  <2> QED
    BY <1>1, <2>2, <2>3
<1>4. CASE pc[c] \in {"flushed", "updated"}
  <2>1. MarkedId(c) \in Ids
    BY <1>2, <1>4 DEF MarkedId, IInv, FoundIsStored
  <2>2. MarkedId(c) # NoId
    BY <1>2, <2>1
  <2>3. CASE loaded[c] = Absent
    <3>1. new = IF old = Absent THEN [status |-> "PROCESSED", incident |-> MarkedId(c)] ELSE old
      BY <1>4, <2>3 DEF Marked
    <3> QED
      BY <1>2, <1>4, <2>1, <3>1 DEF Marks, Absent
  <2>4. CASE loaded[c] = FailedMark
    <3>1. FailedMark # Absent /\ FailedMark.status = "FAILED" /\ FailedMark.incident = NoId
      BY DEF FailedMark, Absent
    <3>2. new = [status |-> "PROCESSED", incident |-> MarkedId(c)]
      BY <1>4, <2>2, <2>4, <3>1 DEF Marked
    <3> QED
      BY <1>4, <2>1, <3>2 DEF Marks, Absent
  <2> QED
    BY <1>1, <2>3, <2>4
<1> QED
  BY <1>1, <1>3, <1>4

LEMMA MarkWriteIInv ==
    ASSUME IInv, NEW c \in Calls, MarkWrite(c)
    PROVE  IInv'
<1> DEFINE k   == Key[c]
           new == Marked(c, processing[k])
<1>1. /\ loaded[c] # Unread /\ Continue(c)
      /\ pc[c] \in {"flushed", "updated", "failing"}
      /\ k \in Keys
      /\ UNCHANGED <<rows, found, overlap, starved, crashes, decisions>>
  BY FieldTypes DEF IInv, MarkWrite, LoadedIsOpen
<1>2. CASE UNCHANGED processing /\ failures < MaxFailures /\ failures' = failures + 1
  <2>1. TypeOK'
    BY <1>1, <1>2, ContinueFacts, StoreAssumption DEF IInv, TypeOK
  <2>2. (MarkForm /\ LoadedIsOpen /\ LoadedIsCurrent)'
    BY <1>1, <1>2, ContinueFacts
       DEF IInv, MarkForm, LoadedIsOpen, LoadedIsCurrent, Unread, FailedMark
  <2>3. (FoundIsStored /\ IdReserved)'
    BY <1>1, ContinueFacts DEF IInv, FoundIsStored, IdReserved
  <2>4. AloneAtWork'
    BY <1>1, ContinueFacts, StillAlone DEF Working
  <2>5. NamedIsStored'
    BY <1>1, <1>2, ContinueFacts, StillNamed DEF Lost
  <2> QED
    BY <2>1, <2>2, <2>3, <2>4, <2>5 DEF IInv
<1>3. CASE processing' = [processing EXCEPT ![k] = new] /\ UNCHANGED failures
  <2>1. /\ new \in Marks /\ new # Absent
        /\ \/ new = FailedMark
           \/ new = processing[k]
           \/ /\ new.status = "PROCESSED" /\ new.incident = MarkedId(c)
              /\ pc[c] \in {"flushed", "updated"}
              /\ MarkedId(c) \in Ids
    BY <1>1, MarkedFacts
  <2>2. /\ processing' \in [Keys -> Marks]
        /\ processing'[k] = new
        /\ \A l \in Keys : l # k => processing'[l] = processing[l]
    BY <1>1, <1>3, <2>1 DEF IInv, TypeOK
  <2>3. TypeOK'
    BY <1>1, <1>3, <2>2, ContinueFacts DEF IInv, TypeOK
  <2>4. MarkForm'
    BY <2>1, <2>2 DEF IInv, MarkForm
  <2>5. LoadedIsOpen'
    <3>1. \A d \in Calls : loaded[d] = FailedMark => processing'[Key[d]] # Absent
      BY <2>1, <2>2, FieldTypes DEF IInv, LoadedIsOpen
    <3> QED
      BY <1>1, <3>1, ContinueFacts DEF IInv, LoadedIsOpen, Unread, FailedMark
  <2>6. LoadedIsCurrent'
    <3>1. SUFFICES ASSUME NEW d \in Calls, overlap[Key[d]] <= 1, loaded'[d] # Unread
                   PROVE  loaded'[d] = processing'[Key[d]]
      BY <1>1 DEF LoadedIsCurrent
    <3>2. d # c /\ loaded'[d] = loaded[d]
      BY <1>1, <3>1, ContinueFacts
    <3>3. pc[d] \in Working /\ pc[c] \in Working
      BY <1>1, <3>1, <3>2 DEF IInv, LoadedIsOpen, Working
    <3>4. Key[d] # k
      BY <3>1, <3>2, <3>3 DEF IInv, AloneAtWork
    <3> QED
      BY <2>2, <3>1, <3>2, <3>4, FieldTypes DEF IInv, LoadedIsCurrent
  <2>7. (FoundIsStored /\ IdReserved)'
    BY <1>1, ContinueFacts DEF IInv, FoundIsStored, IdReserved
  <2>8. AloneAtWork'
    BY <1>1, ContinueFacts, StillAlone DEF Working
  <2>9. NamedIsStored'
    <3>1. SUFFICES ASSUME NEW l \in Keys, processing'[l].status = "PROCESSED"
                   PROVE  \/ rows[processing'[l].incident].key = l
                          \/ \E d \in Calls : /\ Id[d] = processing'[l].incident /\ Key[d] = l
                                              /\ pc'[d] \in Lost
      BY <1>1 DEF NamedIsStored, Lost
    <3>2. \A d \in Calls : pc[d] \in Lost => pc'[d] \in Lost
      BY <1>1, ContinueFacts DEF Lost
    <3>3. CASE processing'[l] = processing[l]
      BY <1>1, <3>1, <3>2, <3>3, StillStoredOrLost
    <3>4. CASE processing'[l] # processing[l]
      <4>1. l = k /\ processing'[l] = new
        BY <2>2, <3>4
      <4>2. new.incident = MarkedId(c) /\ pc[c] \in {"flushed", "updated"}
        BY <2>1, <3>1, <3>4, <4>1 DEF FailedMark
      <4>3. CASE pc[c] = "flushed"
        <5>1. MarkedId(c) = Id[c] /\ pc'[c] \in Lost
          BY <1>1, <4>3, ContinueFacts DEF MarkedId, Lost
        <5> QED
          BY <4>1, <4>2, <5>1
      <4>4. CASE pc[c] = "updated"
        <5>1. MarkedId(c) = found[c].id /\ rows[found[c].id].key = k
          BY <4>4 DEF MarkedId, IInv, FoundIsStored
        <5> QED
          BY <4>1, <4>2, <5>1
      <4> QED
        BY <4>2, <4>3, <4>4
    <3> QED
      BY <3>3, <3>4
  <2> QED
    BY <2>3, <2>4, <2>5, <2>6, <2>7, <2>8, <2>9 DEF IInv
<1> QED
  BY <1>2, <1>3 DEF MarkWrite

\* A call that waited for a connection in vain raises, fails, or goes on as if it had
\* marked.
LEMMA PoolTimeoutIInv ==
    ASSUME IInv, NEW c \in Calls, PoolTimeout(c)
    PROVE  IInv'
<1>1. UNCHANGED <<rows, processing, found, overlap, failures, crashes, decisions>>
      /\ starved' = TRUE
  BY DEF PoolTimeout
<1>2. CASE \/ pc[c] = "called" /\ At(c, "raised") /\ UNCHANGED <<loaded, returned>>
           \/ pc[c] = "checked" /\ At(c, "failing") /\ UNCHANGED <<loaded, returned>>
  <2>1. \A d \in Calls : d # c => pc'[d] = pc[d]
    BY <1>2 DEF IInv, TypeOK, At
  <2>2. /\ pc[c] \in {"called", "checked"} /\ pc'[c] \in {"raised", "failing"}
        /\ pc[c] = "called" => pc'[c] = "raised"
    BY <1>2 DEF IInv, TypeOK, At
  <2>3. TypeOK'
    BY <1>1, <1>2 DEF IInv, TypeOK, At, Working, Ended
  <2>4. (MarkForm /\ LoadedIsOpen /\ LoadedIsCurrent /\ FoundIsStored /\ IdReserved)'
    BY <1>1, <1>2, <2>1, <2>2 DEF IInv, MarkForm, LoadedIsOpen, LoadedIsCurrent,
                                  FoundIsStored, IdReserved
  <2>5. AloneAtWork'
    BY <1>1, <2>1, <2>2, StillAlone DEF Working
  <2>6. NamedIsStored'
    BY <1>1, <2>1, <2>2, StillNamed DEF Lost
  <2> QED
    BY <2>3, <2>4, <2>5, <2>6 DEF IInv
<1>3. CASE pc[c] \in {"flushed", "updated", "failing"} /\ Continue(c)
  <2>1. TypeOK'
    BY <1>1, <1>3, ContinueFacts DEF IInv, TypeOK
  <2>2. (MarkForm /\ LoadedIsOpen /\ LoadedIsCurrent)'
    BY <1>1, <1>3, ContinueFacts
       DEF IInv, MarkForm, LoadedIsOpen, LoadedIsCurrent, Unread, FailedMark
  <2>3. (FoundIsStored /\ IdReserved)'
    BY <1>1, <1>3, ContinueFacts DEF IInv, FoundIsStored, IdReserved
  <2>4. AloneAtWork'
    BY <1>1, <1>3, ContinueFacts, StillAlone DEF Working
  <2>5. NamedIsStored'
    BY <1>1, <1>3, ContinueFacts, StillNamed DEF Lost
  <2> QED
    BY <2>1, <2>2, <2>3, <2>4, <2>5 DEF IInv
<1> QED
  BY <1>2, <1>3 DEF PoolTimeout

LEMMA NextIInv == IInv /\ [Next]_vars => IInv'
<1> SUFFICES ASSUME IInv, [Next]_vars PROVE IInv'
  OBVIOUS
<1>1. CASE \E c \in Calls :
              \/ CheckIdempotency(c) \/ SelectIncident(c) \/ FlushIncident(c)
              \/ MarkRead(c) \/ MarkWrite(c) \/ CommitNew(c) \/ CommitUpdate(c)
              \/ PoolTimeout(c) \/ SaveFails(c) \/ CommitUnheard(c) \/ Crash(c)
  BY <1>1, PoolTimeoutIInv, CheckIdempotencyIInv, SelectIncidentIInv, FlushIncidentIInv, MarkReadIInv,
     MarkWriteIInv, CommitNewIInv, CommitUpdateIInv, SaveFailsIInv, CommitUnheardIInv,
     CrashIInv
<1>2. CASE \E i \in Ids : UpdateIncidentStatus(i)
  BY <1>2, UpdateIncidentStatusIInv
<1>3. CASE UNCHANGED vars
  BY <1>3 DEF vars, IInv, TypeOK, MarkForm, LoadedIsOpen, FoundIsStored, IdReserved,
              NamedIsStored, AloneAtWork, LoadedIsCurrent
<1> QED
  BY <1>1, <1>2, <1>3 DEF Next, Step

-----------------------------------------------------------------------------
\* Every variable of the store keeps its type, whichever calls overlap or fail.
THEOREM TypeCorrect == Spec => []TypeOK
<1>1. IInv => TypeOK
  BY DEF IInv
<1> QED
  BY <1>1, InitIInv, NextIInv, PTL DEF Spec

\* A PROCESSED record never names an incident that was not stored, is not about to be
\* committed and was not lost with a call: save_incident returns no invented id.
THEOREM RecordNamesIncident == Spec => []NamedIsStored
<1>1. IInv => NamedIsStored
  BY DEF IInv
<1> QED
  BY <1>1, InitIInv, NextIInv, PTL DEF Spec

\* Once processed, a key's record changes no more as long as calls of the key do not
\* overlap, although mark_processing reads and writes it in two requests.
THEOREM ProcessedStays == Spec => ProcessedIsFinal
<1>1. ASSUME IInv, [Next]_vars
      PROVE  [\A k \in Keys : processing[k].status = "PROCESSED" /\ overlap[k] <= 1 =>
                  processing'[k] = processing[k]]_vars
  <2>1. CASE UNCHANGED processing
    BY <2>1
  <2>2. CASE \E c \in Calls : MarkWrite(c)
    <3>1. PICK c \in Calls : MarkWrite(c)
      BY <2>2
    <3>2. Key[c] \in Keys
      BY StoreAssumption
    <3>3. \A k \in Keys : k # Key[c] => processing'[k] = processing[k]
      BY <1>1, <3>1 DEF MarkWrite, IInv, TypeOK
    <3>4. overlap[Key[c]] <= 1 => processing[Key[c]].status # "PROCESSED"
      <4>1. loaded[c] \in {Absent, FailedMark}
        BY <1>1, <3>1 DEF IInv, LoadedIsOpen, MarkWrite
      <4>2. overlap[Key[c]] <= 1 => processing[Key[c]] \in {Absent, FailedMark}
        BY <1>1, <3>1, <4>1 DEF IInv, LoadedIsCurrent, MarkWrite
      <4> QED
        BY <4>2 DEF Absent, FailedMark
    <3> QED
      BY <3>3, <3>4
  <2>3. UNCHANGED processing \/ \E c \in Calls : MarkWrite(c)
    BY <1>1 DEF Next, Step, vars, PoolTimeout, CheckIdempotency, SelectIncident, FlushIncident, MarkRead,
                CommitNew, CommitUpdate, SaveFails, CommitUnheard, Crash,
                UpdateIncidentStatus
  <2> QED
    BY <2>1, <2>2, <2>3
<1> QED
  BY <1>1, InitIInv, NextIInv, PTL DEF Spec, ProcessedIsFinal

-----------------------------------------------------------------------------
(* Decisions.                                                              *)

\* Nothing has disturbed the calls of a key.
Quiet(k) == overlap[k] <= 1 /\ failures = 0 /\ crashes = 0 /\ ~starved

\* What is stored is recorded as PROCESSED before the next call looks, so no call ever
\* finds an incident to update.
QuietAt(k) ==
    Quiet(k) =>
        /\ \A i \in Ids : rows[i].key = k => Done(k)
        /\ \A c \in Calls : Key[c] = k =>
              /\ pc[c] \notin {"updating", "updated"}
              /\ pc[c] = "marked" => Done(k)
              /\ pc[c] \in {"checked", "creating", "flushed", "failing"} => ~Done(k)

QuietIInv == \A k \in Keys : QuietAt(k)

\* A step that leaves a key's calls, rows and record alone.
LEMMA QuietElsewhere ==
    ASSUME NEW k \in Keys, QuietAt(k), Quiet(k)' => Quiet(k), UNCHANGED processing[k],
           \A d \in Calls : Key[d] = k => pc'[d] = pc[d],
           \A i \in Ids : rows'[i].key = k => rows[i].key = k
    PROVE  QuietAt(k)'
  BY DEF QuietAt, Done

\* What a step of a call may change: its own place, the record and the rows of its key.
LEMMA StepStaysAtKey ==
    ASSUME IInv, NEW c \in Calls, Step(c), NEW k \in Keys, k # Key[c]
    PROVE  /\ Quiet(k)' => Quiet(k)
           /\ processing'[k] = processing[k]
           /\ \A d \in Calls : Key[d] = k => pc'[d] = pc[d]
           /\ \A i \in Ids : rows'[i].key = k => rows[i].key = k
<1>1. \A d \in Calls : d # c => pc'[d] = pc[d]
  <2>1. CASE pc[c] \in {"flushed", "updated", "failing"} /\ Continue(c)
    BY <2>1, ContinueFacts
  <2>2. CASE UNCHANGED pc
    BY <2>2
  <2>3. CASE \E where \in {"checked", "creating", "updating", "failing", "flushed", "updated",
                           "returned", "raised"} : pc' = [pc EXCEPT ![c] = where]
    BY <2>3 DEF IInv, TypeOK
  <2>4. loaded[c] # Unread => pc[c] \in {"flushed", "updated", "failing"}
    BY DEF IInv, LoadedIsOpen
  <2> QED
    BY <2>1, <2>2, <2>3, <2>4
       DEF Step, CheckIdempotency, SelectIncident, FlushIncident, MarkRead,
           MarkWrite, CommitNew, CommitUpdate, PoolTimeout, Returns, At
<1>2. processing'[k] = processing[k] /\ overlap'[k] = overlap[k]
  BY DEF IInv, TypeOK, Step, CheckIdempotency, SelectIncident, FlushIncident, MarkRead,
         MarkWrite, CommitNew, CommitUpdate, PoolTimeout
<1>3. /\ failures \in Nat /\ starved \in BOOLEAN /\ crashes' = crashes
      /\ failures' = failures \/ failures' = failures + 1
      /\ starved' = starved \/ starved' = TRUE
  <2>1. failures \in Nat /\ crashes' = crashes /\ (failures' = failures \/ failures' = failures + 1)
    BY DEF IInv, TypeOK, Step, CheckIdempotency, SelectIncident, FlushIncident, MarkRead,
           MarkWrite, CommitNew, CommitUpdate, PoolTimeout
  <2>2. starved' = starved \/ starved' = TRUE
    BY DEF Step, CheckIdempotency, SelectIncident, FlushIncident, MarkRead,
           MarkWrite, CommitNew, CommitUpdate, PoolTimeout
  <2> QED
    BY <2>1, <2>2 DEF IInv, TypeOK
<1>4. \A i \in Ids : rows'[i].key = k => rows[i].key = k
  <2>1. CASE UNCHANGED rows
    BY <2>1
  <2>2. CASE CommitNew(c)
    BY <2>2 DEF CommitNew, NewRows, IInv, TypeOK
  <2>3. CASE CommitUpdate(c)
    BY <2>3 DEF CommitUpdate, UpdatedRows, WithStatus, IInv, TypeOK
  <2> QED
    BY <2>1, <2>2, <2>3 DEF Step, CheckIdempotency, SelectIncident, FlushIncident, MarkRead,
                            MarkWrite, PoolTimeout
<1> QED
  BY <1>1, <1>2, <1>3, <1>4 DEF Quiet

LEMMA QuietCheck ==
    ASSUME IInv, QuietIInv, NEW c \in Calls, CheckIdempotency(c)
    PROVE  QuietAt(Key[c])'
<1> DEFINE k == Key[c]
           others == Cardinality(AtWork(k))
<1> SUFFICES ASSUME Quiet(k)' PROVE QuietAt(k)'
  BY DEF QuietAt
<1>1. /\ k \in Keys /\ overlap[k] \in Nat /\ others \in Nat
      /\ UNCHANGED <<rows, processing, starved, failures, crashes>>
      /\ \A d \in Calls : d # c => pc'[d] = pc[d]
  BY FieldTypes, AtWorkCount DEF CheckIdempotency, Returns, At, IInv, TypeOK
<1>5. \/ pc'[c] = "returned"
      \/ pc'[c] = "checked" /\ ~Done(k)
  BY DEF CheckIdempotency, Returns, At, IInv, TypeOK
<1>2. overlap'[k] \in Nat /\ overlap'[k] >= overlap[k]
  BY <1>1 DEF CheckIdempotency, IInv, TypeOK
<1>3. Quiet(k)
  BY <1>1, <1>2 DEF Quiet
<1>4. Done(k)' <=> Done(k)
  BY <1>1 DEF Done
<1> QED
  BY <1>1, <1>3, <1>4, <1>5 DEF QuietAt, QuietIInv

LEMMA QuietSelect ==
    ASSUME IInv, QuietIInv, NEW c \in Calls, SelectIncident(c)
    PROVE  QuietAt(Key[c])'
<1> DEFINE k == Key[c]
<1> SUFFICES ASSUME Quiet(k)' PROVE QuietAt(k)'
  BY DEF QuietAt
<1>1. /\ k \in Keys /\ pc[c] = "checked"
      /\ UNCHANGED <<rows, processing, overlap, starved, failures, crashes>>
      /\ \A d \in Calls : d # c => pc'[d] = pc[d]
  BY FieldTypes DEF SelectIncident, At, IInv, TypeOK
<1>2. Quiet(k)
  BY <1>1 DEF Quiet
<1>3. ~Done(k) /\ \A i \in Ids : rows[i].key # k
  BY <1>1, <1>2 DEF QuietIInv, QuietAt
<1>4. Existing(c) = {}
  BY <1>3 DEF Existing
<1>5. pc'[c] = "creating"
  <2>1. Cardinality(Existing(c)) = 0
    BY <1>4, FS_EmptySet
  <2> QED
    BY <1>4, <2>1 DEF SelectIncident, At, IInv, TypeOK
<1>6. ~Done(k)'
  BY <1>1, <1>3 DEF Done
<1> QED
  BY <1>1, <1>2, <1>3, <1>5, <1>6 DEF QuietIInv, QuietAt

LEMMA QuietFlush ==
    ASSUME IInv, QuietIInv, NEW c \in Calls, FlushIncident(c)
    PROVE  QuietAt(Key[c])'
<1> DEFINE k == Key[c]
<1>1. /\ k \in Keys /\ pc[c] = "creating"
      /\ UNCHANGED <<rows, processing, overlap, starved, failures, crashes>>
      /\ \A d \in Calls : d # c => pc'[d] = pc[d]
      /\ pc'[c] \in {"flushed", "failing"}
  BY FieldTypes DEF FlushIncident, At, IInv, TypeOK
<1>2. Quiet(k)' => Quiet(k)
  BY <1>1 DEF Quiet
<1>3. Done(k)' <=> Done(k)
  BY <1>1 DEF Done
<1> QED
  BY <1>1, <1>2, <1>3 DEF QuietIInv, QuietAt

LEMMA QuietCommit ==
    ASSUME IInv, QuietIInv, NEW c \in Calls, CommitNew(c) \/ CommitUpdate(c)
    PROVE  QuietAt(Key[c])'
<1> DEFINE k == Key[c]
<1> SUFFICES ASSUME Quiet(k)' PROVE QuietAt(k)'
  BY DEF QuietAt
<1>1. /\ k \in Keys
      /\ UNCHANGED <<processing, overlap, starved, failures, crashes>>
      /\ \A d \in Calls : d # c => pc'[d] = pc[d]
  BY FieldTypes DEF CommitNew, CommitUpdate, Returns, At, IInv, TypeOK
<1>2. Quiet(k)
  BY <1>1 DEF Quiet
<1>3. CommitNew(c) /\ pc[c] = "marked" /\ pc'[c] = "returned"
  BY <1>1, <1>2 DEF QuietIInv, QuietAt, CommitNew, CommitUpdate, Returns, At, IInv, TypeOK
<1>4. Done(k) /\ Done(k)'
  BY <1>1, <1>2, <1>3 DEF QuietIInv, QuietAt, Done
<1> QED
  BY <1>1, <1>2, <1>3, <1>4 DEF QuietIInv, QuietAt

LEMMA FinalIsDone ==
    ASSUME IInv, NEW k \in Keys
    PROVE  Final(processing[k]) <=> Done(k)
<1>1. \/ processing[k] \in {Absent, FailedMark}
      \/ processing[k].status = "PROCESSED" /\ processing[k].incident \in Ids
  BY DEF IInv, MarkForm
<1> QED
  BY <1>1, StoreAssumption DEF Final, Done, Absent, FailedMark

LEMMA QuietMarkRead ==
    ASSUME IInv, QuietIInv, NEW c \in Calls, MarkRead(c)
    PROVE  QuietAt(Key[c])'
<1> DEFINE k == Key[c]
<1> SUFFICES ASSUME Quiet(k)' PROVE QuietAt(k)'
  BY DEF QuietAt
<1>1. /\ k \in Keys /\ pc[c] \in {"flushed", "updated", "failing"}
      /\ UNCHANGED <<rows, processing, overlap, starved, failures, crashes>>
  BY StoreAssumption DEF MarkRead
<1>2. Quiet(k)
  BY <1>1 DEF Quiet
<1>3. ~Done(k)
  BY <1>1, <1>2 DEF QuietIInv, QuietAt
<1>4. UNCHANGED pc
  BY <1>1, <1>3, FinalIsDone DEF MarkRead
<1>5. Done(k)' <=> Done(k)
  BY <1>1 DEF Done
<1> QED
  BY <1>1, <1>2, <1>4, <1>5 DEF QuietIInv, QuietAt

LEMMA QuietMarkWrite ==
    ASSUME IInv, QuietIInv, NEW c \in Calls, MarkWrite(c)
    PROVE  QuietAt(Key[c])'
<1> DEFINE k == Key[c]
<1> SUFFICES ASSUME Quiet(k)' PROVE QuietAt(k)'
  BY DEF QuietAt
<1>1. /\ k \in Keys /\ loaded[c] # Unread /\ Continue(c) /\ failures \in Nat
      /\ UNCHANGED <<rows, overlap, starved, crashes>>
      /\ pc[c] \in {"flushed", "updated", "failing"}
  BY FieldTypes DEF MarkWrite, IInv, TypeOK, LoadedIsOpen
<1>2. /\ processing' = [processing EXCEPT ![k] = Marked(c, @)] /\ failures' = failures
  BY <1>1 DEF MarkWrite, Quiet
<1>3. Quiet(k)
  BY <1>1, <1>2 DEF Quiet
<1>4. /\ ~Done(k) /\ pc[c] \in {"flushed", "failing"}
      /\ \A i \in Ids : rows[i].key # k
  BY <1>1, <1>3 DEF QuietIInv, QuietAt
<1>5. processing'[k] = Marked(c, processing[k])
  BY <1>1, <1>2 DEF IInv, TypeOK
<1>6. loaded[c] = processing[k] /\ loaded[c] \in {Absent, FailedMark}
  BY <1>1, <1>3 DEF IInv, LoadedIsCurrent, LoadedIsOpen, Quiet
<1>7. \A d \in Calls : d # c => pc'[d] = pc[d]
  BY <1>1 DEF Continue, At, Returns, IInv, TypeOK
<1>8. \A d \in Calls : d # c /\ Key[d] = k => pc'[d] \notin Working
  BY <1>1, <1>3, <1>7 DEF IInv, AloneAtWork, Quiet, Working
<1>9. CASE pc[c] = "flushed"
  <2>1. pc'[c] = "marked"
    BY <1>1, <1>9, ContinueFacts
  <2>2. MarkedId(c) = Id[c] /\ Id[c] \in Ids /\ Id[c] # NoId
    BY <1>9, FieldTypes DEF MarkedId, IInv
  <2>3. Marked(c, processing[k]).status = "PROCESSED" /\ Marked(c, processing[k]).incident = Id[c]
    BY <1>6, <1>9, <2>2 DEF Marked, Absent, FailedMark
  <2>4. Done(k)'
    BY <1>5, <2>2, <2>3 DEF Done
  <2> QED
    BY <1>8, <2>1, <2>4 DEF QuietAt, Working
<1>10. CASE pc[c] = "failing"
  <2>1. pc'[c] = "raised"
    BY <1>1, <1>10, ContinueFacts
  <2>2. \A i \in Ids : rows'[i].key # k
    BY <1>1, <1>4
  <2> QED
    BY <1>8, <2>1, <2>2 DEF QuietAt, Working
<1> QED
  BY <1>4, <1>9, <1>10

LEMMA NextQuietIInv == IInv /\ QuietIInv /\ [Next]_vars => QuietIInv'
<1> SUFFICES ASSUME IInv, QuietIInv, [Next]_vars, NEW k \in Keys PROVE QuietAt(k)'
  BY DEF QuietIInv
<1>1. ASSUME NEW c \in Calls, Step(c) PROVE QuietAt(k)'
  <2>1. CASE k # Key[c]
    BY <1>1, <2>1, StepStaysAtKey, QuietElsewhere DEF QuietIInv
  <2>2. CASE PoolTimeout(c)
    BY <2>2 DEF PoolTimeout, QuietAt, Quiet
  <2>3. CASE k = Key[c] /\ ~PoolTimeout(c)
    BY <1>1, <2>3, QuietCheck, QuietSelect, QuietFlush, QuietCommit, QuietMarkRead,
       QuietMarkWrite DEF Step
  <2> QED
    BY <2>1, <2>2, <2>3
<1>2. ASSUME NEW c \in Calls, SaveFails(c) \/ CommitUnheard(c) \/ Crash(c)
      PROVE  QuietAt(k)'
  <2>1. failures \in Nat /\ crashes \in Nat
    BY DEF IInv, TypeOK
  <2>2. failures' = failures + 1 \/ crashes' = crashes + 1
    BY <1>2 DEF SaveFails, CommitUnheard, Crash
  <2> QED
    BY <2>1, <2>2 DEF QuietAt, Quiet
<1>3. ASSUME NEW i \in Ids, UpdateIncidentStatus(i) PROVE QuietAt(k)'
  <2>1. \A j \in Ids : rows'[j].key = rows[j].key
    BY <1>3 DEF UpdateIncidentStatus, WithStatus, IInv, TypeOK
  <2>2. Quiet(k)' => Quiet(k)
    BY <1>3 DEF UpdateIncidentStatus, Quiet
  <2> QED
    BY <1>3, <2>1, <2>2, QuietElsewhere DEF UpdateIncidentStatus, QuietIInv
<1>4. CASE UNCHANGED vars
  BY <1>4 DEF vars, QuietIInv, QuietAt, Quiet, Done
<1> QED
  BY <1>1, <1>2, <1>3, <1>4 DEF Next

LEMMA InitQuietIInv == Init => QuietIInv
  BY StoreAssumption DEF Init, QuietIInv, QuietAt, NoRow

\* A decision survives every later save of its incident as long as calls of the key
\* neither overlap nor fail nor wait in vain: such a save never gets to write the row.
THEOREM DecisionsSurvive == Spec => DecisionStands
<1>1. ASSUME IInv, QuietIInv, [Next]_vars
      PROVE  [\A i \in Ids :
                 rows[i].status = "DECIDED" /\ overlap[rows[i].key] <= 1
                 /\ failures + crashes = 0 /\ ~starved =>
                     rows'[i] = rows[i]]_vars
  <2> SUFFICES ASSUME NEW i \in Ids, rows[i].status = "DECIDED", overlap[rows[i].key] <= 1,
                      failures + crashes = 0, ~starved
               PROVE  rows'[i] = rows[i]
    OBVIOUS
  <2>1. rows[i] \in Rows /\ rows[i] # NoRow /\ rows[i].key \in Keys
    BY <1>1 DEF IInv, TypeOK, Rows, NoRow
  <2>2. failures = 0 /\ crashes = 0
    BY <1>1 DEF IInv, TypeOK
  <2>3. Quiet(rows[i].key)
    BY <2>2 DEF Quiet
  <2>4. ASSUME NEW c \in Calls, pc[c] = "marked", rows' = NewRows(c) PROVE rows'[i] = rows[i]
    <3>1. rows[Id[c]] = NoRow
      BY <1>1, <2>4 DEF IInv, IdReserved
    <3> QED
      BY <1>1, <2>1, <2>4, <3>1 DEF NewRows, IInv, TypeOK
  <2>5. ASSUME NEW c \in Calls, pc[c] = "updating", rows' = UpdatedRows(c)
        PROVE  rows'[i] = rows[i]
    <3>1. rows[found[c].id].key = Key[c]
      BY <1>1, <2>5 DEF IInv, FoundIsStored
    <3>2. Key[c] # rows[i].key
      BY <1>1, <2>1, <2>3, <2>5, <3>1 DEF QuietIInv, QuietAt
    <3> QED
      BY <1>1, <2>5, <3>1, <3>2 DEF UpdatedRows, IInv, TypeOK
  <2>6. ASSUME NEW j \in Ids, UpdateIncidentStatus(j) PROVE rows'[i] = rows[i]
    <3>1. rows[i] \in [key: Keys, status: {"OPEN_PENDING", "DECIDED"}]
      BY <2>1 DEF Rows
    <3>2. WithStatus(rows[i], "DECIDED") = rows[i]
      BY <3>1 DEF WithStatus
    <3> QED
      BY <1>1, <2>6, <3>2 DEF UpdateIncidentStatus, IInv, TypeOK
  <2> QED
    BY <1>1, <2>4, <2>5, <2>6
       DEF Next, Step, vars, CheckIdempotency, SelectIncident, FlushIncident, MarkRead, MarkWrite,
           CommitNew, CommitUpdate, CommitUnheard, PoolTimeout, SaveFails, Crash
<1> QED
  BY <1>1, InitIInv, NextIInv, InitQuietIInv, NextQuietIInv, PTL DEF Spec, DecisionStands

-----------------------------------------------------------------------------
(* Duplicates.                                                             *)

RowsOf(k) == {i \in Ids : rows[i].key = k}
Inserting(k) == {c \in Calls : Key[c] = k /\ pc[c] \in {"creating", "flushed", "marked"}}

\* A call only becomes an insert while no row of its key is stored, next to the calls at
\* work; from then on each insert becomes a row or is given up.
CountAt(k) ==
    /\ IsFiniteSet(RowsOf(k))
    /\ Cardinality(AtWork(k)) <= overlap[k]
    /\ Cardinality(RowsOf(k)) + Cardinality(Inserting(k)) <= overlap[k]

CountIInv == \A k \in Keys : CountAt(k)

LEMMA CallSets ==
    ASSUME NEW k
    PROVE  /\ AtWork(k) \in SUBSET Calls /\ Inserting(k) \in SUBSET AtWork(k)
           /\ IsFiniteSet(AtWork(k)) /\ IsFiniteSet(Inserting(k))
           /\ Cardinality(AtWork(k)) \in Nat /\ Cardinality(Inserting(k)) \in Nat
           /\ Cardinality(Inserting(k)) <= Cardinality(AtWork(k))
<1>1. AtWork(k) \in SUBSET Calls /\ Inserting(k) \in SUBSET AtWork(k)
  BY DEF AtWork, Inserting, Working
<1>2. IsFiniteSet(AtWork(k))
  BY <1>1, StoreAssumption, FS_Subset
<1> QED
  BY <1>1, <1>2, FS_Subset, FS_CardinalityType

LEMMA CallSetsPrimed ==
    ASSUME NEW k
    PROVE  /\ IsFiniteSet(AtWork(k)') /\ IsFiniteSet(Inserting(k)')
           /\ Cardinality(AtWork(k)') \in Nat /\ Cardinality(Inserting(k)') \in Nat
           /\ Cardinality(Inserting(k)') <= Cardinality(AtWork(k)')
<1>1. AtWork(k)' \in SUBSET Calls /\ Inserting(k)' \in SUBSET AtWork(k)'
  BY DEF AtWork, Inserting, Working
<1>2. IsFiniteSet(AtWork(k)')
  BY <1>1, StoreAssumption, FS_Subset
<1> QED
  BY <1>1, <1>2, FS_Subset, FS_CardinalityType

\* A step that brings no row, no insert and no call to work.
LEMMA CountStays ==
    ASSUME CountIInv, IInv, NEW k \in Keys, RowsOf(k)' = RowsOf(k),
           AtWork(k)' \subseteq AtWork(k), Inserting(k)' \subseteq Inserting(k),
           overlap'[k] = overlap[k]
    PROVE  CountAt(k)'
<1>1. /\ Cardinality(AtWork(k)') <= Cardinality(AtWork(k))
      /\ Cardinality(Inserting(k)') <= Cardinality(Inserting(k))
  BY CallSets, FS_Subset
<1>2. /\ Cardinality(AtWork(k)) \in Nat /\ Cardinality(AtWork(k)') \in Nat
      /\ Cardinality(Inserting(k)) \in Nat /\ Cardinality(Inserting(k)') \in Nat
  BY CallSets, CallSetsPrimed
<1>3. IsFiniteSet(RowsOf(k)) /\ Cardinality(RowsOf(k)) \in Nat
  BY FS_CardinalityType DEF CountIInv, CountAt
<1>4. overlap[k] \in Nat
  <2>1. Cardinality(Calls) \in Nat
    BY StoreAssumption, FS_CardinalityType
  <2> QED
    BY <2>1 DEF IInv, TypeOK
<1>5. /\ Cardinality(AtWork(k)) <= overlap[k]
      /\ Cardinality(RowsOf(k)) + Cardinality(Inserting(k)) <= overlap[k]
  BY DEF CountIInv, CountAt
<1>6. Cardinality(RowsOf(k)') = Cardinality(RowsOf(k)) /\ IsFiniteSet(RowsOf(k)')
  BY <1>3
<1>7. /\ Cardinality(AtWork(k)') <= overlap'[k]
      /\ Cardinality(RowsOf(k)') + Cardinality(Inserting(k)') <= overlap'[k]
  BY <1>1, <1>2, <1>3, <1>4, <1>5, <1>6
<1> QED
  BY <1>6, <1>7 DEF CountAt

\* Where a call goes decides all of it while the rows keep their keys.
LEMMA CountMoves ==
    ASSUME CountIInv, IInv, NEW k \in Keys, UNCHANGED overlap,
           \A i \in Ids : rows'[i].key = rows[i].key,
           \A d \in Calls : /\ pc'[d] \in Working => pc[d] \in Working
                            /\ pc'[d] \in {"creating", "flushed", "marked"} =>
                                   pc[d] \in {"creating", "flushed", "marked"}
    PROVE  CountAt(k)'
<1>1. RowsOf(k)' = RowsOf(k)
  BY DEF RowsOf
<1>2. AtWork(k)' \subseteq AtWork(k) /\ Inserting(k)' \subseteq Inserting(k)
  BY DEF AtWork, Inserting
<1> QED
  BY <1>1, <1>2, CountStays

LEMMA CountCheck ==
    ASSUME CountIInv, IInv, NEW c \in Calls, CheckIdempotency(c), NEW k \in Keys
    PROVE  CountAt(k)'
<1> DEFINE others == Cardinality(AtWork(Key[c]))
<1>1. /\ pc[c] = "called" /\ UNCHANGED rows
      /\ \A d \in Calls : d # c => pc'[d] = pc[d]
  BY DEF CheckIdempotency, Returns, At, IInv, TypeOK
<1>2. RowsOf(k)' = RowsOf(k)
  BY <1>1 DEF RowsOf
<1>3. CASE UNCHANGED overlap /\ pc'[c] = "returned"
  BY <1>1, <1>3, CountMoves DEF Working
<1>4. CASE /\ pc'[c] = "checked"
           /\ overlap' = [overlap EXCEPT ![Key[c]] = IF @ > others THEN @ ELSE others + 1]
  <2>1. Inserting(k)' = Inserting(k)
    BY <1>1, <1>4 DEF Inserting
  <2>2. CASE k # Key[c]
    <3>1. AtWork(k)' = AtWork(k)
      BY <1>1, <1>4, <2>2 DEF AtWork
    <3>2. overlap'[k] = overlap[k]
      BY <1>4, <2>2 DEF IInv, TypeOK
    <3> QED
      BY <1>2, <2>1, <3>1, <3>2, CountStays
  <2>3. CASE k = Key[c]
    <3>1. AtWork(k)' = AtWork(k) \cup {c} /\ c \notin AtWork(k)
      BY <1>1, <1>4, <2>3 DEF AtWork, Working
    <3>2. Cardinality(AtWork(k)') = others + 1
      BY <2>3, <3>1, CallSets, FS_AddElement
    <3>3. others \in Nat /\ overlap[k] \in Nat
      BY <2>3, CallSets, FieldTypes DEF IInv
    <3>4. overlap'[k] = IF overlap[k] > others THEN overlap[k] ELSE others + 1
      BY <1>4, <2>3 DEF IInv, TypeOK
    <3>5. /\ IsFiniteSet(RowsOf(k)) /\ Cardinality(RowsOf(k)) \in Nat
          /\ Cardinality(Inserting(k)) \in Nat
          /\ Cardinality(RowsOf(k)) + Cardinality(Inserting(k)) <= overlap[k]
      BY CallSets, FS_CardinalityType DEF CountIInv, CountAt
    <3>6. Cardinality(AtWork(k)') <= overlap'[k] /\ overlap[k] <= overlap'[k]
      BY <3>2, <3>3, <3>4
    <3>7. Cardinality(RowsOf(k)) + Cardinality(Inserting(k)) <= overlap'[k]
      BY <3>3, <3>4, <3>5
    <3> QED
      BY <1>2, <2>1, <3>5, <3>6, <3>7 DEF CountAt
  <2> QED
    BY <2>2, <2>3
<1> QED
  BY <1>3, <1>4 DEF CheckIdempotency, Returns, At, IInv, TypeOK

LEMMA CountSelect ==
    ASSUME CountIInv, IInv, NEW c \in Calls, SelectIncident(c), NEW k \in Keys
    PROVE  CountAt(k)'
<1>1. /\ pc[c] = "checked" /\ UNCHANGED <<rows, overlap>>
      /\ \A d \in Calls : d # c => pc'[d] = pc[d]
  BY DEF SelectIncident, At, IInv, TypeOK
<1>2. RowsOf(k)' = RowsOf(k)
  BY <1>1 DEF RowsOf
<1>3. CASE pc'[c] \in {"updating", "failing"}
  BY <1>1, <1>3, CountMoves DEF Working
<1>4. CASE pc'[c] = "creating" /\ Existing(c) = {}
  <2>1. AtWork(k)' = AtWork(k)
    BY <1>1, <1>4 DEF AtWork, Working
  <2>2. CASE k # Key[c]
    <3>1. Inserting(k)' = Inserting(k)
      BY <1>1, <1>4, <2>2 DEF Inserting
    <3> QED
      BY <1>1, <1>2, <2>1, <3>1, CountStays
  <2>3. CASE k = Key[c]
    <3>1. RowsOf(k) = {}
      BY <1>4, <2>3 DEF RowsOf, Existing
    <3>2. IsFiniteSet(RowsOf(k)') /\ Cardinality(RowsOf(k)') = 0
      BY <1>2, <3>1, FS_EmptySet
    <3>3. Cardinality(AtWork(k)') <= overlap'[k]
      BY <1>1, <2>1 DEF CountIInv, CountAt
    <3>4. overlap'[k] \in Nat
      BY <1>1, <2>3, FieldTypes DEF IInv
    <3>5. Cardinality(RowsOf(k)') + Cardinality(Inserting(k)') <= overlap'[k]
      BY <3>2, <3>3, <3>4, CallSetsPrimed
    <3> QED
      BY <3>2, <3>3, <3>5 DEF CountAt
  <2> QED
    BY <2>2, <2>3
<1> QED
  BY <1>3, <1>4 DEF SelectIncident, At, IInv, TypeOK

LEMMA CountCommit ==
    ASSUME CountIInv, IInv, NEW c \in Calls, NEW k \in Keys,
           CommitNew(c) \/ (CommitUnheard(c) /\ pc[c] = "marked")
    PROVE  CountAt(k)'
<1>1. /\ pc[c] = "marked" /\ pc'[c] \in {"returned", "failing"} /\ UNCHANGED overlap
      /\ \A d \in Calls : d # c => pc'[d] = pc[d]
      /\ \A i \in Ids : i # Id[c] => rows'[i] = rows[i]
      /\ rows'[Id[c]].key = Key[c] /\ Id[c] \in Ids
  BY FieldTypes DEF CommitNew, CommitUnheard, NewRows, Returns, At, IInv, TypeOK
<1>2. rows[Id[c]].key \notin Keys
  BY <1>1, StoreAssumption DEF IInv, IdReserved, NoRow
<1>3. AtWork(k)' \subseteq AtWork(k)
  BY <1>1 DEF AtWork, Working
<1>4. CASE k # Key[c]
  <2>1. RowsOf(k)' = RowsOf(k)
    BY <1>1, <1>2, <1>4 DEF RowsOf
  <2>2. Inserting(k)' = Inserting(k)
    BY <1>1, <1>4 DEF Inserting
  <2> QED
    BY <1>1, <1>3, <2>1, <2>2, CountStays
<1>5. CASE k = Key[c]
  <2>1. RowsOf(k)' = RowsOf(k) \cup {Id[c]} /\ Id[c] \notin RowsOf(k)
    BY <1>1, <1>2, <1>5 DEF RowsOf
  <2>2. Inserting(k)' = Inserting(k) \ {c} /\ c \in Inserting(k)
    BY <1>1, <1>5 DEF Inserting
  <2>3. IsFiniteSet(RowsOf(k)) /\ Cardinality(RowsOf(k)) \in Nat
    BY FS_CardinalityType DEF CountIInv, CountAt
  <2>4. IsFiniteSet(RowsOf(k)') /\ Cardinality(RowsOf(k)') = Cardinality(RowsOf(k)) + 1
    <3>1. /\ IsFiniteSet(RowsOf(k) \cup {Id[c]})
          /\ Cardinality(RowsOf(k) \cup {Id[c]}) = Cardinality(RowsOf(k)) + 1
      BY <2>1, <2>3, FS_AddElement
    <3> QED
      BY <2>1, <3>1
  <2>5. Cardinality(Inserting(k)') = Cardinality(Inserting(k)) - 1
    BY <2>2, CallSets, FS_RemoveElement
  <2>6. Cardinality(Inserting(k)) \in Nat /\ overlap[k] \in Nat
    BY <1>5, CallSets, FieldTypes DEF IInv
  <2>7. Cardinality(RowsOf(k)) + Cardinality(Inserting(k)) <= overlap'[k]
    BY <1>1 DEF CountIInv, CountAt
  <2>8. Cardinality(RowsOf(k)') + Cardinality(Inserting(k)') <= overlap'[k]
    BY <2>3, <2>4, <2>5, <2>6, <2>7
  <2>9. Cardinality(AtWork(k)') <= overlap'[k]
    <3>1. Cardinality(AtWork(k)') <= Cardinality(AtWork(k))
      BY <1>3, CallSets, FS_Subset
    <3>2. Cardinality(AtWork(k)) <= overlap'[k]
      BY <1>1 DEF CountIInv, CountAt
    <3> QED
      BY <1>1, <2>6, <3>1, <3>2, CallSets, CallSetsPrimed
  <2> QED
    BY <2>4, <2>8, <2>9 DEF CountAt
<1> QED
  BY <1>4, <1>5

LEMMA NextCountIInv == IInv /\ CountIInv /\ [Next]_vars => CountIInv'
<1> SUFFICES ASSUME IInv, CountIInv, [Next]_vars, NEW k \in Keys PROVE CountAt(k)'
  BY DEF CountIInv
<1>1. ASSUME NEW c \in Calls, FlushIncident(c) \/ SaveFails(c) \/ Crash(c) PROVE CountAt(k)'
  <2>1. UNCHANGED <<rows, overlap>> /\ pc[c] \in Working
    BY <1>1 DEF FlushIncident, SaveFails, Crash, Working
  <2>2. \A d \in Calls : d # c => pc'[d] = pc[d]
    BY <1>1 DEF FlushIncident, SaveFails, Crash, At, IInv, TypeOK
  <2>3. \/ pc'[c] \in {"failing", "crashed"}
        \/ pc[c] = "creating" /\ pc'[c] = "flushed"
    BY <1>1 DEF FlushIncident, SaveFails, Crash, At, IInv, TypeOK
  <2> QED
    BY <2>1, <2>2, <2>3, CountMoves
<1>2. ASSUME NEW c \in Calls, MarkRead(c) \/ MarkWrite(c) \/ PoolTimeout(c) PROVE CountAt(k)'
  <2>1. UNCHANGED <<rows, overlap>>
    BY <1>2 DEF MarkRead, MarkWrite, PoolTimeout
  <2>2. CASE UNCHANGED pc
    BY <2>1, <2>2, CountMoves
  <2>3. CASE pc[c] \in {"flushed", "updated", "failing"} /\ Continue(c)
    BY <2>1, <2>3, ContinueFacts, CountMoves DEF Working
  <2>4. CASE \/ pc[c] = "called" /\ At(c, "raised")
             \/ pc[c] = "checked" /\ At(c, "failing")
    BY <2>1, <2>4, CountMoves DEF At, IInv, TypeOK, Working
  <2>5. loaded[c] # Unread => pc[c] \in {"flushed", "updated", "failing"}
    BY DEF IInv, LoadedIsOpen
  <2> QED
    BY <1>2, <2>2, <2>3, <2>4, <2>5 DEF MarkRead, MarkWrite, PoolTimeout
<1>3. ASSUME NEW c \in Calls, CommitUpdate(c) \/ (CommitUnheard(c) /\ pc[c] = "updating")
      PROVE  CountAt(k)'
  <2>1. \A i \in Ids : rows'[i].key = rows[i].key
    BY <1>3 DEF CommitUpdate, CommitUnheard, UpdatedRows, WithStatus, IInv, TypeOK
  <2> QED
    BY <1>3, <2>1, CountMoves DEF CommitUpdate, CommitUnheard, At, IInv, TypeOK, Working
<1>4. ASSUME NEW i \in Ids, UpdateIncidentStatus(i) PROVE CountAt(k)'
  <2>1. \A j \in Ids : rows'[j].key = rows[j].key
    BY <1>4 DEF UpdateIncidentStatus, WithStatus, IInv, TypeOK
  <2> QED
    BY <1>4, <2>1, CountMoves DEF UpdateIncidentStatus
<1>5. CASE UNCHANGED vars
  BY <1>5, CountMoves DEF vars
<1>6. ASSUME NEW c \in Calls, CommitUnheard(c) PROVE CountAt(k)'
  <2>1. pc[c] = "marked" \/ pc[c] = "updating"
    BY <1>6 DEF CommitUnheard
  <2> QED
    BY <1>3, <1>6, <2>1, CountCommit
<1> QED
  BY <1>1, <1>2, <1>3, <1>4, <1>5, <1>6, CountCheck, CountSelect, CountCommit DEF Next, Step

LEMMA InitCountIInv == Init => CountIInv
<1> SUFFICES ASSUME Init, NEW k \in Keys PROVE CountAt(k)
  BY DEF CountIInv
<1>1. AtWork(k) = {} /\ Inserting(k) = {} /\ overlap[k] = 0
  BY DEF Init, AtWork, Inserting, Working
<1>2. RowsOf(k) = {}
  BY StoreAssumption DEF Init, RowsOf, NoRow
<1> QED
  BY <1>1, <1>2, FS_EmptySet DEF CountAt

\* The table stores no more incidents of a key than calls of it were at work at once,
\* however many fail, crash, wait in vain or are tried again.
THEOREM OverlapBoundsDuplicates == Spec => []DuplicatesOverlap
<1>1. IInv /\ CountIInv => DuplicatesOverlap
  <2> SUFFICES ASSUME IInv, CountIInv, NEW k \in Keys
               PROVE  Cardinality(RowsOf(k)) <= overlap[k]
    BY DEF DuplicatesOverlap, RowsOf
  <2>1. overlap[k] \in Nat
    <3>1. Cardinality(Calls) \in Nat
      BY StoreAssumption, FS_CardinalityType
    <3> QED
      BY <3>1 DEF IInv, TypeOK
  <2>2. /\ Cardinality(RowsOf(k)) \in Nat
        /\ Cardinality(RowsOf(k)) + Cardinality(Inserting(k)) <= overlap[k]
    BY FS_CardinalityType DEF CountIInv, CountAt
  <2> QED
    BY <2>1, <2>2, CallSets
<1> QED
  BY <1>1, InitIInv, NextIInv, InitCountIInv, NextCountIInv, PTL DEF Spec
=============================================================================
