---------------------------- MODULE IncidentStore ----------------------------
(***************************************************************************)
(* save_incident of DatabaseService (src/database/service.py) with the     *)
(* IdempotencyService (src/database/idempotency.py), which keeps its own   *)
(* record of every deduplication key in transactions of its own.           *)
(*                                                                         *)
(* Calls stands for calls of save_incident by tasks of one or several      *)
(* workers; every await on the database is a step, and a task may be       *)
(* cancelled or its process may die at any of them.  Each call of a worker *)
(* that raised is tried again, if at all, as another call of the same key. *)
(***************************************************************************)
EXTENDS Naturals, FiniteSets

CONSTANTS
    Calls,
    Keys, Key,        \* [Calls -> Keys] cluster_key
    Ids, Id,          \* [Calls -> Ids] incident_id; it has a resolution of one second
    NoId,
    PoolSize,         \* connections of the pool: pool_size and max_overflow, 30
    MaxFailures,      \* bound: database requests that fail
    MaxCrashes,       \* bound: calls that are cancelled or die with their process
    MaxDecisions      \* bound: changes of status by analysts and triage

ASSUME StoreAssumption ==
    /\ IsFiniteSet(Calls) /\ "none" \notin Keys
    /\ Key \in [Calls -> Keys] /\ Id \in [Calls -> Ids] /\ NoId \notin Ids
    /\ PoolSize \in Nat \ {0}
    /\ MaxFailures \in Nat /\ MaxCrashes \in Nat /\ MaxDecisions \in Nat

VARIABLES
    rows,             \* [Ids -> Row] committed rows of the incidents table
    processing,       \* [Keys -> Mark] the event_processing table
    pc,               \* [Calls -> where the call is]
    found,            \* [Calls -> [id, status]] the row a call has selected
    loaded,           \* [Calls -> Mark] the record mark_processing has read
    returned,         \* [Calls -> Ids \cup {NoId}]
    overlap,          \* auxiliary: [Keys -> Nat] most calls of the key at work at once
    starved,          \* auxiliary: a request has waited for a connection in vain
    failures, crashes, decisions

vars == <<rows, processing, pc, found, loaded, returned, overlap, starved, failures, crashes,
          decisions>>

NoRow  == [key |-> "none", status |-> "none"]
Absent == [status |-> "ABSENT", incident |-> NoId]
Unread == [status |-> "UNREAD", incident |-> NoId]

Rows  == [key: Keys, status: {"OPEN_PENDING", "DECIDED"}] \cup {NoRow}
Marks == [status: {"PROCESSED", "FAILED"}, incident: Ids \cup {NoId}] \cup {Absent}

Working == {"checked", "creating", "flushed", "marked", "updating", "updated", "failing"}
Ended   == {"returned", "raised", "crashed"}

TypeOK ==
    /\ rows \in [Ids -> Rows]
    /\ processing \in [Keys -> Marks]
    /\ pc \in [Calls -> {"called"} \cup Working \cup Ended]
    /\ found \in [Calls -> [id: Ids \cup {NoId}, status: {"none", "OPEN_PENDING", "DECIDED"}]]
    /\ loaded \in [Calls -> Marks \cup {Unread}]
    /\ returned \in [Calls -> Ids \cup {NoId}]
    /\ overlap \in [Keys -> 0..Cardinality(Calls)]
    /\ starved \in BOOLEAN /\ failures \in 0..MaxFailures /\ crashes \in 0..MaxCrashes
    /\ decisions \in 0..MaxDecisions

Init ==
    /\ rows = [i \in Ids |-> NoRow]
    /\ processing = [k \in Keys |-> Absent]
    /\ pc = [c \in Calls |-> "called"]
    /\ found = [c \in Calls |-> [id |-> NoId, status |-> "none"]]
    /\ loaded = [c \in Calls |-> Unread]
    /\ returned = [c \in Calls |-> NoId]
    /\ overlap = [k \in Keys |-> 0] /\ starved = FALSE
    /\ failures = 0 /\ crashes = 0 /\ decisions = 0

AtWork(k) == {c \in Calls : Key[c] = k /\ pc[c] \in Working}
At(c, where) == pc' = [pc EXCEPT ![c] = where]
Returns(c, i) == At(c, "returned") /\ returned' = [returned EXCEPT ![c] = i]

\* The connections in use.  A session takes one with its first request and gives it back
\* when it commits, rolls back or is closed: the transaction of a new incident keeps its
\* own while the record is marked over another.
Holding == {"creating", "updating", "flushed", "marked"}
InUse == Cardinality({c \in Calls : pc[c] \in Holding})
             + Cardinality({c \in Calls : loaded[c] # Unread})
HasConnection == InUse < PoolSize

\* Mutant: the idempotency record is not consulted.
NeverDone(k) == FALSE

\* What save_incident makes of check_idempotency.
Done(k) == processing[k].status = "PROCESSED" /\ processing[k].incident # NoId

CheckIdempotency(c) ==
    LET others == Cardinality(AtWork(Key[c])) IN
    /\ pc[c] = "called" /\ HasConnection
    /\ \/ /\ Done(Key[c])
          /\ Returns(c, processing[Key[c]].incident)
          /\ UNCHANGED overlap
       \/ /\ ~Done(Key[c])
          /\ At(c, "checked")
          /\ overlap' = [overlap EXCEPT ![Key[c]] = IF @ > others THEN @ ELSE others + 1]
          /\ UNCHANGED returned
    /\ UNCHANGED <<rows, processing, found, loaded, starved, failures, crashes, decisions>>

\* Mutant: incidents are looked up by their id.
RowsOfCall(c) == {i \in {Id[c]} : rows[i] # NoRow}

Existing(c) == {i \in Ids : rows[i].key = Key[c]}

\* The select by cluster_key, which expects one row at most.
SelectIncident(c) ==
    /\ pc[c] = "checked" /\ HasConnection
    /\ \/ Existing(c) = {} /\ At(c, "creating") /\ UNCHANGED found
       \/ \E i \in Existing(c) :
             /\ Existing(c) = {i}
             /\ At(c, "updating")
             /\ found' = [found EXCEPT ![c] = [id |-> i, status |-> rows[i].status]]
       \/ Cardinality(Existing(c)) > 1 /\ At(c, "failing") /\ UNCHANGED found
    /\ UNCHANGED <<rows, processing, loaded, returned, overlap, starved, failures, crashes,
                   decisions>>

\* The insert waits for an open transaction that inserted the same id, and fails when
\* that id is taken.
FlushIncident(c) ==
    /\ pc[c] = "creating"
    /\ \A d \in Calls : pc[d] \in {"flushed", "marked"} => Id[d] # Id[c]
    /\ At(c, IF rows[Id[c]] = NoRow THEN "flushed" ELSE "failing")
    /\ UNCHANGED <<rows, processing, found, loaded, returned, overlap, starved, failures, crashes,
                   decisions>>

NewRows(c) == [rows EXCEPT ![Id[c]] = [key |-> Key[c], status |-> "OPEN_PENDING"]]

CommitNew(c) ==
    /\ pc[c] = "marked"
    /\ rows' = NewRows(c)
    /\ Returns(c, Id[c])
    /\ UNCHANGED <<processing, found, loaded, overlap, starved, failures, crashes,
                   decisions>>

WithStatus(row, status) == [key |-> row.key, status |-> status]

\* The session writes the status only when it differs from the one it has loaded.
UpdatedRows(c) ==
    IF found[c].status = "OPEN_PENDING" THEN rows
    ELSE [rows EXCEPT ![found[c].id] = WithStatus(@, "OPEN_PENDING")]

CommitUpdate(c) ==
    /\ pc[c] = "updating"
    /\ At(c, "updated")
    /\ rows' = UpdatedRows(c)
    /\ UNCHANGED <<processing, found, loaded, returned, overlap, starved, failures, crashes,
                   decisions>>

-----------------------------------------------------------------------------
(* mark_processing, in a session and transaction of its own.               *)

\* Mutant: a processed record is marked again.
NeverFinal(mark) == FALSE

Final(mark) == mark.status = "PROCESSED"

\* Where the call goes on after the marking, whether it succeeded or not.
Continue(c) ==
    /\ loaded' = [loaded EXCEPT ![c] = Unread]
    /\ CASE pc[c] = "flushed" -> At(c, "marked") /\ UNCHANGED returned
         [] pc[c] = "updated" -> Returns(c, found[c].id)
         [] pc[c] = "failing" -> At(c, "raised") /\ UNCHANGED returned

MarkRead(c) ==
    /\ pc[c] \in {"flushed", "updated", "failing"} /\ loaded[c] = Unread
    /\ HasConnection
    /\ IF Final(processing[Key[c]]) THEN Continue(c)
       ELSE /\ loaded' = [loaded EXCEPT ![c] = processing[Key[c]]]
            /\ UNCHANGED <<pc, returned>>
    /\ UNCHANGED <<rows, processing, found, overlap, starved, failures, crashes, decisions>>

\* Mutant: the record names the incident of the call, also after an update.
OwnId(c) == IF pc[c] = "failing" THEN NoId ELSE Id[c]

MarkedId(c) ==
    CASE pc[c] = "flushed" -> Id[c] [] pc[c] = "updated" -> found[c].id [] OTHER -> NoId

\* The record after the write: an insert loses against an earlier one, an update writes
\* the fields that differ from what was read.
Marked(c, old) ==
    LET new == IF pc[c] = "failing" THEN "FAILED" ELSE "PROCESSED"
        id  == IF MarkedId(c) = NoId THEN loaded[c].incident ELSE MarkedId(c)
    IN  IF loaded[c] = Absent
        THEN IF old = Absent THEN [status |-> new, incident |-> MarkedId(c)] ELSE old
        ELSE [status   |-> IF new = loaded[c].status THEN old.status ELSE new,
              incident |-> IF id = loaded[c].incident THEN old.incident ELSE id]

MarkWrite(c) ==
    /\ loaded[c] # Unread
    /\ \/ processing' = [processing EXCEPT ![Key[c]] = Marked(c, @)] /\ UNCHANGED failures
       \/ failures < MaxFailures /\ failures' = failures + 1 /\ UNCHANGED processing
    /\ Continue(c)
    /\ UNCHANGED <<rows, found, overlap, starved, crashes, decisions>>

-----------------------------------------------------------------------------
\* Mutant: a request waits for a connection for as long as it takes.
WaitsForEver(c) == FALSE

\* pool_timeout has passed: a check raises, a select rolls the incident back, and a marking
\* returns as if the record had been written.
PoolTimeout(c) ==
    /\ ~HasConnection
    /\ starved' = TRUE
    /\ \/ pc[c] = "called" /\ At(c, "raised") /\ UNCHANGED <<loaded, returned>>
       \/ pc[c] = "checked" /\ At(c, "failing") /\ UNCHANGED <<loaded, returned>>
       \/ pc[c] \in {"flushed", "updated", "failing"} /\ loaded[c] = Unread /\ Continue(c)
    /\ UNCHANGED <<rows, processing, found, overlap, failures, crashes, decisions>>

\* A request of the incident's transaction fails without effect: roll back, mark_failed, raise.
SaveFails(c) ==
    /\ failures < MaxFailures /\ failures' = failures + 1
    /\ pc[c] \in {"checked", "creating", "marked", "updating"}
    /\ At(c, "failing")
    /\ UNCHANGED <<rows, processing, found, loaded, returned, overlap, starved, crashes,
                   decisions>>

\* A commit takes effect and raises all the same: only its answer was lost.
CommitUnheard(c) ==
    /\ failures < MaxFailures /\ failures' = failures + 1
    /\ \/ pc[c] = "marked" /\ rows' = NewRows(c)
       \/ pc[c] = "updating" /\ rows' = UpdatedRows(c)
    /\ At(c, "failing")
    /\ UNCHANGED <<processing, found, loaded, returned, overlap, starved, crashes, decisions>>

Crash(c) ==
    /\ crashes < MaxCrashes /\ crashes' = crashes + 1
    /\ pc[c] \in Working
    /\ At(c, "crashed")
    /\ loaded' = [loaded EXCEPT ![c] = Unread]
    /\ UNCHANGED <<rows, processing, found, returned, overlap, starved, failures, decisions>>

\* update_incident_status and update_incident_feedback, by analysts and the LLM triage.
UpdateIncidentStatus(i) ==
    /\ decisions < MaxDecisions /\ decisions' = decisions + 1
    /\ rows[i] # NoRow
    /\ rows' = [rows EXCEPT ![i] = WithStatus(@, "DECIDED")]
    /\ UNCHANGED <<processing, pc, found, loaded, returned, overlap, starved, failures, crashes>>

Step(c) ==
    \/ CheckIdempotency(c) \/ SelectIncident(c) \/ FlushIncident(c)
    \/ MarkRead(c) \/ MarkWrite(c) \/ CommitNew(c) \/ CommitUpdate(c)
    \/ PoolTimeout(c)

Next ==
    \/ \E c \in Calls : Step(c) \/ SaveFails(c) \/ CommitUnheard(c) \/ Crash(c)
    \/ \E i \in Ids : UpdateIncidentStatus(i)

\* The database answers and the event loop schedules every task.
Spec == Init /\ [][Next]_vars /\ \A c \in Calls : WF_vars(Step(c))

-----------------------------------------------------------------------------
(* Properties.                                                             *)

\* The table has no unique constraint on cluster_key, so calls of one key that overlap
\* can each insert an incident; only they can: failures and crashes alone never cause a
\* duplicate.
DuplicatesOverlap ==
    \A k \in Keys : Cardinality({i \in Ids : rows[i].key = k}) <= overlap[k]

\* A PROCESSED record names an incident that is stored, is about to be committed, or was
\* lost with the call that marked it.
NamedIsStored ==
    \A k \in Keys : processing[k].status = "PROCESSED" =>
        \/ rows[processing[k].incident].key = k
        \/ \E c \in Calls : /\ Id[c] = processing[k].incident /\ Key[c] = k
                            /\ pc[c] \in {"marked", "failing", "raised", "crashed"}

\* As long as its calls do not overlap, the record of a processed key never changes,
\* whatever fails later.
ProcessedIsFinal ==
    [][\A k \in Keys : processing[k].status = "PROCESSED" /\ overlap[k] <= 1 =>
          processing'[k] = processing[k]]_vars

\* An analyst's decision is not undone by saving the same incident again, as long as
\* calls of its key do not overlap, no request fails and none waits in vain.
DecisionStands ==
    [][\A i \in Ids :
          rows[i].status = "DECIDED" /\ overlap[rows[i].key] <= 1
          /\ failures + crashes = 0 /\ ~starved =>
              rows'[i] = rows[i]]_vars

\* service.py:1150: a save ends, although it holds the connection of its transaction
\* while it waits for another, and the pool may be in the hands of saves that all do so,
\* or that wait for the row it is inserting.
SavesEnd == \A c \in Calls : pc[c] \in Working ~> pc[c] \in Ended

\* idempotency.py:3 "Ensures exactly-once processing even with retries/failover": when
\* no call of a processed key is at work, its incident is stored.
ProcessedOnce ==
    \A k \in Keys : processing[k].status = "PROCESSED" /\ AtWork(k) = {} =>
        \E i \in Ids : rows[i].key = k
=============================================================================
