---------------------------- MODULE Guardian_proofs ----------------------------
(***************************************************************************)
(* For every set of configurations and settings, any number of responses   *)
(* and changes, and every order of requests: a response is decided once, a *)
(* large loss is acted on only when approved, a pause that is reported was *)
(* done for a protocol that is registered then, and manual pauses keep the *)
(* cooldown. Every step of the system changes the history in one of three  *)
(* ways (HistoryStep); the first three theorems only speak of those.       *)
(***************************************************************************)
EXTENDS Guardian, FiniteSetTheorems, TLAPS

Entry == [id: Protocols, config: ProtocolConfig]

ResponseTypes ==
    /\ protocols \in Seq(Entry)
    /\ records \in Seq(Records)
    /\ pending_approvals \in [Ids -> Nat]
    /\ sweep.todo \subseteq DOMAIN protocols

ResponseIInv == ResponseTypes /\ PendingIsOpen /\ LargeLossIsApproved

ConfigStays == protocols' \in Seq(Entry) /\ sweep'.todo \subseteq DOMAIN protocols'

\* What a step may put into the history.
Sound(r) ==
    /\ r \in Records
    /\ r.loss = 1 /\ r.status = "success" => r.approved
    /\ r.action = "pause_contract" /\ r.status = "success" =>
          \E c \in Registered : /\ Matches(c, r.protocol, r.contract)
                                /\ PauseTarget(c) \in onchain'

\* A response joins the history, pending or not; a pending one is decided; or nothing.
Joins(r, id) ==
    /\ Sound(r) /\ records' = Append(records, r)
    /\ \/ pending_approvals' = pending_approvals
       \/ /\ pending_approvals' = [pending_approvals EXCEPT ![id] = Len(records) + 1]
          /\ r.status = "requires_approval"

IsDecided(d, id) ==
    /\ pending_approvals[id] # 0 /\ Sound(d)
    /\ records' = [records EXCEPT ![pending_approvals[id]] = d]
    /\ pending_approvals' = [pending_approvals EXCEPT ![id] = 0]

HistoryStep ==
    \/ UNCHANGED <<records, pending_approvals>>
    \/ \E r, id : Joins(r, id)
    \/ \E d, id : id \in Ids /\ IsDecided(d, id)

-----------------------------------------------------------------------------
(* Finding a protocol.                                                     *)

LEMMA LeastPosition ==
    ASSUME NEW S, S \subseteq Nat, S # {}
    PROVE  \E i \in S : \A j \in S : i <= j
<1> DEFINE T == {0..i : i \in S}
<1>1. \A i \in S : IsFiniteSet(0..i) /\ 0..i \in SUBSET Nat
  BY FS_Interval
<1>2. T \subseteq FiniteSubsetsOf(Nat) /\ T # {}
  BY <1>1 DEF FiniteSubsetsOf
<1>3. PICK x \in T : \A y \in T : ~(<<y, x>> \in StrictSubsetOrdering(Nat))
  BY <1>2, FS_StrictSubsetOrderingWellFounded, WFMin
<1>4. PICK i \in S : x = 0..i
  OBVIOUS
<1>5. ASSUME NEW j \in S, j < i PROVE FALSE
  <2>1. 0..j \in T /\ 0..j \subseteq 0..i /\ i \in 0..i /\ i \notin 0..j
    BY <1>5
  <2>2. <<0..j, x>> \in StrictSubsetOrdering(Nat)
    BY <1>1, <1>4, <2>1 DEF StrictSubsetOrdering
  <2> QED
    BY <1>3, <2>1, <2>2
<1> QED
  BY <1>5

LEMMA ConfigsAreTyped ==
    ASSUME protocols \in Seq(Entry)
    PROVE  Registered \subseteq ProtocolConfig
           /\ \A i \in DOMAIN protocols : protocols[i].config \in Registered
<1>1. \A i \in DOMAIN protocols : protocols[i] \in Entry
  OBVIOUS
<1>2. \A i \in DOMAIN protocols : protocols[i].config \in ProtocolConfig
  BY <1>1 DEF Entry
<1> QED
  BY <1>2 DEF Registered

LEMMA MatchingFacts ==
    ASSUME protocols \in Seq(Entry), NEW name, NEW contract, Known(name, contract)
    PROVE  Matching(name, contract) \in Registered
           /\ Matches(Matching(name, contract), name, contract)
<1> DEFINE hits == {i \in DOMAIN protocols : Matches(protocols[i].config, name, contract)}
<1>1. DOMAIN protocols = 1..Len(protocols) /\ Len(protocols) \in Nat
  OBVIOUS
<1>2. hits # {} /\ hits \subseteq Nat
  BY <1>1 DEF Known, Registered
<1>3. \E i \in hits : \A j \in hits : i <= j
  BY <1>2, LeastPosition
<1> DEFINE k == CHOOSE i \in hits : \A j \in hits : i <= j
<1>4. k \in hits
  BY <1>3
<1>5. Matching(name, contract) = protocols[k].config
  BY DEF Matching
<1> HIDE DEF k
<1> QED
  BY <1>4, <1>5 DEF Registered

-----------------------------------------------------------------------------
(* The history under the steps.                                            *)

LEMMA RecordsGrow ==
    ASSUME ResponseIInv, ConfigStays, NEW r, NEW id, Joins(r, id)
    PROVE  ResponseIInv'
<1> USE DEF ResponseIInv
<1>1. records \in Seq(Records) /\ Len(records) \in Nat /\ r \in Records
      /\ pending_approvals \in [Ids -> Nat] /\ DOMAIN records = 1..Len(records)
      /\ records' = Append(records, r)
      /\ \/ pending_approvals' = pending_approvals
         \/ /\ pending_approvals' = [pending_approvals EXCEPT ![id] = Len(records) + 1]
            /\ r.status = "requires_approval"
  BY DEF ResponseTypes, Sound, Joins
<1>2. /\ records' \in Seq(Records) /\ Len(records') = Len(records) + 1
      /\ DOMAIN records' = 1..(Len(records) + 1)
      /\ \A i \in 1..Len(records) : records'[i] = records[i]
      /\ records'[Len(records) + 1] = r
  BY <1>1
<1>3. pending_approvals' \in [Ids -> Nat]
  BY <1>1
<1>4. ResponseTypes'
  BY <1>2, <1>3 DEF ResponseTypes, ConfigStays
<1>5. ASSUME NEW i \in DOMAIN records'
      PROVE  (i \in DOMAIN records /\ records'[i] = records[i])
             \/ (i = Len(records) + 1 /\ records'[i] = r)
  BY <1>1, <1>2, <1>5
<1>6. LargeLossIsApproved'
  <2> SUFFICES ASSUME NEW i \in DOMAIN records', records'[i].loss = 1,
                      records'[i].status = "success"
               PROVE  records'[i].approved
    BY DEF LargeLossIsApproved
  <2>1. CASE i \in DOMAIN records /\ records'[i] = records[i]
    BY <2>1 DEF LargeLossIsApproved
  <2>2. CASE records'[i] = r
    BY <2>2 DEF Sound, Joins
  <2> QED
    BY <1>5, <2>1, <2>2
<1>7. PendingIsOpen'
  <2> DEFINE P == pending_approvals
             P1 == pending_approvals'
  <2>1. ASSUME NEW d \in Ids, P[d] # 0
        PROVE  /\ P[d] \in 1..Len(records) /\ records[P[d]].status = "requires_approval"
               /\ \A e \in Ids : P[e] = P[d] => e = d
    <3>1. P[d] \in Nat /\ P[d] <= Len(records)
      BY <1>1, <2>1 DEF PendingIsOpen
    <3> QED
      BY <1>1, <2>1, <3>1 DEF PendingIsOpen
  <2>2. ASSUME NEW d \in Ids, P1[d] # 0
        PROVE  \/ P1[d] = P[d]
               \/ P1[d] = Len(records) + 1 /\ d = id /\ r.status = "requires_approval"
    BY <1>1, <2>2
  <2> SUFFICES ASSUME NEW d \in Ids, P1[d] # 0
               PROVE  /\ P1[d] <= Len(records')
                      /\ records'[P1[d]].status = "requires_approval"
                      /\ \A e \in Ids : P1[e] = P1[d] => e = d
    BY DEF PendingIsOpen
  <2>3. CASE P1[d] = P[d]
    <3>1. /\ P[d] \in 1..Len(records) /\ records'[P[d]].status = "requires_approval"
          /\ P1[d] <= Len(records')
      BY <1>1, <1>2, <2>1, <2>3
    <3>2. ASSUME NEW e \in Ids, P1[e] = P1[d] PROVE e = d
      <4>1. P1[e] # Len(records) + 1
        BY <1>1, <2>3, <3>1, <3>2
      <4>2. P1[e] = P[e]
        BY <2>2, <3>2, <4>1
      <4> QED
        BY <2>1, <2>3, <3>2, <4>2
    <3> QED
      BY <2>3, <3>1, <3>2
  <2>4. CASE P1[d] = Len(records) + 1 /\ d = id /\ r.status = "requires_approval"
    <3>1. ASSUME NEW e \in Ids, P1[e] = P1[d] PROVE e = d
      <4>1. P1[e] # 0
        BY <3>1
      <4>2. CASE P1[e] = P[e]
        <5>1. P[e] \in 1..Len(records)
          BY <2>1, <4>1, <4>2
        <5> QED
          BY <1>1, <2>4, <3>1, <4>2, <5>1
      <4> QED
        BY <2>2, <2>4, <4>1, <4>2
    <3> QED
      BY <1>1, <1>2, <2>4, <3>1
  <2> QED
    BY <2>2, <2>3, <2>4
<1> QED
  BY <1>4, <1>6, <1>7

LEMMA RecordDecided ==
    ASSUME ResponseIInv, ConfigStays, NEW d, NEW id \in Ids, IsDecided(d, id)
    PROVE  ResponseIInv'
<1> USE DEF ResponseIInv
<1> DEFINE P == pending_approvals
           i == pending_approvals[id]
<1>1. /\ records \in Seq(Records) /\ P \in [Ids -> Nat] /\ d \in Records
      /\ DOMAIN records = 1..Len(records) /\ Len(records) \in Nat
      /\ i # 0 /\ records' = [records EXCEPT ![i] = d]
      /\ pending_approvals' = [pending_approvals EXCEPT ![id] = 0]
  BY DEF ResponseTypes, Sound, IsDecided
<1>2. i \in 1..Len(records)
  BY <1>1 DEF PendingIsOpen
<1>3. /\ records' \in Seq(Records) /\ DOMAIN records' = DOMAIN records
      /\ Len(records') = Len(records)
      /\ records'[i] = d /\ \A j \in DOMAIN records : j # i => records'[j] = records[j]
  BY <1>1, <1>2
<1>4. /\ pending_approvals' \in [Ids -> Nat] /\ pending_approvals'[id] = 0
      /\ \A e \in Ids : e # id => pending_approvals'[e] = P[e]
  BY <1>1
<1>5. ResponseTypes'
  BY <1>3, <1>4 DEF ResponseTypes, ConfigStays
<1>6. LargeLossIsApproved'
  <2> SUFFICES ASSUME NEW j \in DOMAIN records, records'[j].loss = 1,
                      records'[j].status = "success"
               PROVE  records'[j].approved
    BY <1>3 DEF LargeLossIsApproved
  <2>1. CASE j = i
    BY <1>3, <2>1 DEF Sound, IsDecided
  <2>2. CASE j # i
    BY <1>3, <2>2 DEF LargeLossIsApproved
  <2> QED
    BY <2>1, <2>2
<1>7. PendingIsOpen'
  <2> SUFFICES ASSUME NEW e \in Ids, pending_approvals'[e] # 0
               PROVE  /\ pending_approvals'[e] <= Len(records')
                      /\ records'[pending_approvals'[e]].status = "requires_approval"
                      /\ \A f \in Ids : pending_approvals'[f] = pending_approvals'[e] => f = e
    BY DEF PendingIsOpen
  <2>1. e # id /\ pending_approvals'[e] = P[e]
    BY <1>4
  <2>2. /\ P[e] <= Len(records) /\ records[P[e]].status = "requires_approval"
        /\ \A f \in Ids : P[f] = P[e] => f = e
    BY <2>1 DEF PendingIsOpen
  <2>3. P[e] \in DOMAIN records /\ P[e] # i
    BY <1>1, <2>1, <2>2
  <2>4. records'[P[e]] = records[P[e]]
    BY <1>3, <2>3
  <2>5. \A f \in Ids : pending_approvals'[f] = P[e] => f = e
    BY <1>4, <2>1, <2>2
  <2> QED
    BY <1>3, <2>1, <2>2, <2>4, <2>5
<1> QED
  BY <1>5, <1>6, <1>7

LEMMA HistoryIInv ==
    ASSUME ResponseIInv, ConfigStays, HistoryStep
    PROVE  ResponseIInv'
<1>1. CASE UNCHANGED <<records, pending_approvals>>
  BY <1>1 DEF ResponseIInv, ResponseTypes, ConfigStays, PendingIsOpen, LargeLossIsApproved
<1> QED
  BY <1>1, RecordsGrow, RecordDecided DEF HistoryStep

\* What carrying out a response reports, and what it does.
LEMMA ExecutedFacts ==
    ASSUME NEW action \in Actions, NEW c, NEW outcome
    PROVE  /\ ExecutedStatus(action, c, outcome) \in {"success", "failed"}
           /\ action = "pause_contract" /\ ExecutedStatus(action, c, outcome) = "success" =>
                  PauseTarget(c) \in PausedAfter(action, c, outcome)
  BY DEF ExecutedStatus, PausedAfter

LEMMA RecordFacts ==
    ASSUME NEW name \in Names, NEW contract \in Contracts, NEW action \in Actions,
           NEW status \in {"requires_approval", "success", "failed"}, NEW loss \in Losses
    PROVE  LET r == Record(name, contract, action, status, loss)
           IN  /\ r \in Records /\ r.protocol = name /\ r.contract = contract
               /\ r.action = action /\ r.status = status /\ r.loss = loss
  BY DEF Record, Records

LEMMA HandleStep ==
    ASSUME protocols \in Seq(Entry), NEW prefix, NEW severity, NEW name \in Names,
           NEW contract \in Contracts, NEW loss \in Losses, NEW outcome,
           HandleIncident(prefix, severity, name, contract, loss, outcome)
    PROVE  HistoryStep
<1> DEFINE config == Matching(name, contract)
           action == DeterminedAction(severity, config)
<1>1. CASE ~Known(name, contract) \/ action = "alert_only"
  BY <1>1 DEF HandleIncident, HistoryStep
<1>2. CASE Known(name, contract) /\ action # "alert_only"
  <2>1. config \in Registered /\ config \in ProtocolConfig /\ Matches(config, name, contract)
    BY <1>2, MatchingFacts, ConfigsAreTyped
  <2>2. action \in Actions
    BY <1>2 DEF DeterminedAction, Actions
  <2>3. /\ ExecutesAtOnce(config, loss) =>
              /\ records' = Append(records, Record(name, contract, action,
                                ExecutedStatus(action, config, outcome), loss))
              /\ onchain' = PausedAfter(action, config, outcome)
              /\ UNCHANGED pending_approvals
        /\ ~ExecutesAtOnce(config, loss) =>
              /\ records' = Append(records, Record(name, contract, action,
                                "requires_approval", loss))
              /\ pending_approvals' = [pending_approvals EXCEPT ![<<prefix, now>>] =
                                                         Len(records) + 1]
    BY <1>2 DEF HandleIncident
  <2> HIDE DEF config, action
  <2>4. CASE ExecutesAtOnce(config, loss)
    <3> DEFINE status == ExecutedStatus(action, config, outcome)
               r == Record(name, contract, action, status, loss)
    <3>1. loss = 0
      <4>1. config.threshold \in {0, 1} /\ loss < config.threshold
        BY <2>1, <2>4 DEF ExecutesAtOnce, ProtocolConfig
      <4> QED
        BY <4>1 DEF Losses
    <3>2. /\ status \in {"success", "failed"}
          /\ action = "pause_contract" /\ status = "success" => PauseTarget(config) \in onchain'
      BY <2>2, <2>3, <2>4, ExecutedFacts
    <3>3. records' = Append(records, r) /\ UNCHANGED pending_approvals
      BY <2>3, <2>4
    <3> HIDE DEF status
    <3>4. /\ r \in Records /\ r.protocol = name /\ r.contract = contract
          /\ r.action = action /\ r.status = status /\ r.loss = loss
      BY <2>2, <3>2, RecordFacts
    <3> HIDE DEF r
    <3>5. Sound(r)
      BY <2>1, <3>1, <3>2, <3>4 DEF Sound
    <3>6. Joins(r, <<prefix, now>>)
      BY <3>3, <3>5 DEF Joins
    <3> QED
      BY <3>6 DEF HistoryStep
  <2>5. CASE ~ExecutesAtOnce(config, loss)
    <3> DEFINE r == Record(name, contract, action, "requires_approval", loss)
    <3>1. /\ r \in Records /\ r.status = "requires_approval"
      BY <2>2, RecordFacts
    <3>2. records' = Append(records, r)
          /\ pending_approvals' = [pending_approvals EXCEPT ![<<prefix, now>>] =
                                                         Len(records) + 1]
      BY <2>3, <2>5
    <3> HIDE DEF r
    <3>3. Joins(r, <<prefix, now>>)
      BY <3>1, <3>2 DEF Sound, Joins
    <3> QED
      BY <3>3 DEF HistoryStep
  <2> QED
    BY <2>4, <2>5
<1> QED
  BY <1>1, <1>2

LEMMA HandleForStep ==
    ASSUME protocols \in Seq(Entry), NEW prefix, NEW i \in DOMAIN protocols, NEW outcome,
           HandleFor(prefix, protocols[i].config, outcome)
    PROVE  HistoryStep
<1> DEFINE c == protocols[i].config
<1>1. c.name \in Names /\ c.contract \in Contracts /\ 0 \in Losses
  BY ConfigsAreTyped DEF ProtocolConfig, Losses
<1>2. HandleIncident(prefix, "critical", c.name, c.contract, 0, outcome)
  BY DEF HandleFor
<1> QED
  BY <1>1, <1>2, HandleStep

LEMMA DecidedFacts ==
    ASSUME NEW r \in Records, NEW status \in {"success", "failed"}, NEW approved \in BOOLEAN
    PROVE  LET d == Decided(r, status, approved)
           IN  /\ d \in Records /\ d.protocol = r.protocol /\ d.contract = r.contract
               /\ d.action = r.action /\ d.status = status /\ d.loss = r.loss
               /\ d.approved = approved
  BY DEF Decided, Records

LEMMA ApproveStep ==
    ASSUME ResponseIInv, NEW id \in Ids, NEW outcome, ApproveResponse(id, outcome)
    PROVE  HistoryStep
<1> DEFINE i == pending_approvals[id]
           r == records[i]
           c == Matching(r.protocol, r.contract)
           status == ExecutedStatus(r.action, c, outcome)
           d == Decided(r, status, TRUE)
<1>1. /\ i # 0 /\ Known(r.protocol, r.contract)
      /\ records' = [records EXCEPT ![i] = d]
      /\ onchain' = PausedAfter(r.action, c, outcome)
      /\ pending_approvals' = [pending_approvals EXCEPT ![id] = 0]
  BY DEF ApproveResponse, NotPending
<1>2. r \in Records /\ r.action \in Actions
  <2>1. i \in DOMAIN records
    BY <1>1 DEF ResponseIInv, ResponseTypes, PendingIsOpen
  <2>2. r \in Records
    BY <2>1 DEF ResponseIInv, ResponseTypes
  <2> QED
    BY <2>2 DEF Records
<1>3. c \in Registered /\ Matches(c, r.protocol, r.contract)
  BY <1>1, MatchingFacts DEF ResponseIInv, ResponseTypes
<1>4. /\ status \in {"success", "failed"}
      /\ r.action = "pause_contract" /\ status = "success" => PauseTarget(c) \in onchain'
  BY <1>1, <1>2, ExecutedFacts
<1> HIDE DEF c, status
<1>5. /\ d \in Records /\ d.protocol = r.protocol /\ d.contract = r.contract
      /\ d.action = r.action /\ d.status = status /\ d.approved = TRUE
  BY <1>2, <1>4, DecidedFacts
<1> HIDE DEF d, r
<1>6. Sound(d)
  BY <1>3, <1>4, <1>5 DEF Sound
<1>7. IsDecided(d, id)
  BY <1>1, <1>6 DEF IsDecided
<1> QED
  BY <1>7 DEF HistoryStep

LEMMA RejectStep ==
    ASSUME ResponseIInv, NEW id \in Ids, RejectResponse(id)
    PROVE  HistoryStep
<1> DEFINE i == pending_approvals[id]
           d == Decided(records[i], "failed", FALSE)
<1>1. /\ i # 0 /\ records' = [records EXCEPT ![i] = d]
      /\ pending_approvals' = [pending_approvals EXCEPT ![id] = 0]
  BY DEF RejectResponse, NotPending
<1>2. i \in DOMAIN records /\ records[i] \in Records
  BY <1>1 DEF ResponseIInv, ResponseTypes, PendingIsOpen
<1>3. d \in Records /\ d.status = "failed"
  BY <1>2, DecidedFacts
<1> HIDE DEF d
<1>4. IsDecided(d, id)
  BY <1>1, <1>3 DEF IsDecided, Sound
<1> QED
  BY <1>4 DEF HistoryStep

LEMMA PauseProtocolStep ==
    ASSUME ResponseIInv, NEW p \in Protocols, NEW force, NEW outcome,
           PauseProtocol(p, force, outcome)
    PROVE  HistoryStep
<1>1. PICK i \in Positions(p) :
          LET c == protocols[i].config
          IN  \/ HandleFor(PausePrefix[p], c, outcome)
              \/ /\ records' = Append(records, Record(c.name, c.contract, "pause_contract",
                                                     "requires_approval", 0))
                 /\ pending_approvals' = [pending_approvals EXCEPT ![<<p, now>>] =
                                                         Len(records) + 1]
  BY DEF PauseProtocol
<1>2. protocols \in Seq(Entry) /\ i \in DOMAIN protocols
  BY DEF ResponseIInv, ResponseTypes, Positions
<1> DEFINE c == protocols[i].config
           r == Record(c.name, c.contract, "pause_contract", "requires_approval", 0)
<1>3. CASE HandleFor(PausePrefix[p], c, outcome)
  BY <1>2, <1>3, HandleForStep
<1>4. CASE records' = Append(records, r)
           /\ pending_approvals' = [pending_approvals EXCEPT ![<<p, now>>] = Len(records) + 1]
  <2>1. c.name \in Names /\ c.contract \in Contracts
    BY <1>2, ConfigsAreTyped DEF ProtocolConfig
  <2>2. "pause_contract" \in Actions /\ 0 \in Losses
    BY DEF Actions, Losses
  <2>3. r \in Records /\ r.status = "requires_approval"
    BY <2>1, <2>2, RecordFacts
  <2> HIDE DEF r
  <2>4. Joins(r, <<p, now>>)
    BY <1>4, <2>3 DEF Joins, Sound
  <2> QED
    BY <2>4 DEF HistoryStep
<1> QED
  BY <1>1, <1>3, <1>4

LEMMA UnpauseProtocolStep ==
    ASSUME ResponseIInv, NEW p \in Protocols, UnpauseProtocol(p)
    PROVE  HistoryStep
<1>1. UNCHANGED pending_approvals
  BY DEF UnpauseProtocol
<1>2. PICK i \in Positions(p) :
          records' = Append(records, Record(protocols[i].config.name, protocols[i].config.contract,
                                            "unpause_contract", "success", 0))
  BY DEF UnpauseProtocol
<1> DEFINE c == protocols[i].config
           r == Record(c.name, c.contract, "unpause_contract", "success", 0)
<1>3. c.name \in Names /\ c.contract \in Contracts
  BY ConfigsAreTyped DEF ResponseIInv, ResponseTypes, Positions, ProtocolConfig
<1>4. "unpause_contract" \in Actions /\ 0 \in Losses
  BY DEF Actions, Losses
<1>5. r \in Records /\ r.action = "unpause_contract" /\ r.loss = 0
  BY <1>3, <1>4, RecordFacts
<1>6. records' = Append(records, r)
  BY <1>2
<1> HIDE DEF r
<1>7. Joins(r, 0)
  BY <1>1, <1>5, <1>6 DEF Joins, Sound
<1> QED
  BY <1>7 DEF HistoryStep

\* What leaves the history alone: changes of the configuration, the start of a sweep and
\* the clock.
QuietStep ==
    \/ Initialize \/ EmergencyPauseAll \/ Tick
    \/ \E chains \in SUBSET Chains, prefix \in Prefixes : EmergencyPause(prefix, chains)
    \/ \E p \in Protocols :
          \/ \E c \in Configs, initialize \in BOOLEAN : RegisterProtocol(p, c, initialize)
          \/ UnregisterProtocol(p) \/ UpdateSettings(p)

LEMMA NextHistory ==
    ASSUME ResponseIInv, [Next]_vars
    PROVE  HistoryStep
<1>1. protocols \in Seq(Entry)
  BY DEF ResponseIInv, ResponseTypes
<1>2. CASE QuietStep
  BY <1>2 DEF QuietStep, HistoryStep, Initialize, EmergencyPauseAll, Tick, EmergencyPause,
              RegisterProtocol, UnregisterProtocol, UpdateSettings
<1>3. ASSUME NEW i \in sweep.todo, NEW outcome \in Outcomes, SweepNext(i, outcome)
      PROVE  HistoryStep
  <2>1. i \in DOMAIN protocols /\ HandleFor(sweep.prefix, protocols[i].config, outcome)
    BY <1>3 DEF SweepNext, ResponseIInv, ResponseTypes
  <2> QED
    BY <1>1, <2>1, HandleForStep
<1>4. ASSUME NEW id \in Ids, NEW outcome \in Outcomes, ApproveResponse(id, outcome)
      PROVE  HistoryStep
  BY <1>4, ApproveStep
<1>5. ASSUME NEW id \in Ids, RejectResponse(id) PROVE HistoryStep
  BY <1>5, RejectStep
<1>6. ASSUME NEW prefix \in Prefixes, NEW severity \in Severities, NEW name \in Names,
             NEW contract \in Contracts, NEW loss \in Losses, NEW outcome \in Outcomes,
             AutoRespond(prefix, severity, name, contract, loss, outcome)
      PROVE  HistoryStep
  BY <1>1, <1>6, HandleStep DEF AutoRespond
<1>7. ASSUME NEW p \in Protocols, NEW override \in BOOLEAN, NEW outcome \in Outcomes,
             ManualPause(p, override, outcome)
      PROVE  HistoryStep
  BY <1>1, <1>7, HandleForStep DEF ManualPause, Positions
<1>8. ASSUME NEW p \in Protocols, NEW force \in BOOLEAN, NEW outcome \in Outcomes,
             PauseProtocol(p, force, outcome)
      PROVE  HistoryStep
  BY <1>8, PauseProtocolStep
<1>9. ASSUME NEW p \in Protocols, UnpauseProtocol(p) PROVE HistoryStep
  BY <1>9, UnpauseProtocolStep
<1>10. CASE UNCHANGED vars
  BY <1>10 DEF vars, HistoryStep
<1> QED
  BY <1>2, <1>3, <1>4, <1>5, <1>6, <1>7, <1>8, <1>9, <1>10 DEF Next, QuietStep

-----------------------------------------------------------------------------
(* The registered protocols keep their types.                              *)

LEMMA RegisterConfig ==
    ASSUME protocols \in Seq(Entry), NEW p \in Protocols, NEW c \in Configs, NEW initialize,
           RegisterProtocol(p, c, initialize)
    PROVE  ConfigStays
<1> DEFINE entry == [id |-> p, config |-> c]
<1>1. entry \in Entry
  BY GuardianAssumption DEF Entry
<1>2. /\ protocols' = IF Positions(p) = {} THEN Append(protocols, entry)
                      ELSE [i \in DOMAIN protocols |-> IF i \in Positions(p) THEN entry
                                                      ELSE protocols[i]]
      /\ sweep' = sweep /\ sweep.todo = {}
  BY DEF RegisterProtocol, Free
<1> HIDE DEF entry
<1>3. CASE Positions(p) = {}
  BY <1>1, <1>2, <1>3 DEF ConfigStays
<1>4. CASE Positions(p) # {}
  <2>1. DOMAIN protocols = 1..Len(protocols) /\ Len(protocols) \in Nat
    OBVIOUS
  <2>2. \A i \in 1..Len(protocols) : protocols[i] \in Entry
    BY <2>1
  <2>3. protocols' = [i \in 1..Len(protocols) |-> IF i \in Positions(p) THEN entry
                                                ELSE protocols[i]]
    BY <1>2, <1>4, <2>1
  <2>4. protocols' \in [1..Len(protocols) -> Entry]
    BY <1>1, <2>2, <2>3
  <2>5. protocols' \in Seq(Entry)
    BY <2>1, <2>4
  <2> QED
    BY <1>2, <2>5 DEF ConfigStays
<1> QED
  BY <1>3, <1>4

LEMMA UnregisterConfig ==
    ASSUME protocols \in Seq(Entry), NEW p \in Protocols, UnregisterProtocol(p)
    PROVE  ConfigStays
<1>1. PICK i \in Positions(p) :
          protocols' = [j \in 1..(Len(protocols) - 1) |->
                           protocols[IF j < i THEN j ELSE j + 1]]
  BY DEF UnregisterProtocol
<1>2. sweep' = sweep /\ sweep.todo = {}
  BY DEF UnregisterProtocol, Free
<1>3. i \in DOMAIN protocols /\ DOMAIN protocols = 1..Len(protocols) /\ Len(protocols) \in Nat
      /\ Len(protocols) - 1 \in Nat
  BY DEF Positions
<1>4. ASSUME NEW j \in 1..(Len(protocols) - 1)
      PROVE  protocols[IF j < i THEN j ELSE j + 1] \in Entry
  <2>1. j \in 1..Len(protocols) /\ j + 1 \in 1..Len(protocols)
    BY <1>3
  <2> QED
    BY <1>3, <2>1
<1>5. protocols' \in [1..(Len(protocols) - 1) -> Entry]
  BY <1>1, <1>4
<1>6. protocols' \in Seq(Entry)
  BY <1>3, <1>5
<1> QED
  BY <1>2, <1>6 DEF ConfigStays

LEMMA SettingsConfig ==
    ASSUME protocols \in Seq(Entry), NEW p \in Protocols, UpdateSettings(p)
    PROVE  ConfigStays
<1>1. PICK i \in Positions(p), s \in Settings :
          protocols' = [protocols EXCEPT ![i].config.auto_critical = s.critical,
                                         ![i].config.auto_high = s.high,
                                         ![i].config.threshold = s.threshold]
  BY DEF UpdateSettings
<1>2. sweep' = sweep /\ sweep.todo = {}
  BY DEF UpdateSettings, Free
<1>3. i \in DOMAIN protocols /\ protocols[i] \in Entry
  BY DEF Positions
<1>4. s.critical \in BOOLEAN /\ s.high \in BOOLEAN /\ s.threshold \in {0, 1}
  BY GuardianAssumption
<1> DEFINE e == [[[protocols[i] EXCEPT !.config.auto_critical = s.critical]
                                EXCEPT !.config.auto_high = s.high]
                                EXCEPT !.config.threshold = s.threshold]
<1>5. e \in Entry
  BY <1>3, <1>4 DEF Entry, ProtocolConfig
<1>6. protocols' = [protocols EXCEPT ![i] = e]
  BY <1>1, <1>3 DEF Entry, ProtocolConfig
<1> HIDE DEF e
<1>7. protocols' \in Seq(Entry)
  BY <1>3, <1>5, <1>6
<1> QED
  BY <1>2, <1>7 DEF ConfigStays

LEMMA NextConfig ==
    ASSUME ResponseIInv, [Next]_vars
    PROVE  ConfigStays
<1>1. protocols \in Seq(Entry) /\ sweep.todo \subseteq DOMAIN protocols
  BY DEF ResponseIInv, ResponseTypes
<1>2. ASSUME NEW p \in Protocols, NEW c \in Configs, NEW initialize \in BOOLEAN,
             RegisterProtocol(p, c, initialize)
      PROVE  ConfigStays
  BY <1>1, <1>2, RegisterConfig
<1>3. ASSUME NEW p \in Protocols, UnregisterProtocol(p) \/ UpdateSettings(p)
      PROVE  ConfigStays
  BY <1>1, <1>3, UnregisterConfig, SettingsConfig
<1>4. ASSUME UNCHANGED protocols, sweep'.todo \subseteq DOMAIN protocols
      PROVE  ConfigStays
  BY <1>1, <1>4 DEF ConfigStays
<1>5. CASE \/ EmergencyPauseAll
           \/ \E chains \in SUBSET Chains, prefix \in Prefixes : EmergencyPause(prefix, chains)
           \/ \E i \in sweep.todo, outcome \in Outcomes : SweepNext(i, outcome)
  <2>1. UNCHANGED protocols /\ sweep'.todo \subseteq DOMAIN protocols
    BY <1>1, <1>5 DEF EmergencyPauseAll, EmergencyPause, SweepNext, NoSweep, configVars
  <2> QED
    BY <1>4, <2>1
<1>6. CASE \/ Initialize \/ Tick \/ UNCHANGED vars
           \/ \E id \in Ids : RejectResponse(id)
           \/ \E id \in Ids, outcome \in Outcomes : ApproveResponse(id, outcome)
           \/ \E p \in Protocols : UnpauseProtocol(p)
  <2>1. UNCHANGED <<protocols, sweep>>
    BY <1>6 DEF Initialize, Tick, vars, RejectResponse, ApproveResponse, UnpauseProtocol,
                configVars
  <2> QED
    BY <1>1, <1>4, <2>1
<1>7. CASE \E outcome \in Outcomes :
              \/ \E prefix \in Prefixes, severity \in Severities, name \in Names,
                    contract \in Contracts, loss \in Losses :
                    AutoRespond(prefix, severity, name, contract, loss, outcome)
              \/ \E p \in Protocols :
                    \/ \E override \in BOOLEAN : ManualPause(p, override, outcome)
                    \/ \E force \in BOOLEAN : PauseProtocol(p, force, outcome)
  <2>1. UNCHANGED <<protocols, sweep>>
    BY <1>7 DEF AutoRespond, ManualPause, PauseProtocol, configVars
  <2> QED
    BY <1>1, <1>4, <2>1
<1> QED
  BY <1>2, <1>3, <1>5, <1>6, <1>7 DEF Next

LEMMA InitResponseIInv == Init => ResponseIInv
BY DEF Init, NoSweep, ResponseIInv, ResponseTypes, PendingIsOpen, LargeLossIsApproved

LEMMA NextResponseIInv == ResponseIInv /\ [Next]_vars => ResponseIInv'
BY NextHistory, NextConfig, HistoryIInv

-----------------------------------------------------------------------------
\* What waits for approval is an undecided response of the history, under one id
\* (response/guardian.py:197, approve_response, reject_response).
THEOREM PendingResponsesAreOpen == Spec => []PendingIsOpen
<1>1. ResponseIInv => PendingIsOpen
  BY DEF ResponseIInv
<1> QED
  BY <1>1, InitResponseIInv, NextResponseIInv, PTL DEF Spec

\* A large loss is acted on only after an approval, whatever is registered or set
\* meanwhile (handle_incident, approve_response).
THEOREM LargeLossesAreApproved == Spec => []LargeLossIsApproved
<1>1. ResponseIInv => LargeLossIsApproved
  BY DEF ResponseIInv
<1> QED
  BY <1>1, InitResponseIInv, NextResponseIInv, PTL DEF Spec

LEMMA DecisionsAreKept ==
    ASSUME ResponseIInv, HistoryStep, NEW i \in DOMAIN records,
           records[i].status # "requires_approval"
    PROVE  records'[i] = records[i]
<1>1. records \in Seq(Records) /\ PendingIsOpen
  BY DEF ResponseIInv, ResponseTypes
<1>2. ASSUME NEW r, NEW id, Joins(r, id) PROVE records'[i] = records[i]
  BY <1>1, <1>2 DEF Joins
<1>3. ASSUME NEW d, NEW id \in Ids, IsDecided(d, id) PROVE records'[i] = records[i]
  <2>1. pending_approvals[id] # i
    BY <1>1, <1>3 DEF IsDecided, PendingIsOpen
  <2> QED
    BY <1>1, <1>3, <2>1 DEF IsDecided
<1> QED
  BY <1>2, <1>3 DEF HistoryStep

\* A response that was carried out, failed or was rejected is never decided again
\* (response/guardian.py, approve_response, reject_response).
THEOREM DecisionsAreFinal == Spec => DecidedOnce
<1>1. ResponseIInv /\ [Next]_vars =>
          [\A i \in DOMAIN records :
              records[i].status # "requires_approval" => records'[i] = records[i]]_vars
  BY NextHistory, DecisionsAreKept
<1> QED
  BY <1>1, InitResponseIInv, NextResponseIInv, PTL DEF Spec, DecidedOnce

LEMMA ReportsAreReal ==
    ASSUME ResponseIInv, HistoryStep, NEW i \in DOMAIN records',
           PauseReported(records', i), ~PauseReported(records, i)
    PROVE  \E c \in Registered : /\ Matches(c, records'[i].protocol, records'[i].contract)
                                 /\ PauseTarget(c) \in onchain'
<1>1. records \in Seq(Records) /\ pending_approvals \in [Ids -> Nat] /\ PendingIsOpen
  BY DEF ResponseIInv, ResponseTypes
<1>2. ASSUME NEW r, NEW id, Joins(r, id) PROVE records'[i] = r /\ Sound(r)
  <2>1. records' = Append(records, r) /\ Sound(r)
    BY <1>2 DEF Joins
  <2>2. i \in DOMAIN records => records'[i] = records[i]
    BY <1>1, <2>1
  <2>3. i \notin DOMAIN records
    BY <2>2 DEF PauseReported
  <2>4. i = Len(records) + 1
    BY <1>1, <2>1, <2>3
  <2> QED
    BY <1>1, <2>1, <2>4
<1>3. ASSUME NEW d, NEW id \in Ids, IsDecided(d, id) PROVE records'[i] = d /\ Sound(d)
  <2>1. records' = [records EXCEPT ![pending_approvals[id]] = d] /\ Sound(d)
    BY <1>3 DEF IsDecided
  <2>2. DOMAIN records' = DOMAIN records
    BY <1>1, <2>1
  <2>3. i # pending_approvals[id] => records'[i] = records[i]
    BY <1>1, <2>1, <2>2
  <2>4. i = pending_approvals[id]
    BY <2>2, <2>3 DEF PauseReported
  <2> QED
    BY <1>1, <2>1, <2>2, <2>4
<1>4. CASE records' = records
  BY <1>4 DEF PauseReported
<1>5. ASSUME NEW r, Sound(r), records'[i] = r
      PROVE  \E c \in Registered : /\ Matches(c, records'[i].protocol, records'[i].contract)
                                   /\ PauseTarget(c) \in onchain'
  BY <1>5 DEF Sound, PauseReported
<1> QED
  BY <1>2, <1>3, <1>4, <1>5 DEF HistoryStep

\* A pause is reported as done only when it was done for a protocol registered at that
\* moment that fits the record, whoever shares its name and however the registrations
\* changed since the request (_find_protocol_config, _pause_contract).
THEOREM ReportedPausesHappened == Spec => ReportedPauseIsReal
<1>1. ResponseIInv /\ [Next]_vars =>
          [\A i \in DOMAIN records' :
              PauseReported(records', i) /\ ~PauseReported(records, i) =>
                  \E c \in Registered :
                      /\ Matches(c, records'[i].protocol, records'[i].contract)
                      /\ PauseTarget(c) \in onchain']_vars
  BY NextHistory, ReportsAreReal
<1> QED
  BY <1>1, InitResponseIInv, NextResponseIInv, PTL DEF Spec, ReportedPauseIsReal

-----------------------------------------------------------------------------
(* The cooldown of manual pauses.                                          *)

\* The policy remembers the last manual pause of every protocol.
CooldownIInv ==
    /\ now \in Nat
    /\ let_through \in [Protocols -> [at: Nat \cup {Never}, override: BOOLEAN]]
    /\ last_attempt \in [Protocols -> Nat \cup {Never}]
    /\ \A p \in Protocols : last_attempt[p] = let_through[p].at

KeepsCooldown ==
    \A p \in Protocols :
        LET old == let_through[p]
            new == let_through'[p]
        IN  new # old /\ ~new.override /\ old.at # Never => new.at - old.at >= Cooldown

LEMMA ManualPauseCooldown ==
    ASSUME CooldownIInv, NEW p \in Protocols, NEW override \in BOOLEAN, NEW outcome,
           ManualPause(p, override, outcome)
    PROVE  CooldownIInv' /\ KeepsCooldown
<1> DEFINE new == [at |-> now, override |-> override]
<1>1. /\ last_attempt' = [last_attempt EXCEPT ![p] = now] /\ now' = now
      /\ let_through' = [let_through EXCEPT ![p] = new]
      /\ last_attempt[p] # Never /\ now - last_attempt[p] < Cooldown => override
  BY DEF ManualPause, AttemptRecorded, CoolingDown
<1>2. /\ now \in Nat /\ Never \notin Nat /\ Cooldown \in Nat
      /\ let_through \in [Protocols -> [at: Nat \cup {Never}, override: BOOLEAN]]
      /\ last_attempt \in [Protocols -> Nat \cup {Never}]
      /\ \A q \in Protocols : last_attempt[q] = let_through[q].at
  BY GuardianAssumption DEF CooldownIInv
<1>3. new \in [at: Nat \cup {Never}, override: BOOLEAN]
      /\ new.at = now /\ new.override = override
  BY <1>2
<1> HIDE DEF new
<1>4. CooldownIInv'
  BY <1>1, <1>2, <1>3 DEF CooldownIInv
<1>5. KeepsCooldown
  <2> SUFFICES ASSUME NEW q \in Protocols, let_through'[q] # let_through[q],
                      ~let_through'[q].override, let_through[q].at # Never
               PROVE  let_through'[q].at - let_through[q].at >= Cooldown
    BY DEF KeepsCooldown
  <2>1. q = p /\ let_through'[q] = new
    BY <1>1, <1>2
  <2>2. let_through[p].at \in Nat /\ ~override /\ last_attempt[p] = let_through[p].at
    BY <1>2, <1>3, <2>1
  <2>3. ~(now - last_attempt[p] < Cooldown)
    BY <1>1, <2>1, <2>2
  <2> QED
    BY <1>2, <1>3, <2>1, <2>2, <2>3
<1> QED
  BY <1>4, <1>5

LEMMA InitCooldownIInv == Init => CooldownIInv
BY DEF Init, CooldownIInv

LEMMA NextCooldown == CooldownIInv /\ [Next]_vars => CooldownIInv' /\ KeepsCooldown
<1> SUFFICES ASSUME CooldownIInv, [Next]_vars PROVE CooldownIInv' /\ KeepsCooldown
  OBVIOUS
<1>1. ASSUME NEW p \in Protocols, NEW override \in BOOLEAN, NEW outcome \in Outcomes,
             ManualPause(p, override, outcome)
      PROVE  CooldownIInv' /\ KeepsCooldown
  BY <1>1, ManualPauseCooldown
<1>2. ASSUME now' \in Nat, UNCHANGED <<last_attempt, let_through>>
      PROVE  CooldownIInv' /\ KeepsCooldown
  BY <1>2 DEF CooldownIInv, KeepsCooldown
<1>3. CASE Tick
  BY <1>2, <1>3 DEF Tick, CooldownIInv
<1>4. CASE \/ QuietStep /\ ~Tick
           \/ \E p \in Protocols : UnpauseProtocol(p)
           \/ \E id \in Ids : RejectResponse(id)
           \/ UNCHANGED vars
  <2>1. UNCHANGED <<now, last_attempt, let_through>>
    BY <1>4 DEF QuietStep, Initialize, EmergencyPauseAll, EmergencyPause, RegisterProtocol,
                UnregisterProtocol, UpdateSettings, UnpauseProtocol, RejectResponse, vars
  <2> QED
    BY <1>2, <2>1 DEF CooldownIInv
<1>5. CASE \E outcome \in Outcomes :
              \/ \E i \in sweep.todo : SweepNext(i, outcome)
              \/ \E id \in Ids : ApproveResponse(id, outcome)
              \/ \E prefix \in Prefixes, severity \in Severities, name \in Names,
                    contract \in Contracts, loss \in Losses :
                    AutoRespond(prefix, severity, name, contract, loss, outcome)
              \/ \E p \in Protocols, force \in BOOLEAN : PauseProtocol(p, force, outcome)
  <2>1. UNCHANGED <<now, last_attempt, let_through>>
    BY <1>5 DEF SweepNext, ApproveResponse, AutoRespond, PauseProtocol
  <2> QED
    BY <1>2, <2>1 DEF CooldownIInv
<1> QED
  BY <1>1, <1>3, <1>4, <1>5 DEF Next, QuietStep

\* A manual pause that does not override the policy comes at least a cooldown after the
\* one before it, which outlives the registration (guardian_routes.py).
THEOREM CooldownHolds == Spec => CooldownKept
<1>1. CooldownIInv /\ [Next]_vars =>
          [\A p \in Protocols :
              LET old == let_through[p]
                  new == let_through'[p]
              IN  new # old /\ ~new.override /\ old.at # Never =>
                      new.at - old.at >= Cooldown]_vars
  BY NextCooldown DEF KeepsCooldown
<1>2. CooldownIInv /\ [Next]_vars => CooldownIInv'
  BY NextCooldown
<1> QED
  BY <1>1, <1>2, InitCooldownIInv, PTL DEF Spec, CooldownKept
=============================================================================
