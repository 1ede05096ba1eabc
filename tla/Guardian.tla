------------------------------- MODULE Guardian -------------------------------
(***************************************************************************)
(* The GuardianSystem (src/response/guardian.py) behind its HTTP endpoints *)
(* (src/api/guardian_routes.py): protocols, responses to incidents, the    *)
(* approval workflow, manual and emergency pauses.                         *)
(*                                                                         *)
(* No callback is installed and the Web3 calls block, so no handler here   *)
(* gives up the event loop between reading and writing this state: each is *)
(* one action, and the loops of the emergency endpoints exclude the others *)
(* while they run.                                                         *)
(***************************************************************************)
EXTENDS Integers, Sequences, FiniteSets

CONSTANTS
    Protocols,       \* protocol ids
    Names, Contracts, Chains, NoContract,
    Configs,         \* what registrations bring
    Settings,        \* what the settings endpoint sets
    EnvironmentKey,  \* whether GUARDIAN_PRIVATE_KEY or a KMS key is configured
    Prefixes,        \* first characters of incident ids
    PausePrefix,     \* [Protocols -> Prefixes] those of "pause-<protocol id>"
    ManualPrefix, AllPrefix,       \* those of "manual-..." and "emergency-all-..."
    Cooldown,        \* cooldown_seconds of the pause policy
    Never,
    MaxChanges,      \* bound: registrations and changes of settings
    MaxRecords,      \* bound: length of response_history
    MaxTime          \* bound: the clock

\* A ProtocolConfig; two protocols may share a name or a contract.
ProtocolConfig ==
    [name: Names, contract: Contracts, pause_contract: Contracts \cup {NoContract},
     chain: Chains, key: BOOLEAN, multisig: BOOLEAN,
     auto_critical: BOOLEAN, auto_high: BOOLEAN, threshold: {0, 1}]

ASSUME GuardianAssumption ==
    /\ Configs \subseteq ProtocolConfig
    /\ Settings \subseteq [critical: BOOLEAN, high: BOOLEAN, threshold: {0, 1}]
    /\ NoContract \notin Contracts
    /\ EnvironmentKey \in BOOLEAN
    /\ PausePrefix \in [Protocols -> Prefixes]
    /\ {ManualPrefix, AllPrefix} \subseteq Prefixes
    /\ Protocols \cap Prefixes = {}
    /\ {Cooldown, MaxChanges, MaxRecords, MaxTime} \subseteq Nat /\ Never \notin Nat

Times == 0..MaxTime

\* A response id is "resp-", a prefix, and the time of day in seconds.
Ids == (Prefixes \cup Protocols) \X Times

Severities == {"critical", "high", "medium"}
Losses  == {0, 1}                                     \* estimated_loss_usd
Actions == {"pause_contract", "notify_multisig", "unpause_contract"}

\* How the pause of a contract ends: its transaction is mined; it reverts or is never
\* sent; the wait for the receipt times out and it is mined later.
Outcomes == {"mined", "reverted", "unseen"}

VARIABLES
    protocols,          \* <<[id, config]>> in the order of the dict
    is_initialized, web3_connections,
    records,            \* response_history
    pending_approvals,  \* [Ids -> 0..MaxRecords] index of the record, 0 for none
    paused_contracts,   \* main contracts the protocol list shows as paused
    last_attempt,       \* [Protocols -> Times \cup {Never}] _last_pause_attempts
    sweep,              \* [todo, prefix, flags] the running emergency loop: the positions
                        \* in the dict it has still to visit
    onchain,            \* contracts that are paused
    now, changes,
    let_through         \* auxiliary: the last manual pause of each protocol, with its override

configVars == <<protocols, is_initialized, web3_connections>>
vars == <<configVars, records, pending_approvals, paused_contracts, last_attempt, sweep,
          onchain, now, changes, let_through>>

Records == [protocol: Names, contract: Contracts, action: Actions,
            status: {"requires_approval", "success", "failed"},
            loss: Losses, approved: BOOLEAN]

TypeOK ==
    /\ protocols \in Seq([id: Protocols, config: ProtocolConfig])
    /\ Len(protocols) <= Cardinality(Protocols)
    /\ is_initialized \in BOOLEAN /\ web3_connections \subseteq Chains
    /\ records \in Seq(Records) /\ Len(records) <= MaxRecords
    /\ pending_approvals \in [Ids -> 0..MaxRecords]
    /\ paused_contracts \subseteq Contracts
    /\ last_attempt \in [Protocols -> Times \cup {Never}]
    /\ sweep \in [todo: SUBSET DOMAIN protocols, prefix: Prefixes, flags: BOOLEAN]
    /\ onchain \subseteq Contracts
    /\ now \in Times /\ changes \in 0..MaxChanges
    /\ let_through \in [Protocols -> [at: Times \cup {Never}, override: BOOLEAN]]

NoSweep == [todo |-> {}, prefix |-> AllPrefix, flags |-> FALSE]

Init ==
    /\ protocols = <<>>
    /\ is_initialized = FALSE /\ web3_connections = {}
    /\ records = <<>>
    /\ pending_approvals = [i \in Ids |-> 0]
    /\ paused_contracts = {} /\ onchain = {}
    /\ last_attempt = [p \in Protocols |-> Never]
    /\ sweep = NoSweep
    /\ now = 0 /\ changes = 0
    /\ let_through = [p \in Protocols |-> [at |-> Never, override |-> FALSE]]

Positions(p) == {i \in DOMAIN protocols : protocols[i].id = p}
Registered == {protocols[i].config : i \in DOMAIN protocols}
Free == sweep.todo = {}

-----------------------------------------------------------------------------
(* GuardianSystem.                                                         *)

Matches(c, name, contract) == c.name = name \/ c.contract = contract

\* _find_protocol_config: the first protocol with the name or the contract.
Matching(name, contract) ==
    LET hits == {i \in DOMAIN protocols : Matches(protocols[i].config, name, contract)}
    IN  protocols[CHOOSE i \in hits : \A j \in hits : i <= j].config

Known(name, contract) == \E c \in Registered : Matches(c, name, contract)

\* _determine_action; "alert_only" leaves no record.
DeterminedAction(severity, c) ==
    IF ~((severity = "critical" /\ c.auto_critical) \/ (severity = "high" /\ c.auto_high))
    THEN "alert_only"
    ELSE IF c.key THEN "pause_contract"
    ELSE IF c.multisig \/ severity = "high" THEN "notify_multisig" ELSE "alert_only"

\* _pause_contract finds a connection and a signer, ...
CanSign(c) == c.chain \in web3_connections /\ (c.key \/ EnvironmentKey)

\* ... and calls this contract, whatever the record names.
PauseTarget(c) == IF c.pause_contract # NoContract THEN c.pause_contract ELSE c.contract

\* Mutant: a pause whose receipt was not good counts as done.
OptimisticStatus(action, c, outcome) ==
    IF action = "notify_multisig" \/ (CanSign(c) /\ outcome # "mined")
    THEN "success" ELSE "failed"

\* _execute_response of a pause needs a connection, a signer and a good receipt.
ExecutedStatus(action, c, outcome) ==
    IF action = "notify_multisig" \/ (CanSign(c) /\ outcome = "mined")
    THEN "success" ELSE "failed"

PausedAfter(action, c, outcome) ==
    IF action = "pause_contract" /\ CanSign(c) /\ outcome # "reverted"
    THEN onchain \cup {PauseTarget(c)} ELSE onchain

Record(name, contract, action, status, loss) ==
    [protocol |-> name, contract |-> contract, action |-> action, status |-> status,
     loss |-> loss, approved |-> FALSE]

Decided(r, status, approved) ==
    [protocol |-> r.protocol, contract |-> r.contract, action |-> r.action,
     status |-> status, loss |-> r.loss, approved |-> approved]

\* Mutant: the approval threshold is compared the wrong way round.
ExecutesAbove(c, loss) == loss >= c.threshold

ExecutesAtOnce(c, loss) == loss < c.threshold

HandleIncident(prefix, severity, name, contract, loss, outcome) ==
    LET config == Matching(name, contract)
        action == DeterminedAction(severity, config)
    IN  IF ~Known(name, contract) \/ action = "alert_only"
        THEN UNCHANGED <<records, pending_approvals, onchain>>
        ELSE IF ExecutesAtOnce(config, loss)
        THEN /\ records' = Append(records, Record(name, contract, action,
                                                  ExecutedStatus(action, config, outcome), loss))
             /\ onchain' = PausedAfter(action, config, outcome)
             /\ UNCHANGED pending_approvals
        ELSE /\ records' = Append(records, Record(name, contract, action,
                                                  "requires_approval", loss))
             /\ pending_approvals' = [pending_approvals EXCEPT ![<<prefix, now>>] =
                                                         Len(records) + 1]
             /\ UNCHANGED onchain

\* The endpoints report a critical incident without a loss for a registered protocol.
HandleFor(prefix, c, outcome) ==
    HandleIncident(prefix, "critical", c.name, c.contract, 0, outcome)

\* Mutant: a rejected response stays on the list of pending ones.
StillPending(id) == pending_approvals

NotPending(id) == [pending_approvals EXCEPT ![id] = 0]

\* approve_response acts on the protocol found now; without one nothing happens.
ApproveResponse(id, outcome) ==
    LET i == pending_approvals[id]
        r == records[i]
        c == Matching(r.protocol, r.contract)
    IN  /\ Free /\ i # 0
        /\ Known(r.protocol, r.contract)
        /\ records' = [records EXCEPT ![i] =
                          Decided(r, ExecutedStatus(r.action, c, outcome), TRUE)]
        /\ onchain' = PausedAfter(r.action, c, outcome)
        /\ pending_approvals' = NotPending(id)
        /\ UNCHANGED <<configVars, paused_contracts, last_attempt, sweep, now, changes,
                       let_through>>

RejectResponse(id) ==
    LET i == pending_approvals[id] IN
    /\ Free /\ i # 0
    /\ records' = [records EXCEPT ![i] = Decided(records[i], "failed", FALSE)]
    /\ pending_approvals' = NotPending(id)
    /\ UNCHANGED <<configVars, paused_contracts, last_attempt, sweep, onchain, now, changes,
                   let_through>>

-----------------------------------------------------------------------------
(* The endpoints.                                                          *)

Change == changes < MaxChanges /\ changes' = changes + 1

\* initialize connects to the chains of the protocols registered so far.
Connects(configs) ==
    \E up \in SUBSET {c.chain : c \in configs} : web3_connections' = web3_connections \cup up

Initialize ==
    /\ Free /\ Change
    /\ is_initialized' = TRUE
    /\ Connects(Registered)
    /\ UNCHANGED <<protocols, records, pending_approvals, paused_contracts, last_attempt,
                   sweep, onchain, now, let_through>>

\* POST /protocols only registers; POST /protocols/register also initializes the
\* guardian, once. A second registration replaces the whole config, in its place.
RegisterProtocol(p, c, initialize) ==
    LET entry == [id |-> p, config |-> c] IN
    /\ Free /\ Change
    /\ protocols' = IF Positions(p) = {} THEN Append(protocols, entry)
                    ELSE [i \in DOMAIN protocols |-> IF i \in Positions(p) THEN entry
                                                     ELSE protocols[i]]
    /\ is_initialized' = (is_initialized \/ initialize)
    /\ IF is_initialized' = is_initialized THEN UNCHANGED web3_connections
       ELSE Connects({protocols'[i].config : i \in DOMAIN protocols'})
    /\ UNCHANGED <<records, pending_approvals, paused_contracts, last_attempt, sweep,
                   onchain, now, let_through>>

UnregisterProtocol(p) ==
    /\ Free /\ Change
    /\ \E i \in Positions(p) :
          protocols' = [j \in 1..(Len(protocols) - 1) |->
                           protocols[IF j < i THEN j ELSE j + 1]]
    /\ UNCHANGED <<is_initialized, web3_connections, records, pending_approvals,
                   paused_contracts, last_attempt, sweep, onchain, now, let_through>>

\* POST /protocols/{protocol_id}/settings
UpdateSettings(p) ==
    /\ Free /\ Change
    /\ \E i \in Positions(p), s \in Settings :
          protocols' = [protocols EXCEPT ![i].config.auto_critical = s.critical,
                                         ![i].config.auto_high = s.high,
                                         ![i].config.threshold = s.threshold]
    /\ UNCHANGED <<is_initialized, web3_connections, records, pending_approvals,
                   paused_contracts, last_attempt, sweep, onchain, now, let_through>>

HasRoom == Len(records) < MaxRecords

\* auto_respond_to_incident, of a detected incident or of a spike of alerts.
AutoRespond(prefix, severity, name, contract, loss, outcome) ==
    /\ Free /\ HasRoom
    /\ HandleIncident(prefix, severity, name, contract, loss, outcome)
    /\ UNCHANGED <<configVars, paused_contracts, last_attempt, sweep, now, changes, let_through>>

\* Mutant: a manual pause does not start the cooldown.
AttemptForgotten(p) == last_attempt

AttemptRecorded(p) == [last_attempt EXCEPT ![p] = now]

CoolingDown(p) == last_attempt[p] # Never /\ now - last_attempt[p] < Cooldown

ManualPause(p, override, outcome) ==
    /\ Free /\ HasRoom
    /\ CoolingDown(p) => override
    /\ last_attempt' = AttemptRecorded(p)
    /\ let_through' = [let_through EXCEPT ![p] = [at |-> now, override |-> override]]
    /\ \E i \in Positions(p) : HandleFor(ManualPrefix, protocols[i].config, outcome)
    /\ UNCHANGED <<configVars, paused_contracts, sweep, now, changes>>

\* POST /protocols/{protocol_id}/pause: at once, or as a request for approval.
PauseProtocol(p, force, outcome) ==
    /\ Free /\ HasRoom
    /\ \E i \in Positions(p) :
          LET c == protocols[i].config IN
          \/ /\ c.auto_critical \/ force
             /\ HandleFor(PausePrefix[p], c, outcome)
             /\ paused_contracts' = IF records' = records THEN paused_contracts
                                    ELSE paused_contracts \cup {c.contract}
          \/ /\ ~c.auto_critical /\ ~force
             /\ records' = Append(records, Record(c.name, c.contract, "pause_contract",
                                                  "requires_approval", 0))
             /\ pending_approvals' = [pending_approvals EXCEPT ![<<p, now>>] =
                                                         Len(records) + 1]
             /\ UNCHANGED <<onchain, paused_contracts>>
    /\ UNCHANGED <<configVars, last_attempt, sweep, now, changes, let_through>>

\* POST /protocols/{protocol_id}/unpause records a success and sends no transaction.
UnpauseProtocol(p) ==
    /\ Free /\ HasRoom
    /\ \E i \in Positions(p) :
          LET c == protocols[i].config IN
          /\ records' = Append(records, Record(c.name, c.contract, "unpause_contract",
                                               "success", 0))
          /\ paused_contracts' = paused_contracts \ {c.contract}
    /\ UNCHANGED <<configVars, pending_approvals, last_attempt, sweep, onchain, now, changes,
                   let_through>>

\* POST /emergency-pause goes over the protocols of some chains, of all when none is
\* given, and POST /emergency-pause-all over all of them.
EmergencyPause(prefix, chains) ==
    /\ Free
    /\ sweep' = [todo |-> {i \in DOMAIN protocols :
                             chains = {} \/ protocols[i].config.chain \in chains},
                 prefix |-> prefix, flags |-> FALSE]
    /\ UNCHANGED <<configVars, records, pending_approvals, paused_contracts, last_attempt,
                   onchain, now, changes, let_through>>

EmergencyPauseAll ==
    /\ Free
    /\ sweep' = [todo |-> DOMAIN protocols, prefix |-> AllPrefix, flags |-> TRUE]
    /\ UNCHANGED <<configVars, records, pending_approvals, paused_contracts, last_attempt,
                   onchain, now, changes, let_through>>

\* One turn of either loop; the second marks the contract as paused whatever happened.
SweepNext(i, outcome) ==
    LET c == protocols[i].config IN
    /\ HasRoom
    /\ \A j \in sweep.todo : i <= j
    /\ HandleFor(sweep.prefix, c, outcome)
    /\ paused_contracts' = IF sweep.flags THEN paused_contracts \cup {c.contract}
                           ELSE paused_contracts
    /\ sweep' = IF sweep.todo = {i} THEN NoSweep
                ELSE [todo |-> sweep.todo \ {i}, prefix |-> sweep.prefix, flags |-> sweep.flags]
    /\ UNCHANGED <<configVars, last_attempt, now, changes, let_through>>

Tick ==
    /\ Free /\ now < MaxTime
    /\ now' = now + 1
    /\ UNCHANGED <<configVars, records, pending_approvals, paused_contracts, last_attempt,
                   sweep, onchain, changes, let_through>>

Next ==
    \/ Initialize \/ EmergencyPauseAll \/ Tick
    \/ \E chains \in SUBSET Chains, prefix \in Prefixes : EmergencyPause(prefix, chains)
    \/ \E outcome \in Outcomes :
          \/ \E i \in sweep.todo : SweepNext(i, outcome)
          \/ \E id \in Ids : ApproveResponse(id, outcome)
          \/ \E prefix \in Prefixes, severity \in Severities, name \in Names,
                contract \in Contracts, loss \in Losses :
                AutoRespond(prefix, severity, name, contract, loss, outcome)
          \/ \E p \in Protocols :
                \/ \E override \in BOOLEAN : ManualPause(p, override, outcome)
                \/ \E force \in BOOLEAN : PauseProtocol(p, force, outcome)
    \/ \E id \in Ids : RejectResponse(id)
    \/ \E p \in Protocols :
          \/ \E c \in Configs, initialize \in BOOLEAN : RegisterProtocol(p, c, initialize)
          \/ UnregisterProtocol(p) \/ UpdateSettings(p) \/ UnpauseProtocol(p)

Spec == Init /\ [][Next]_vars

-----------------------------------------------------------------------------
(* Properties.                                                             *)

\* A response on the list of pending ones is an undecided one of the history, and no
\* response is there twice: it is decided at most once.
PendingIsOpen ==
    \A id \in Ids : pending_approvals[id] # 0 =>
        /\ pending_approvals[id] <= Len(records)
        /\ records[pending_approvals[id]].status = "requires_approval"
        /\ \A other \in Ids :
              pending_approvals[other] = pending_approvals[id] => other = id

\* A response that was carried out, failed or was rejected is never decided again.
DecidedOnce ==
    [][\A i \in DOMAIN records :
          records[i].status # "requires_approval" => records'[i] = records[i]]_vars

\* A loss at or above every threshold is acted on only after somebody approved it,
\* whatever is registered or set between the request and the decision.
LargeLossIsApproved ==
    \A i \in DOMAIN records :
        records[i].loss = 1 /\ records[i].status = "success" => records[i].approved

PauseReported(rs, i) ==
    i \in DOMAIN rs /\ rs[i].action = "pause_contract" /\ rs[i].status = "success"

\* When a pause is reported as done, some protocol that is registered at this moment has
\* the name or the contract of the record, and the contract it pauses is paused. The
\* record may be older than this registration; where one protocol fits, it is that one.
ReportedPauseIsReal ==
    [][\A i \in DOMAIN records' :
          PauseReported(records', i) /\ ~PauseReported(records, i) =>
              \E c \in Registered :
                  /\ Matches(c, records'[i].protocol, records'[i].contract)
                  /\ PauseTarget(c) \in onchain']_vars

\* A manual pause that does not override the policy comes at least a cooldown after the
\* one before it, overridden or not, registered again in between or not.
CooldownKept ==
    [][\A p \in Protocols :
          LET old == let_through[p]
              new == let_through'[p]
          IN  new # old /\ ~new.override /\ old.at # Never => new.at - old.at >= Cooldown]_vars
=============================================================================
