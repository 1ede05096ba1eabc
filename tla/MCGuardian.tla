------------------------------ MODULE MCGuardian ------------------------------
(* Two protocols on two chains and two configurations that either protocol  *)
(* may be given: they share a name; the first has a key and pauses a guard  *)
(* of its pool, the second protects that guard and has a multisig only.     *)
(* Incidents may also name a protocol that only their contract leads to.    *)
EXTENDS Guardian, TLC

MCConfigs ==
    {[name |-> "aave", contract |-> "pool", pause_contract |-> "guard",
      chain |-> "ethereum", key |-> TRUE, multisig |-> FALSE,
      auto_critical |-> TRUE, auto_high |-> FALSE, threshold |-> 1],
     [name |-> "aave", contract |-> "guard", pause_contract |-> NoContract,
      chain |-> "polygon", key |-> FALSE, multisig |-> TRUE,
      auto_critical |-> FALSE, auto_high |-> TRUE, threshold |-> 1]}
MCSettings == {[critical |-> TRUE, high |-> TRUE, threshold |-> 0]}
MCSymmetry == Permutations(Protocols)
MCPausePrefix == [p \in Protocols |-> "inc"]
=============================================================================
