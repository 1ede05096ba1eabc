-------------------------- MODULE MCIncidentCreation --------------------------
(* Two rules and a threat on two transactions of one contract; the clock   *)
(* runs to the end of an hour.                                             *)
EXTENDS IncidentCreation, TLC

MCPosition == [d \in {"r1", "r2", "ml"} |-> CASE d = "r1" -> 1 [] d = "r2" -> 2 [] OTHER -> 3]
MCContractOf == [e \in Events |-> "c"]

Symmetry == Permutations(Events)
=============================================================================
