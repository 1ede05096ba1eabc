--------------------------- MODULE MCIncidentStore ---------------------------
(* Three calls for one key, two of which have the same second in their     *)
(* incident id, over a pool of two connections.                            *)
EXTENDS IncidentStore

MCCalls == {"c1", "c2", "c3"}
MCKeys == {"k"}
MCKey == [c \in MCCalls |-> "k"]
MCIds == {"k@1", "k@2"}
MCId == [c \in MCCalls |-> IF c = "c3" THEN "k@2" ELSE "k@1"]
=============================================================================
