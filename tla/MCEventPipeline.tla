--------------------------- MODULE MCEventPipeline ---------------------------
(* Two logs of one transaction and one of another; the queue holds two     *)
(* messages.                                                               *)
EXTENDS EventPipeline

MCEvents == {"tx1:log0", "tx1:log1", "tx2:log0"}
MCTxs == {"tx1", "tx2"}
MCTxOf == [e \in MCEvents |-> IF e = "tx2:log0" THEN "tx2" ELSE "tx1"]

\* The key hashes chain_id, tx_hash and log_index: one key per event.
MCKeyOf == [e \in MCEvents |-> e]
=============================================================================
