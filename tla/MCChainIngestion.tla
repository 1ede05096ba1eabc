--------------------------- MODULE MCChainIngestion ---------------------------
(* Small instances of ChainIngestion for TLC.                              *)
EXTENDS ChainIngestion
=============================================================================
