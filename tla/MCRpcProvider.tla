---------------------------- MODULE MCRpcProvider ----------------------------
(* Two endpoints and both loops, or three endpoints and one of them.       *)
EXTENDS RpcProvider
=============================================================================
