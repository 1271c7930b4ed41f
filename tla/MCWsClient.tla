----------------------------- MODULE MCWsClient -----------------------------
(* Instances of WsClient for TLC. *)
EXTENDS WsClient, TLC

Symmetric == Permutations(Companion) \cup Permutations(Caller)
=============================================================================
