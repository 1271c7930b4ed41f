---------------------------- MODULE MCCompanion ----------------------------
(* An instance of Companion for TLC: what each counted row adds to growth, *)
(* and a turn whose retrieval costs something before one whose does not.   *)
EXTENDS Companion

MCCounted == [sources |-> 1, episodes |-> 1, initiations |-> 0, procedures |-> 1]

MCRetrievalCost == <<1, 0>>
=============================================================================
