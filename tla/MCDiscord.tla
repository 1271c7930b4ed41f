----------------------------- MODULE MCDiscord -----------------------------
(* An instance of Discord for TLC: callers, linkers and reconciles are     *)
(* interchangeable.                                                        *)
EXTENDS Discord, TLC

Symmetric == Permutations(Caller) \cup Permutations(Linker) \cup Permutations(Reconciler)
=============================================================================
