------------------------------- MODULE MCWeb -------------------------------
(* An instance of Web for TLC: companions, callers and streams are         *)
(* interchangeable.                                                        *)
EXTENDS Web, TLC

Symmetric == Permutations(Companion) \cup Permutations(Caller) \cup Permutations(Stream)
=============================================================================
