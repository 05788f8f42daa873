----------------------------- MODULE MCSessions ------------------------------
(***************************************************************************)
(* Instance of Sessions for TLC.                                           *)
(***************************************************************************)
EXTENDS Sessions, TLC

\* Calls and clock readings are interchangeable.
Alike == Permutations(Calls) \cup Permutations(Ticks)
==============================================================================
