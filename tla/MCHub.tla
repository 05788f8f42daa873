-------------------------------- MODULE MCHub --------------------------------
(***************************************************************************)
(* Instances of Hub for TLC.                                               *)
(***************************************************************************)
EXTENDS Hub, TLC

CONSTANTS ann, bob, a1, a2, p1, p2

AllAnns == [c \in {a1, a2} |-> ann]
OnlyA1 == a1 :> ann

\* The publishers are alike, and so are the connections.
Alike == Permutations({p1, p2}) \cup Permutations({a1, a2})
==============================================================================
