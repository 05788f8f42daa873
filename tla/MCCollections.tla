---------------------------- MODULE MCCollections ----------------------------
(***************************************************************************)
(* Instances of Collections for TLC.                                       *)
(***************************************************************************)
EXTENDS Collections, TLC

CONSTANTS ann, bob, c1, c2, s1, s2, ARG, BRA

\* Ann has two tabs.
TwoTabs == c1 :> ann @@ c2 :> ann

\* Two stickers of two teams.
TwoTeams == s1 :> ARG @@ s2 :> BRA

\* One copy to keep, or one to spare; a sticker that was never counted, and
\* one that is gone.
SomeStock == {s1 :> 1, s1 :> 2 @@ s2 :> 0}

\* Counts at the limits and beyond them, and one copy to keep with two to spare.
Sent == {-1, 0, 3, 100}

\* Ann's tabs are alike.
Tabs == Permutations({c1, c2})
==============================================================================
