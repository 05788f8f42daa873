------------------------------ MODULE MCTrades -------------------------------
(***************************************************************************)
(* Instances of Trades for TLC.                                            *)
(***************************************************************************)
EXTENDS Trades, TLC

CONSTANTS ann, bob, c1, c2, c3

\* One goroutine for ann, two for bob: bob answers from two browser tabs.
TwoTabs == c1 :> ann @@ c2 :> bob @@ c3 :> bob

\* One goroutine per user.
OneEach == c1 :> ann @@ c2 :> bob

\* Notifications stay unread: marking them read changes no call's progress.
NobodyReads == \A n \in DOMAIN notes' : ~notes'[n].read
==============================================================================
