----------------------------- MODULE TradeLedger -----------------------------
(***************************************************************************)
(* What the trade service promises, without HTTP calls, transactions or    *)
(* locks: a book of trades and the notifications that go with them, where  *)
(* every change is one step.  A proposal enters the book as "pending"      *)
(* together with the notification of its responder; the responder answers  *)
(* it once, together with the notification of the proposer; notifications  *)
(* can be marked read and never disappear.  Module Trades implements this  *)
(* specification as long as no user has two calls in flight.               *)
(***************************************************************************)
EXTENDS TradeTables

ledgerVars == <<trades, notes>>

------------------------------------------------------------------------------
Init == /\ trades = << >>
        /\ notes = << >>

Propose(t, n) ==
  /\ t \notin DOMAIN trades
  /\ n \notin DOMAIN notes
  /\ \E p, r \in Users, O, R \in (SUBSET Stickers) \ {{}} :
       /\ p # r
       /\ trades' = WithRow(trades, t, NewTrade(p, r, O, R))
       /\ notes' = WithRow(notes, n, NewNote(r, Received, p))

Answer(t, n) ==
  /\ t \in DOMAIN trades
  /\ trades[t].status = Pending
  /\ n \notin DOMAIN notes
  /\ \E answer \in Answers :
       /\ trades' = [trades EXCEPT ![t].status = answer]
       /\ notes' = WithRow(notes, n, NewNote(trades[t].proposer, answer, t))

MarkRead(n) ==
  /\ n \in DOMAIN notes
  /\ notes' = [notes EXCEPT ![n].read = TRUE]
  /\ UNCHANGED trades

\* The keys a step may use are those of the tables it leaves behind.
Next == \E n \in DOMAIN notes' :
          \/ MarkRead(n)
          \/ \E t \in DOMAIN trades' : Propose(t, n) \/ Answer(t, n)

Spec == Init /\ [][Next]_ledgerVars
==============================================================================
