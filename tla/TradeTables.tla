----------------------------- MODULE TradeTables -----------------------------
(***************************************************************************)
(* The tables trades (with its trade_items) and notifications of           *)
(* migrations/001_schema.sql, as far as the trade service writes them,     *)
(* shared by the promise (TradeLedger) and the service (Trades).           *)
(***************************************************************************)
EXTENDS Naturals

CONSTANTS Users,     \* accounts
          Stickers   \* the sticker catalogue

VARIABLES trades,    \* table trades (with trade_items), by id
          notes      \* table notifications, by id

Received == "trade.request.received"
Accepted == "trade.request.accepted"
Rejected == "trade.request.rejected"
Answers == {Accepted, Rejected}

\* The status column: 'accepted' and 'rejected' go by the name of their event.
Pending == "pending"
Status == {Pending} \cup Answers

TradeRow == [proposer : Users, responder : Users, status : Status,
             offer : SUBSET Stickers, request : SUBSET Stickers]

\* The message of a request names the proposer, that of an answer the trade.
NoteRow == [user : Users, type : {Received} \cup Answers,
            about : Users \cup Nat, read : BOOLEAN]

\* Inserting, or overwriting, the row with primary key k.
WithRow(table, k, row) ==
  [i \in DOMAIN table \cup {k} |-> IF i = k THEN row ELSE table[i]]

NewTrade(p, r, O, R) == [proposer |-> p, responder |-> r, status |-> Pending,
                         offer |-> O, request |-> R]

NewNote(u, type, about) ==
  [user |-> u, type |-> type, about |-> about, read |-> FALSE]
==============================================================================
