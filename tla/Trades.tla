------------------------------- MODULE Trades --------------------------------
(***************************************************************************)
(* The trade service (internal/services/trade_service.go) over PostgreSQL. *)
(*                                                                         *)
(* Every HTTP call runs in a goroutine of its own, here a member of Calls  *)
(* that serves one call after another for the user Caller[c].  A call is a *)
(* sequence of SQL statements; the transactions are opened with the        *)
(* default options, so PostgreSQL runs them READ COMMITTED: each statement *)
(* sees what is committed when it starts, an UPDATE waits for the lock of  *)
(* the row it changes, and nothing else is locked.  Each action is one     *)
(* statement, or a run of statements no other transaction can observe.     *)
(* After the commit the call reads the trade again, outside of the         *)
(* transaction, and hands two events to the WebSocket hub.                 *)
(*                                                                         *)
(* A call may fail at every statement (a database error, or the client     *)
(* hung up and the request context was cancelled) and its process may die  *)
(* at any point.  How the client is answered is left out: a client cannot  *)
(* tell a call that failed before its commit from one that failed after    *)
(* it.  Calls that the service turns down without writing anything (a      *)
(* trade with oneself, empty lists, an unknown trade, a trade already      *)
(* processed) are the guards of the actions that start a call.             *)
(***************************************************************************)
EXTENDS TradeTables, FiniteSets, Sequences

CONSTANTS Calls,      \* goroutines that serve calls, one call at a time
          Caller,     \* Caller[c] is the user authenticated for c's calls
          Counts,     \* the values PUT /api/collections/stickers may write
          MaxCalls    \* bound: calls started in a behaviour

ASSUME CallerAssumption == Caller \in [Calls -> Users]
ASSUME CountsAssumption == Counts \subseteq 0 .. 99 /\ Counts # {}
ASSUME MaxCallsAssumption == MaxCalls \in Nat

VARIABLES
  have,       \* have[u][s]: collection_items.have_count, 0 where there is no row
  everSpare,  \* history: stickers of which u has had two copies at some time
  tradeSeq,   \* sequence behind trades.id
  noteSeq,    \* sequence behind notifications.id
  pc,         \* pc[c]: what c does next
  job,        \* job[c]: the local variables of c's call
  events,     \* events[u]: what the hub was given for u, in order
  started     \* calls started so far

serviceVars == <<tradeSeq, noteSeq, pc, job, events, started>>
tables == <<trades, notes, have, everSpare>>
vars == <<tables, serviceVars>>

MinimumCount == 2       \* copies that make a sticker tradable

Spare(u) == {s \in Stickers : have[u][s] >= MinimumCount}

Job == [kind : {Received} \cup Answers,       \* the event type of the call
        trade : Nat, note : Nat,              \* the rows it writes
        peer : Users,                         \* the user it notifies
        offer : SUBSET Stickers, request : SUBSET Stickers,
        left : SUBSET (Users \X Stickers),    \* ownership still to validate
        seen : Status, count : Nat]           \* what it read after the commit

TradeEvent == [type : {Received} \cup Answers, trade : Nat, status : Status]
UnreadEvent == [count : Nat]

NewJob(kind, t, peer, O, R, left) ==
  [kind |-> kind, trade |-> t, note |-> 0, peer |-> peer, offer |-> O,
   request |-> R, left |-> left, seen |-> Pending, count |-> 0]

NoJob == [kind |-> "none"]

\* The calls that hold the row lock of trade t: from the UPDATE to the commit.
Lockers(t) ==
  {c \in Calls : pc[c] = "commit" /\ job[c].kind \in Answers /\ job[c].trade = t}

UnreadOf(u) == {n \in DOMAIN notes : notes[n].user = u /\ ~notes[n].read}

\* c takes up its next call.
Start(c, label, newJob) ==
  /\ pc[c] = "idle"
  /\ started < MaxCalls
  /\ started' = started + 1
  /\ pc' = [pc EXCEPT ![c] = label]
  /\ job' = [job EXCEPT ![c] = newJob]
  /\ UNCHANGED <<tables, tradeSeq, noteSeq, events>>

Goto(c, label) == pc' = [pc EXCEPT ![c] = label]

\* c's handler returns, one way or another, and its variables are gone.
Finish(c) ==
  /\ Goto(c, "idle")
  /\ job' = [job EXCEPT ![c] = NoJob]

------------------------------------------------------------------------------
(* POST /api/trades                                                         *)

CreateTrade(c, r, O, R) ==
  /\ r # Caller[c]
  /\ O # {}
  /\ R # {}
  /\ Start(c, "validate",
           NewJob(Received, 0, r, O, R, ({Caller[c]} \X O) \cup ({r} \X R)))

\* Mutant: only the offered stickers are validated.
ValidateOfferedOnly(c) ==
  /\ pc[c] = "validate"
  /\ \E x \in job[c].left :
       /\ x[1] = job[c].peer => \A y \in job[c].left : y[1] = job[c].peer
       /\ IF x[1] = job[c].peer \/ x[2] \in Spare(x[1])
          THEN /\ job' = [job EXCEPT ![c].left = @ \ {x}]
               /\ UNCHANGED pc
          ELSE Finish(c)
  /\ UNCHANGED <<tables, tradeSeq, noteSeq, events, started>>

\* One SELECT per sticker, the offered ones before the requested ones.
ValidateTradeOwnership(c) ==
  /\ pc[c] = "validate"
  /\ \E x \in job[c].left :
       /\ x[1] = job[c].peer => \A y \in job[c].left : y[1] = job[c].peer
       /\ IF x[2] \in Spare(x[1])
          THEN /\ job' = [job EXCEPT ![c].left = @ \ {x}]
               /\ UNCHANGED pc
          ELSE Finish(c)
  /\ UNCHANGED <<tables, tradeSeq, noteSeq, events, started>>

\* Mutant: the trade's key is the largest one so far plus one.
InsertTradeUncounted(c) ==
  /\ pc[c] = "validate"
  /\ job[c].left = {}
  /\ noteSeq' = noteSeq + 1
  /\ job' = [job EXCEPT ![c].trade = Cardinality(DOMAIN trades) + 1, ![c].note = noteSeq + 1]
  /\ Goto(c, "commit")
  /\ UNCHANGED <<tables, tradeSeq, events, started>>

\* Mutant: the event is published before the commit.
InsertTradeEarlyEvent(c) ==
  /\ pc[c] = "validate"
  /\ job[c].left = {}
  /\ tradeSeq' = tradeSeq + 1
  /\ noteSeq' = noteSeq + 1
  /\ job' = [job EXCEPT ![c].trade = tradeSeq + 1, ![c].note = noteSeq + 1]
  /\ events' = [events EXCEPT ![job[c].peer] =
       Append(@, [type |-> Received, trade |-> tradeSeq + 1, status |-> Pending])]
  /\ Goto(c, "commit")
  /\ UNCHANGED <<tables, started>>

\* The rows of trades, trade_items and notifications, invisible until the
\* commit; only the two sequences move at once, and never move back.
InsertTrade(c) ==
  /\ pc[c] = "validate"
  /\ job[c].left = {}
  /\ tradeSeq' = tradeSeq + 1
  /\ noteSeq' = noteSeq + 1
  /\ job' = [job EXCEPT ![c].trade = tradeSeq + 1, ![c].note = noteSeq + 1]
  /\ Goto(c, "commit")
  /\ UNCHANGED <<tables, events, started>>

(* PUT /api/trades/{id}/respond                                             *)

\* The SELECT takes no lock: the status it saw may be stale at the UPDATE.
RespondTrade(c, t, answer) ==
  /\ t \in DOMAIN trades
  /\ trades[t].responder = Caller[c]
  /\ trades[t].status = Pending
  /\ Start(c, "update", NewJob(answer, t, trades[t].proposer, {}, {}, {}))

\* Mutant: the answer is written without waiting for the row's lock.
UpdateTradeUnlocked(c) ==
  /\ pc[c] = "update"
  /\ noteSeq' = noteSeq + 1
  /\ job' = [job EXCEPT ![c].note = noteSeq + 1]
  /\ Goto(c, "commit")
  /\ UNCHANGED <<tables, tradeSeq, events, started>>

\* Mutant: the SELECT locks the row FOR SHARE, and the UPDATE waits for the
\* others that did so.
UpdateTradeShared(c) ==
  /\ pc[c] = "update"
  /\ \A d \in Calls \ {c} :
       pc[d] \in {"update", "commit"} /\ job[d].kind \in Answers =>
         job[d].trade # job[c].trade
  /\ noteSeq' = noteSeq + 1
  /\ job' = [job EXCEPT ![c].note = noteSeq + 1]
  /\ Goto(c, "commit")
  /\ UNCHANGED <<tables, tradeSeq, events, started>>

\* The UPDATE waits for the row lock and tests nothing but the id; the
\* notification is inserted by the same transaction, after it.
UpdateTrade(c) ==
  /\ pc[c] = "update"
  /\ Lockers(job[c].trade) = {}
  /\ noteSeq' = noteSeq + 1
  /\ job' = [job EXCEPT ![c].note = noteSeq + 1]
  /\ Goto(c, "commit")
  /\ UNCHANGED <<tables, tradeSeq, events, started>>

(* The commit, and what both calls do after it                              *)

\* Mutant: the notification is not part of the transaction.
CommitWithoutNote(c) ==
  LET j == job[c] IN
  /\ pc[c] = "commit"
  /\ IF j.kind = Received
     THEN trades' = WithRow(trades, j.trade,
                            NewTrade(Caller[c], j.peer, j.offer, j.request))
     ELSE trades' = [trades EXCEPT ![j.trade].status = j.kind]
  /\ Goto(c, "reload")
  /\ UNCHANGED <<notes, have, everSpare, tradeSeq, noteSeq, job, events, started>>

\* The transaction's writes become visible and its row lock is released.
Commit(c) ==
  LET j == job[c] IN
  /\ pc[c] = "commit"
  /\ \/ /\ j.kind = Received
        /\ trades' = WithRow(trades, j.trade,
                             NewTrade(Caller[c], j.peer, j.offer, j.request))
        /\ notes' = WithRow(notes, j.note, NewNote(j.peer, Received, Caller[c]))
     \/ /\ j.kind \in Answers
        /\ trades' = [trades EXCEPT ![j.trade].status = j.kind]
        /\ notes' = WithRow(notes, j.note, NewNote(j.peer, j.kind, j.trade))
  /\ Goto(c, "reload")
  /\ UNCHANGED <<have, everSpare, tradeSeq, noteSeq, job, events, started>>

\* Mutant: the event shows the trade as it was read before the update.
ReloadNothing(c) ==
  /\ pc[c] = "reload"
  /\ Goto(c, "publish")
  /\ UNCHANGED <<tables, tradeSeq, noteSeq, job, events, started>>

\* GetTradeByID, for the response body and the payload of the event.
Reload(c) ==
  /\ pc[c] = "reload"
  /\ job' = [job EXCEPT ![c].seen = trades[job[c].trade].status]
  /\ Goto(c, "publish")
  /\ UNCHANGED <<tables, tradeSeq, noteSeq, events, started>>

PublishTrade(c) ==
  /\ pc[c] = "publish"
  /\ events' = [events EXCEPT ![job[c].peer] =
       Append(@, [type |-> job[c].kind, trade |-> job[c].trade,
                  status |-> job[c].seen])]
  /\ Goto(c, "count")
  /\ UNCHANGED <<tables, tradeSeq, noteSeq, job, started>>

\* publishUnreadCount: the SELECT COUNT(*), then the event.
CountUnread(c) ==
  /\ pc[c] = "count"
  /\ job' = [job EXCEPT ![c].count = Cardinality(UnreadOf(job[c].peer))]
  /\ Goto(c, "push")
  /\ UNCHANGED <<tables, tradeSeq, noteSeq, events, started>>

PublishUnread(c) ==
  /\ pc[c] = "push"
  /\ events' = [events EXCEPT ![job[c].peer] = Append(@, [count |-> job[c].count])]
  /\ Finish(c)
  /\ UNCHANGED <<tables, tradeSeq, noteSeq, started>>

------------------------------------------------------------------------------
(* Failures, and what other calls do to the tables                          *)

\* A statement fails, the client hangs up or the process dies.  Before the
\* commit the transaction is rolled back and its lock released; after it the
\* rows stay and the events still to come are lost.  A commit that took
\* effect without being confirmed is a Commit followed by this.
GiveUp(c) ==
  /\ pc[c] # "idle"
  /\ Finish(c)
  /\ UNCHANGED <<tables, tradeSeq, noteSeq, events, started>>

\* The upsert of CollectionService.UpdateItem, when it commits.
UpdateItem(u, s, n) ==
  /\ have' = [have EXCEPT ![u][s] = n]
  /\ everSpare' = [everSpare EXCEPT ![u] =
                     IF n >= MinimumCount THEN @ \cup {s} ELSE @]
  /\ UNCHANGED <<trades, notes, serviceVars>>

\* NotificationHandler.MarkRead: one statement, and no event.
MarkNotificationRead(u, n) ==
  /\ n \in DOMAIN notes
  /\ notes[n].user = u
  /\ notes' = [notes EXCEPT ![n].read = TRUE]
  /\ UNCHANGED <<trades, have, everSpare, serviceVars>>

------------------------------------------------------------------------------
Init ==
  /\ trades = << >>
  /\ notes = << >>
  /\ have \in [Users -> [Stickers -> Counts]]
  /\ everSpare = [u \in Users |-> Spare(u)]
  /\ tradeSeq = 0
  /\ noteSeq = 0
  /\ pc = [c \in Calls |-> "idle"]
  /\ job = [c \in Calls |-> NoJob]
  /\ events = [u \in Users |-> << >>]
  /\ started = 0

Request(c) ==
  \/ \E r \in Users, O, R \in SUBSET Stickers : CreateTrade(c, r, O, R)
  \/ \E t \in DOMAIN trades, answer \in Answers : RespondTrade(c, t, answer)

Proceed(c) ==
  \/ ValidateTradeOwnership(c) \/ InsertTrade(c) \/ UpdateTrade(c) \/ Commit(c)
  \/ Reload(c) \/ PublishTrade(c) \/ CountUnread(c) \/ PublishUnread(c)

Next ==
  \/ \E c \in Calls : Request(c) \/ Proceed(c) \/ GiveUp(c)
  \/ \E u \in Users, s \in Stickers, n \in Counts : UpdateItem(u, s, n)
  \/ \E u \in Users, n \in DOMAIN notes : MarkNotificationRead(u, n)

Spec == Init /\ [][Next]_vars

\* A goroutine that can go on is scheduled and PostgreSQL answers; it queues
\* the transactions that wait for a row, so none is overtaken for ever.
FairSpec ==
  Spec /\ \A c \in Calls : WF_vars(Proceed(c)) /\ SF_vars(UpdateTrade(c))

------------------------------------------------------------------------------
TypeOK ==
  /\ tradeSeq \in Nat /\ noteSeq \in Nat /\ started \in Nat
  /\ trades \in [DOMAIN trades -> TradeRow] /\ DOMAIN trades \subseteq 1 .. tradeSeq
  /\ notes \in [DOMAIN notes -> NoteRow] /\ DOMAIN notes \subseteq 1 .. noteSeq
  /\ have \in [Users -> [Stickers -> Counts]]
  /\ everSpare \in [Users -> SUBSET Stickers]
  /\ pc \in [Calls -> {"idle", "validate", "update", "commit", "reload",
                       "publish", "count", "push"}]
  /\ job \in [Calls -> Job \cup {NoJob}]
  /\ \A c \in Calls : pc[c] # "idle" => job[c] \in Job
  /\ events \in [Users -> Seq(TradeEvent \cup UnreadEvent)]

\* The notifications that answer trade t.
AnswersTo(t) == {n \in DOMAIN notes : notes[n].type \in Answers /\ notes[n].about = t}

\* However many answers to a trade race each other, its status is the one the
\* latest notification (by id) reports, and a trade nobody was told about is
\* still pending: the row lock is taken before the notification's id.
StatusIsLatestAnswer ==
  \A t \in DOMAIN trades :
    /\ AnswersTo(t) = {} <=> trades[t].status = Pending
    /\ \A n \in AnswersTo(t) :
         (\A m \in AnswersTo(t) : m <= n) => notes[n].type = trades[t].status

\* The requests of p that r was notified of.
RequestNotes(p, r) ==
  {n \in DOMAIN notes : /\ notes[n].type = Received
                        /\ notes[n].user = r
                        /\ notes[n].about = p}

\* Rows and notifications of a transaction appear together: p has asked r as
\* many times as r was notified of a request by p.
RequestsAreNotified ==
  \A p, r \in Users :
    Cardinality({t \in DOMAIN trades : trades[t].proposer = p /\ trades[t].responder = r})
    = Cardinality(RequestNotes(p, r))

\* The trades that events have announced to r as requests of p.
Announced(p, r) ==
  {t \in DOMAIN trades :
     /\ trades[t].proposer = p
     /\ \E i \in DOMAIN events[r] : /\ events[r][i] \in TradeEvent
                                    /\ events[r][i].type = Received
                                    /\ events[r][i].trade = t}

\* Nobody is told about work that was rolled back: behind every trade event
\* handed to the hub there is a committed trade, and a committed notification
\* of the same kind for the same user; each request that was announced has a
\* notification of its own.
EventsAreCommitted ==
  \A u \in Users :
    /\ \A i \in DOMAIN events[u] :
         events[u][i] \in TradeEvent =>
           LET e == events[u][i] IN
           /\ e.trade \in DOMAIN trades
           /\ IF e.type = Received
              THEN trades[e.trade].responder = u
              ELSE \E n \in AnswersTo(e.trade) : notes[n].type = e.type /\ notes[n].user = u
    /\ \A p \in Users : Cardinality(Announced(p, u)) <= Cardinality(RequestNotes(p, u))

\* The trade that an event carries is read after the commit, outside of the
\* transaction, and another answer may have been committed in between.  It never
\* shows less than the event announces: a request is shown pending or with a
\* committed answer to it, and an answer with one that was given no earlier.
PayloadsAreRecent ==
  \A u \in Users : \A i \in DOMAIN events[u] :
    events[u][i] \in TradeEvent =>
      LET e == events[u][i] IN
      \/ e.type = Received /\ e.status = Pending
      \/ \E n \in AnswersTo(e.trade) :
           /\ notes[n].type = e.status
           /\ e.type # Received => \E m \in AnswersTo(e.trade) : m <= n /\ notes[m].type = e.type

\* Counts may drop while a proposal is being validated and after it, but no
\* trade names a sticker of which the giver never had two copies.
OffersWereSpare ==
  \A t \in DOMAIN trades : /\ trades[t].offer \subseteq everSpare[trades[t].proposer]
                           /\ trades[t].request \subseteq everSpare[trades[t].responder]

\* A user whose calls never overlap.
OneCallPerUser == \A c, d \in Calls : Caller[c] = Caller[d] => c = d

\* "trade already processed" (trade_service.go, RespondTrade): the answer to a
\* trade is final.
AnswerIsFinal ==
  [][\A t \in DOMAIN trades :
       trades[t].status # Pending => trades'[t].status = trades[t].status]_vars

\* Every call is answered or dies: waiting for row locks never deadlocks.
CallsFinish == \A c \in Calls : pc[c] # "idle" ~> pc[c] = "idle"

\* The service implements the ledger (when OneCallPerUser).
Ledger == INSTANCE TradeLedger
ImplementsLedger == Ledger!Spec
==============================================================================
