---------------------------- MODULE TradesProofs -----------------------------
(***************************************************************************)
(* Theorems about Trades, for every set of users, stickers and calls.      *)
(*                                                                         *)
(* The argument: a call in progress keeps what its guards established      *)
(* (JobsOK), calls about to commit hold keys nobody else has (FreshKeys),  *)
(* and a call that answers a trade holds the trade's row lock and a        *)
(* notification later than all that answer the trade (LockedAnswers).      *)
(* What a call gives the hub follows a committed row (Told) and shows no    *)
(* less than it announces (ReadIsRecent); what it offers or asks for was    *)
(* validated on the spare copies of both sides (SpareInv).                  *)
(***************************************************************************)
EXTENDS Trades, FiniteSetTheorems, WellFoundedInduction, TLAPS

\* What the guards a call has passed established is still true.
JobsOK ==
  \A c \in Calls :
    /\ pc[c] = "validate" => job[c].kind = Received
    /\ pc[c] = "update" => job[c].kind \in Answers
    /\ pc[c] # "idle" /\ job[c].kind = Received =>
         job[c].peer # Caller[c] /\ job[c].offer # {} /\ job[c].request # {}
    /\ pc[c] # "idle" /\ job[c].kind \in Answers =>
         /\ job[c].trade \in DOMAIN trades
         /\ job[c].peer = trades[job[c].trade].proposer
         /\ Caller[c] = trades[job[c].trade].responder
    /\ pc[c] \in {"reload", "publish", "count", "push"} =>
         job[c].trade \in DOMAIN trades

\* A call about to commit holds keys that are nobody else's.
FreshKeys ==
  \A c \in Calls : pc[c] = "commit" =>
    /\ job[c].note \in 1 .. noteSeq
    /\ job[c].note \notin DOMAIN notes
    /\ job[c].kind = Received =>
         job[c].trade \in 1 .. tradeSeq /\ job[c].trade \notin DOMAIN trades
    /\ \A d \in Calls : pc[d] = "commit" /\ d # c =>
         /\ job[d].note # job[c].note
         /\ job[d].kind = Received /\ job[c].kind = Received =>
              job[d].trade # job[c].trade

CallsInv == TypeOK /\ JobsOK /\ FreshKeys

------------------------------------------------------------------------------
\* The message kinds differ.
LEMMA Kinds == Received \notin Answers /\ Pending \notin Answers /\ Pending # Received
  BY DEF Received, Answers, Accepted, Rejected, Pending

\* The notifications a user has not read can be counted.
LEMMA UnreadCounted ==
  ASSUME TypeOK, NEW u
  PROVE  Cardinality(UnreadOf(u)) \in Nat
<1>1. IsFiniteSet(1 .. noteSeq)
  <2>1. noteSeq \in Int /\ 1 \in Int
    BY DEF TypeOK
  <2>2. QED
    BY <2>1, FS_Interval, Zenon
<1>2. UnreadOf(u) \subseteq 1 .. noteSeq
  BY DEF TypeOK, UnreadOf
<1>3. QED
  BY <1>1, <1>2, FS_Subset, FS_CardinalityType

------------------------------------------------------------------------------
LEMMA CallsInvInit == Init => CallsInv
<1> SUFFICES ASSUME Init PROVE CallsInv
  OBVIOUS
<1>1. TypeOK
  <2>1. everSpare \in [Users -> SUBSET Stickers]
    BY DEF Init, Spare
  <2>2. have \in [Users -> [Stickers -> Counts]]
    BY DEF Init
  <2>3. /\ trades \in [DOMAIN trades -> TradeRow] /\ DOMAIN trades \subseteq 1 .. tradeSeq
        /\ notes \in [DOMAIN notes -> NoteRow] /\ DOMAIN notes \subseteq 1 .. noteSeq
    BY DEF Init
  <2>4. events \in [Users -> Seq(TradeEvent \cup UnreadEvent)]
    BY DEF Init
  <2>5. QED
    BY <2>1, <2>2, <2>3, <2>4 DEF Init, TypeOK
<1>2. JobsOK /\ FreshKeys
  BY DEF Init, JobsOK, FreshKeys
<1>3. QED
  BY <1>1, <1>2 DEF CallsInv

------------------------------------------------------------------------------
(* One lemma per action.  "started" only counts.                            *)

LEMMA CreateTradeKeepsCalls ==
  ASSUME CallsInv, NEW c \in Calls, NEW r \in Users,
         NEW O \in SUBSET Stickers, NEW R \in SUBSET Stickers,
         CreateTrade(c, r, O, R)
  PROVE  CallsInv'
<1> DEFINE left == ({Caller[c]} \X O) \cup ({r} \X R)
           new == NewJob(Received, 0, r, O, R, left)
<1>1. new \in Job
  BY CallerAssumption DEF Job, NewJob, Status
<1>2. /\ pc[c] = "idle"
      /\ pc' = [pc EXCEPT ![c] = "validate"]
      /\ job' = [job EXCEPT ![c] = new]
      /\ started' = started + 1
      /\ UNCHANGED <<tables, tradeSeq, noteSeq, events>>
      /\ r # Caller[c] /\ O # {} /\ R # {}
  BY DEF CreateTrade, Start
<1>3. new.kind = Received /\ new.peer = r /\ new.offer = O /\ new.request = R
  BY DEF NewJob
<1> HIDE DEF new
<1>4. TypeOK'
  BY <1>1, <1>2 DEF CallsInv, TypeOK, tables
<1>5. JobsOK'
  BY <1>2, <1>3, Kinds DEF CallsInv, TypeOK, JobsOK, tables
<1>6. FreshKeys'
  BY <1>2 DEF CallsInv, TypeOK, FreshKeys, tables
<1>7. QED
  BY <1>4, <1>5, <1>6 DEF CallsInv

LEMMA RespondTradeKeepsCalls ==
  ASSUME CallsInv, NEW c \in Calls, NEW t \in DOMAIN trades, NEW answer \in Answers,
         RespondTrade(c, t, answer)
  PROVE  CallsInv'
<1> DEFINE new == NewJob(answer, t, trades[t].proposer, {}, {}, {})
<1>1. new \in Job
  <2>1. t \in Nat /\ trades[t] \in TradeRow
    BY DEF CallsInv, TypeOK
  <2>2. QED
    BY <2>1 DEF Job, NewJob, Status, TradeRow
<1>2. /\ pc[c] = "idle"
      /\ pc' = [pc EXCEPT ![c] = "update"]
      /\ job' = [job EXCEPT ![c] = new]
      /\ started' = started + 1
      /\ UNCHANGED <<tables, tradeSeq, noteSeq, events>>
      /\ trades[t].responder = Caller[c]
  BY DEF RespondTrade, Start
<1>3. new.kind = answer /\ new.peer = trades[t].proposer /\ new.trade = t
  BY DEF NewJob
<1> HIDE DEF new
<1>4. TypeOK'
  BY <1>1, <1>2 DEF CallsInv, TypeOK, tables
<1>5. JobsOK'
  BY <1>2, <1>3, Kinds DEF CallsInv, TypeOK, JobsOK, tables
<1>6. FreshKeys'
  BY <1>2 DEF CallsInv, TypeOK, FreshKeys, tables
<1>7. QED
  BY <1>4, <1>5, <1>6 DEF CallsInv

\* A call that returns leaves no trace but in the tables.
LEMMA FinishKeepsCalls ==
  ASSUME CallsInv, NEW c \in Calls, Finish(c),
         UNCHANGED <<tables, tradeSeq, noteSeq, started>>,
         events' \in [Users -> Seq(TradeEvent \cup UnreadEvent)]
  PROVE  CallsInv'
<1>1. TypeOK'
  BY DEF CallsInv, TypeOK, tables, Finish, Goto
<1>2. JobsOK'
  BY DEF CallsInv, TypeOK, JobsOK, tables, Finish, Goto
<1>3. FreshKeys'
  BY DEF CallsInv, TypeOK, FreshKeys, tables, Finish, Goto
<1>4. QED
  BY <1>1, <1>2, <1>3 DEF CallsInv

LEMMA ValidateKeepsCalls ==
  ASSUME CallsInv, NEW c \in Calls, ValidateTradeOwnership(c)
  PROVE  CallsInv'
<1>1. CASE Finish(c)
  BY <1>1, FinishKeepsCalls DEF ValidateTradeOwnership, CallsInv, TypeOK
<1>2. CASE ~Finish(c)
  <2>1. PICK x \in job[c].left : /\ pc[c] = "validate"
                               /\ job' = [job EXCEPT ![c].left = @ \ {x}]
                               /\ UNCHANGED <<pc, tables, tradeSeq, noteSeq, events, started>>
    BY <1>2 DEF ValidateTradeOwnership
  <2>2. job[c] \in Job /\ job'[c] = [job[c] EXCEPT !.left = @ \ {x}]
    BY <2>1 DEF CallsInv, TypeOK
  <2>3. job'[c] \in Job
    BY <2>2 DEF Job
  <2>4. TypeOK'
    BY <2>1, <2>3 DEF CallsInv, TypeOK, tables
  <2>5. /\ job'[c].kind = job[c].kind /\ job'[c].peer = job[c].peer
        /\ job'[c].offer = job[c].offer /\ job'[c].request = job[c].request
        /\ job'[c].trade = job[c].trade
        /\ \A d \in Calls : d # c => job'[d] = job[d]
    BY <2>1, <2>2 DEF Job, CallsInv, TypeOK
  <2>6. JobsOK'
    BY <2>1, <2>5 DEF CallsInv, JobsOK, tables
  <2>7. FreshKeys'
    BY <2>1, <2>5 DEF CallsInv, FreshKeys, tables
  <2>8. QED
    BY <2>4, <2>6, <2>7 DEF CallsInv
<1>3. QED
  BY <1>1, <1>2

LEMMA InsertTradeKeepsCalls ==
  ASSUME CallsInv, NEW c \in Calls, InsertTrade(c)
  PROVE  CallsInv'
<1>1. /\ pc[c] = "validate"
      /\ pc' = [pc EXCEPT ![c] = "commit"]
      /\ tradeSeq' = tradeSeq + 1 /\ noteSeq' = noteSeq + 1
      /\ UNCHANGED <<tables, events, started>>
  BY DEF InsertTrade, Goto
<1>2. job[c] \in Job
  BY <1>1 DEF CallsInv, TypeOK
<1>3. job'[c] = [job[c] EXCEPT !.trade = tradeSeq + 1, !.note = noteSeq + 1]
  BY DEF InsertTrade, CallsInv, TypeOK
<1>4. /\ job'[c] \in Job
      /\ job'[c].kind = job[c].kind /\ job'[c].peer = job[c].peer
      /\ job'[c].offer = job[c].offer /\ job'[c].request = job[c].request
      /\ job'[c].trade = tradeSeq + 1 /\ job'[c].note = noteSeq + 1
  <2>1. tradeSeq + 1 \in Nat /\ noteSeq + 1 \in Nat
    BY DEF CallsInv, TypeOK
  <2>2. QED
    BY <1>2, <1>3, <2>1 DEF Job
<1>5. /\ \A d \in Calls : d # c => job'[d] = job[d] /\ pc'[d] = pc[d]
      /\ job' \in [Calls -> Job \cup {NoJob}]
  BY <1>1, <1>4 DEF InsertTrade, CallsInv, TypeOK
<1>6. TypeOK'
  <2>1. /\ DOMAIN trades \subseteq 1 .. tradeSeq' /\ tradeSeq' \in Nat
        /\ DOMAIN notes \subseteq 1 .. noteSeq' /\ noteSeq' \in Nat
    BY <1>1 DEF CallsInv, TypeOK
  <2>2. \A d \in Calls : pc'[d] # "idle" => job'[d] \in Job
    BY <1>4, <1>5 DEF CallsInv, TypeOK
  <2>3. QED
    BY <1>1, <1>5, <2>1, <2>2 DEF CallsInv, TypeOK, tables
<1>7. JobsOK'
  BY <1>1, <1>4, <1>5, Kinds DEF CallsInv, TypeOK, JobsOK, tables
<1>8. FreshKeys'
  BY <1>1, <1>4, <1>5 DEF CallsInv, TypeOK, FreshKeys, tables
<1>9. QED
  BY <1>6, <1>7, <1>8 DEF CallsInv

LEMMA UpdateTradeKeepsCalls ==
  ASSUME CallsInv, NEW c \in Calls, UpdateTrade(c)
  PROVE  CallsInv'
<1>1. /\ pc[c] = "update"
      /\ pc' = [pc EXCEPT ![c] = "commit"]
      /\ noteSeq' = noteSeq + 1
      /\ UNCHANGED <<tables, tradeSeq, events, started>>
  BY DEF UpdateTrade, Goto
<1>2. job[c] \in Job
  BY <1>1 DEF CallsInv, TypeOK
<1>3. job'[c] = [job[c] EXCEPT !.note = noteSeq + 1]
  BY DEF UpdateTrade, CallsInv, TypeOK
<1>4. /\ job'[c] \in Job
      /\ job'[c].kind = job[c].kind /\ job'[c].peer = job[c].peer
      /\ job'[c].offer = job[c].offer /\ job'[c].request = job[c].request
      /\ job'[c].trade = job[c].trade /\ job'[c].note = noteSeq + 1
  <2>1. tradeSeq + 1 \in Nat /\ noteSeq + 1 \in Nat
    BY DEF CallsInv, TypeOK
  <2>2. QED
    BY <1>2, <1>3, <2>1 DEF Job
<1>5. /\ \A d \in Calls : d # c => job'[d] = job[d] /\ pc'[d] = pc[d]
      /\ job' \in [Calls -> Job \cup {NoJob}]
  BY <1>1, <1>4 DEF UpdateTrade, CallsInv, TypeOK
<1>6. TypeOK'
  <2>1. /\ DOMAIN trades \subseteq 1 .. tradeSeq' /\ tradeSeq' \in Nat
        /\ DOMAIN notes \subseteq 1 .. noteSeq' /\ noteSeq' \in Nat
    BY <1>1 DEF CallsInv, TypeOK
  <2>2. \A d \in Calls : pc'[d] # "idle" => job'[d] \in Job
    BY <1>4, <1>5 DEF CallsInv, TypeOK
  <2>3. QED
    BY <1>1, <1>5, <2>1, <2>2 DEF CallsInv, TypeOK, tables
<1>7. JobsOK'
  BY <1>1, <1>4, <1>5, Kinds DEF CallsInv, TypeOK, JobsOK, tables
<1>8. FreshKeys'
  BY <1>1, <1>4, <1>5, Kinds DEF CallsInv, TypeOK, JobsOK, FreshKeys, tables
<1>9. QED
  BY <1>6, <1>7, <1>8 DEF CallsInv

LEMMA CommitKeepsCalls ==
  ASSUME CallsInv, NEW c \in Calls, Commit(c)
  PROVE  CallsInv'
<1> DEFINE j == job[c]
<1>1. /\ pc[c] = "commit"
      /\ pc' = [pc EXCEPT ![c] = "reload"]
      /\ UNCHANGED <<have, everSpare, tradeSeq, noteSeq, job, events, started>>
      /\ j \in Job
      /\ j.note \in 1 .. noteSeq /\ j.note \notin DOMAIN notes
  BY DEF Commit, Goto, CallsInv, TypeOK, FreshKeys
<1>2. CASE /\ j.kind = Received
           /\ trades' = WithRow(trades, j.trade,
                                NewTrade(Caller[c], j.peer, j.offer, j.request))
           /\ notes' = WithRow(notes, j.note, NewNote(j.peer, Received, Caller[c]))
  <2> DEFINE row == NewTrade(Caller[c], j.peer, j.offer, j.request)
             note == NewNote(j.peer, Received, Caller[c])
  <2>1. /\ row \in TradeRow /\ note \in NoteRow
        /\ j.trade \in 1 .. tradeSeq /\ j.trade \notin DOMAIN trades
    BY <1>1, <1>2, CallerAssumption
       DEF TradeRow, NoteRow, NewTrade, NewNote, Status, Job, CallsInv, FreshKeys
  <2> HIDE DEF row, note
  <2>2. /\ DOMAIN trades' = DOMAIN trades \cup {j.trade}
        /\ trades'[j.trade] = row
        /\ \A t \in DOMAIN trades : trades'[t] = trades[t]
        /\ trades' = [t \in DOMAIN trades' |-> trades'[t]]
    <3>1. trades' = WithRow(trades, j.trade, row) /\ j.trade \notin DOMAIN trades
      BY <1>2, <2>1 DEF row
    <3>2. QED
      BY <3>1 DEF WithRow
  <2>3. /\ DOMAIN notes' = DOMAIN notes \cup {j.note}
        /\ notes'[j.note] = note
        /\ \A n \in DOMAIN notes : notes'[n] = notes[n]
        /\ notes' = [n \in DOMAIN notes' |-> notes'[n]]
    <3>1. notes' = WithRow(notes, j.note, note) /\ j.note \notin DOMAIN notes
      BY <1>1, <1>2 DEF note
    <3>2. QED
      BY <3>1 DEF WithRow
  <2>4. trades' \in [DOMAIN trades' -> TradeRow] /\ DOMAIN trades' \subseteq 1 .. tradeSeq
    BY <2>1, <2>2 DEF CallsInv, TypeOK
  <2>5. notes' \in [DOMAIN notes' -> NoteRow] /\ DOMAIN notes' \subseteq 1 .. noteSeq
    BY <1>1, <2>1, <2>3 DEF CallsInv, TypeOK
  <2>6. TypeOK'
    BY <1>1, <2>4, <2>5 DEF CallsInv, TypeOK
  <2>7. JobsOK'
    BY <1>1, <1>2, <2>2, Kinds DEF CallsInv, TypeOK, JobsOK
  <2>8. FreshKeys'
    BY <1>1, <1>2, <2>2, <2>3 DEF CallsInv, TypeOK, FreshKeys
  <2>9. QED
    BY <2>6, <2>7, <2>8 DEF CallsInv
<1>3. CASE /\ j.kind \in Answers
           /\ trades' = [trades EXCEPT ![j.trade].status = j.kind]
           /\ notes' = WithRow(notes, j.note, NewNote(j.peer, j.kind, j.trade))
  <2> DEFINE note == NewNote(j.peer, j.kind, j.trade)
  <2>1. /\ note \in NoteRow
        /\ j.trade \in DOMAIN trades /\ trades[j.trade] \in TradeRow
    BY <1>1, <1>3 DEF NoteRow, NewNote, Job, CallsInv, TypeOK, JobsOK
  <2> HIDE DEF note
  <2>2. /\ DOMAIN trades' = DOMAIN trades
        /\ trades'[j.trade] = [trades[j.trade] EXCEPT !.status = j.kind]
        /\ \A t \in DOMAIN trades : t # j.trade => trades'[t] = trades[t]
        /\ trades' = [t \in DOMAIN trades' |-> trades'[t]]
    BY <1>3, <2>1 DEF CallsInv, TypeOK
  <2>3. /\ DOMAIN notes' = DOMAIN notes \cup {j.note}
        /\ notes'[j.note] = note
        /\ \A n \in DOMAIN notes : notes'[n] = notes[n]
        /\ notes' = [n \in DOMAIN notes' |-> notes'[n]]
    <3>1. notes' = WithRow(notes, j.note, note) /\ j.note \notin DOMAIN notes
      BY <1>1, <1>3 DEF note
    <3>2. QED
      BY <3>1 DEF WithRow
  <2>4. /\ trades'[j.trade] \in TradeRow
        /\ trades'[j.trade].proposer = trades[j.trade].proposer
        /\ trades'[j.trade].responder = trades[j.trade].responder
    BY <1>3, <2>1, <2>2 DEF TradeRow, Status
  <2>5. /\ trades' \in [DOMAIN trades' -> TradeRow] /\ DOMAIN trades' \subseteq 1 .. tradeSeq
        /\ notes' \in [DOMAIN notes' -> NoteRow] /\ DOMAIN notes' \subseteq 1 .. noteSeq
    <3>1. \A t \in DOMAIN trades' : trades'[t] \in TradeRow
      BY <2>2, <2>4 DEF CallsInv, TypeOK
    <3>2. DOMAIN trades' \subseteq 1 .. tradeSeq
      BY <2>2 DEF CallsInv, TypeOK
    <3>3. \A n \in DOMAIN notes' : notes'[n] \in NoteRow
      BY <2>1, <2>3 DEF CallsInv, TypeOK
    <3>4. DOMAIN notes' \subseteq 1 .. noteSeq
      BY <1>1, <2>3 DEF CallsInv, TypeOK
    <3>5. QED
      BY <2>2, <2>3, <3>1, <3>2, <3>3, <3>4
  <2>6. TypeOK'
    BY <1>1, <2>5 DEF CallsInv, TypeOK
  <2>7. JobsOK'
    <3>1. \A t \in DOMAIN trades : /\ t \in DOMAIN trades'
                                  /\ trades'[t].proposer = trades[t].proposer
                                  /\ trades'[t].responder = trades[t].responder
      BY <2>2, <2>4
    <3>2. \A d \in Calls : /\ d # c => pc'[d] = pc[d]
                            /\ pc'[c] = "reload"
      BY <1>1 DEF CallsInv, TypeOK
    <3>3. QED
      BY <1>1, <1>3, <2>1, <3>1, <3>2, Kinds DEF CallsInv, JobsOK
  <2>8. FreshKeys'
    BY <1>1, <1>3, <2>2, <2>3 DEF CallsInv, TypeOK, FreshKeys
  <2>9. QED
    BY <2>6, <2>7, <2>8 DEF CallsInv
<1>4. QED
  BY <1>2, <1>3 DEF Commit

LEMMA ReloadKeepsCalls ==
  ASSUME CallsInv, NEW c \in Calls, Reload(c)
  PROVE  CallsInv'
<1>1. /\ pc[c] = "reload"
      /\ pc' = [pc EXCEPT ![c] = "publish"]
      /\ UNCHANGED <<tables, tradeSeq, noteSeq, events, started>>
      /\ job[c] \in Job /\ job[c].trade \in DOMAIN trades
  BY DEF Reload, Goto, CallsInv, TypeOK, JobsOK
<1>2. job'[c] = [job[c] EXCEPT !.seen = trades[job[c].trade].status]
  BY DEF Reload, CallsInv, TypeOK
<1>3. trades[job[c].trade].status \in Status
  BY <1>1 DEF CallsInv, TypeOK, TradeRow
<1>4. /\ job'[c] \in Job
      /\ job'[c].kind = job[c].kind /\ job'[c].peer = job[c].peer
      /\ job'[c].offer = job[c].offer /\ job'[c].request = job[c].request
      /\ job'[c].trade = job[c].trade
  BY <1>1, <1>2, <1>3 DEF Job
<1>5. /\ \A d \in Calls : d # c => job'[d] = job[d] /\ pc'[d] = pc[d]
      /\ job' \in [Calls -> Job \cup {NoJob}]
  BY <1>1, <1>4 DEF Reload, CallsInv, TypeOK
<1>6. TypeOK'
  BY <1>1, <1>4, <1>5 DEF CallsInv, TypeOK, tables
<1>7. JobsOK'
  BY <1>1, <1>4, <1>5 DEF CallsInv, TypeOK, JobsOK, tables
<1>8. FreshKeys'
  BY <1>1, <1>4, <1>5 DEF CallsInv, TypeOK, FreshKeys, tables
<1>9. QED
  BY <1>6, <1>7, <1>8 DEF CallsInv

LEMMA CountUnreadKeepsCalls ==
  ASSUME CallsInv, NEW c \in Calls, CountUnread(c)
  PROVE  CallsInv'
<1>1. /\ pc[c] = "count"
      /\ pc' = [pc EXCEPT ![c] = "push"]
      /\ UNCHANGED <<tables, tradeSeq, noteSeq, events, started>>
      /\ job[c] \in Job
  BY DEF CountUnread, Goto, CallsInv, TypeOK
<1>2. job'[c] = [job[c] EXCEPT !.count = Cardinality(UnreadOf(job[c].peer))]
  BY DEF CountUnread, CallsInv, TypeOK
<1>3. Cardinality(UnreadOf(job[c].peer)) \in Nat
  BY UnreadCounted DEF CallsInv
<1>4. /\ job'[c] \in Job
      /\ job'[c].kind = job[c].kind /\ job'[c].peer = job[c].peer
      /\ job'[c].offer = job[c].offer /\ job'[c].request = job[c].request
      /\ job'[c].trade = job[c].trade
  BY <1>1, <1>2, <1>3 DEF Job
<1>5. /\ \A d \in Calls : d # c => job'[d] = job[d] /\ pc'[d] = pc[d]
      /\ job' \in [Calls -> Job \cup {NoJob}]
  BY <1>1, <1>4 DEF CountUnread, CallsInv, TypeOK
<1>6. TypeOK'
  BY <1>1, <1>4, <1>5 DEF CallsInv, TypeOK, tables
<1>7. JobsOK'
  BY <1>1, <1>4, <1>5 DEF CallsInv, TypeOK, JobsOK, tables
<1>8. FreshKeys'
  BY <1>1, <1>4, <1>5 DEF CallsInv, TypeOK, FreshKeys, tables
<1>9. QED
  BY <1>6, <1>7, <1>8 DEF CallsInv

\* One more event for u.
LEMMA EventsStayTyped ==
  ASSUME CallsInv, NEW u \in Users, NEW e \in TradeEvent \cup UnreadEvent,
         events' = [events EXCEPT ![u] = Append(@, e)]
  PROVE  events' \in [Users -> Seq(TradeEvent \cup UnreadEvent)]
<1> DEFINE E == TradeEvent \cup UnreadEvent
<1>1. events \in [Users -> Seq(E)] /\ e \in E
  BY DEF CallsInv, TypeOK
<1> HIDE DEF E
<1>2. Append(events[u], e) \in Seq(E)
  BY <1>1
<1>3. events' \in [Users -> Seq(E)]
  BY <1>1, <1>2
<1>4. QED
  BY <1>3 DEF E

LEMMA PublishTradeKeepsCalls ==
  ASSUME CallsInv, NEW c \in Calls, PublishTrade(c)
  PROVE  CallsInv'
<1>1. /\ pc[c] = "publish"
      /\ pc' = [pc EXCEPT ![c] = "count"]
      /\ UNCHANGED <<tables, tradeSeq, noteSeq, job, started>>
      /\ job[c] \in Job
  BY DEF PublishTrade, Goto, CallsInv, TypeOK
<1>2. events' \in [Users -> Seq(TradeEvent \cup UnreadEvent)]
  <2>1. [type |-> job[c].kind, trade |-> job[c].trade, status |-> job[c].seen]
          \in TradeEvent
    BY <1>1 DEF TradeEvent, Job
  <2>2. job[c].peer \in Users
    BY <1>1 DEF Job
  <2>3. QED
    BY <2>1, <2>2, EventsStayTyped DEF PublishTrade
<1>3. TypeOK'
  BY <1>1, <1>2 DEF CallsInv, TypeOK, tables
<1>4. JobsOK'
  BY <1>1 DEF CallsInv, TypeOK, JobsOK, tables
<1>5. FreshKeys'
  BY <1>1 DEF CallsInv, TypeOK, FreshKeys, tables
<1>6. QED
  BY <1>3, <1>4, <1>5 DEF CallsInv

LEMMA PublishUnreadKeepsCalls ==
  ASSUME CallsInv, NEW c \in Calls, PublishUnread(c)
  PROVE  CallsInv'
<1>1. pc[c] = "push" /\ job[c] \in Job
  BY DEF PublishUnread, CallsInv, TypeOK
<1>2. [count |-> job[c].count] \in UnreadEvent /\ job[c].peer \in Users
  BY <1>1 DEF UnreadEvent, Job
<1>3. events' \in [Users -> Seq(TradeEvent \cup UnreadEvent)]
  BY <1>2, EventsStayTyped DEF PublishUnread
<1>4. QED
  BY <1>3, FinishKeepsCalls DEF PublishUnread

LEMMA GiveUpKeepsCalls ==
  ASSUME CallsInv, NEW c \in Calls, GiveUp(c)
  PROVE  CallsInv'
  BY FinishKeepsCalls DEF GiveUp, CallsInv, TypeOK

LEMMA UpdateItemKeepsCalls ==
  ASSUME CallsInv, NEW u \in Users, NEW s \in Stickers, NEW n \in Counts,
         UpdateItem(u, s, n)
  PROVE  CallsInv'
<1>1. have' \in [Users -> [Stickers -> Counts]]
  BY DEF UpdateItem, CallsInv, TypeOK
<1>2. everSpare' \in [Users -> SUBSET Stickers]
  BY DEF UpdateItem, CallsInv, TypeOK
<1>3. UNCHANGED <<trades, notes, serviceVars>>
  BY DEF UpdateItem
<1>4. TypeOK'
  BY <1>1, <1>2, <1>3 DEF CallsInv, TypeOK, serviceVars
<1>5. JobsOK' /\ FreshKeys'
  BY <1>3 DEF CallsInv, JobsOK, FreshKeys, serviceVars
<1>6. QED
  BY <1>4, <1>5 DEF CallsInv

\* Marking a notification as read changes nothing else in it.
LEMMA MarkReadFacts ==
  ASSUME CallsInv, NEW u \in Users, NEW n \in DOMAIN notes, MarkNotificationRead(u, n)
  PROVE  /\ notes' \in [DOMAIN notes -> NoteRow] /\ DOMAIN notes' = DOMAIN notes
         /\ \A m \in DOMAIN notes : /\ notes'[m].type = notes[m].type
                                   /\ notes'[m].user = notes[m].user
                                   /\ notes'[m].about = notes[m].about
         /\ UNCHANGED <<trades, have, everSpare, serviceVars>>
<1>1. notes \in [DOMAIN notes -> NoteRow] /\ notes[n] \in NoteRow
  BY DEF CallsInv, TypeOK
<1>2. /\ [notes[n] EXCEPT !.read = TRUE] \in NoteRow
      /\ [notes[n] EXCEPT !.read = TRUE].type = notes[n].type
      /\ [notes[n] EXCEPT !.read = TRUE].user = notes[n].user
      /\ [notes[n] EXCEPT !.read = TRUE].about = notes[n].about
  BY <1>1 DEF NoteRow
<1>3. notes' = [notes EXCEPT ![n] = [notes[n] EXCEPT !.read = TRUE]]
  BY DEF MarkNotificationRead
<1>4. QED
  BY <1>1, <1>2, <1>3 DEF MarkNotificationRead

LEMMA MarkNotificationReadKeepsCalls ==
  ASSUME CallsInv, NEW u \in Users, NEW n \in DOMAIN notes, MarkNotificationRead(u, n)
  PROVE  CallsInv'
<1>1. /\ notes' \in [DOMAIN notes' -> NoteRow] /\ DOMAIN notes' = DOMAIN notes
      /\ UNCHANGED <<trades, have, everSpare, serviceVars>>
  BY MarkReadFacts
<1>2. TypeOK'
  BY <1>1 DEF CallsInv, TypeOK, serviceVars
<1>3. JobsOK' /\ FreshKeys'
  BY <1>1 DEF CallsInv, JobsOK, FreshKeys, serviceVars
<1>4. QED
  BY <1>2, <1>3 DEF CallsInv

------------------------------------------------------------------------------
LEMMA CallsInvNext == CallsInv /\ [Next]_vars => CallsInv'
<1> SUFFICES ASSUME CallsInv, [Next]_vars PROVE CallsInv'
  OBVIOUS
<1>1. ASSUME NEW c \in Calls, Request(c) PROVE CallsInv'
  BY <1>1, CreateTradeKeepsCalls, RespondTradeKeepsCalls DEF Request
<1>2. ASSUME NEW c \in Calls, Proceed(c) PROVE CallsInv'
  BY <1>2, ValidateKeepsCalls, InsertTradeKeepsCalls, UpdateTradeKeepsCalls,
     CommitKeepsCalls, ReloadKeepsCalls, PublishTradeKeepsCalls,
     CountUnreadKeepsCalls, PublishUnreadKeepsCalls DEF Proceed
<1>3. ASSUME NEW c \in Calls, GiveUp(c) PROVE CallsInv'
  BY <1>3, GiveUpKeepsCalls
<1>4. ASSUME NEW u \in Users, NEW s \in Stickers, NEW n \in Counts, UpdateItem(u, s, n)
      PROVE  CallsInv'
  BY <1>4, UpdateItemKeepsCalls
<1>5. ASSUME NEW u \in Users, NEW n \in DOMAIN notes, MarkNotificationRead(u, n)
      PROVE  CallsInv'
  BY <1>5, MarkNotificationReadKeepsCalls
<1>6. CASE UNCHANGED vars
  BY <1>6 DEF vars, tables, serviceVars, CallsInv, TypeOK, JobsOK, FreshKeys
<1>7. QED
  BY <1>1, <1>2, <1>3, <1>4, <1>5, <1>6 DEF Next

LEMMA CallsInvariant == Spec => []CallsInv
  BY CallsInvInit, CallsInvNext, PTL DEF Spec

\* Type correctness of the trade service.
THEOREM TypeCorrect == Spec => []TypeOK
<1>1. CallsInv => TypeOK
  BY DEF CallsInv
<1>2. QED
  BY <1>1, CallsInvariant, PTL

------------------------------------------------------------------------------
(* The status of a trade and the notifications that answer it.              *)

\* c has updated a trade and is about to commit the answer.
Answering(c) == pc[c] = "commit" /\ job[c].kind \in Answers

\* One call at a time holds the lock of a trade, and the notification it is
\* about to insert comes after all that answer the trade.
LockedAnswers ==
  \A c \in Calls : Answering(c) =>
    /\ \A d \in Calls : Answering(d) /\ job[d].trade = job[c].trade => d = c
    /\ \A n \in AnswersTo(job[c].trade) : n < job[c].note

\* Answers are answers to trades that exist.
AnswersRefer ==
  \A n \in DOMAIN notes : notes[n].type \in Answers => notes[n].about \in DOMAIN trades

AnswersInv == LockedAnswers /\ AnswersRefer /\ StatusIsLatestAnswer

\* A step that neither touches the two tables nor makes a call start answering.
LEMMA QuietStepKeepsAnswers ==
  ASSUME AnswersInv, UNCHANGED <<trades, notes>>,
         \A d \in Calls : Answering(d)' => Answering(d) /\ job'[d] = job[d]
  PROVE  AnswersInv'
<1>1. \A t : AnswersTo(t)' = AnswersTo(t)
  BY DEF AnswersTo
<1>2. LockedAnswers'
  BY <1>1 DEF AnswersInv, LockedAnswers
<1>3. AnswersRefer'
  BY DEF AnswersInv, AnswersRefer
<1>4. StatusIsLatestAnswer'
  BY <1>1 DEF AnswersInv, StatusIsLatestAnswer
<1>5. QED
  BY <1>2, <1>3, <1>4 DEF AnswersInv

LEMMA UpdateTradeKeepsAnswers ==
  ASSUME CallsInv, AnswersInv, NEW c \in Calls, UpdateTrade(c)
  PROVE  AnswersInv'
<1>1. /\ pc[c] = "update" /\ Lockers(job[c].trade) = {}
      /\ pc' = [pc EXCEPT ![c] = "commit"]
      /\ job[c] \in Job /\ noteSeq \in Nat
      /\ UNCHANGED <<trades, notes>>
  BY DEF UpdateTrade, Goto, tables, CallsInv, TypeOK
<1>2. job'[c] = [job[c] EXCEPT !.note = noteSeq + 1]
  BY DEF UpdateTrade, CallsInv, TypeOK
<1>3. /\ job'[c].trade = job[c].trade /\ job'[c].kind = job[c].kind
      /\ job'[c].note = noteSeq + 1
  BY <1>1, <1>2 DEF Job
<1>4. \A d \in Calls : d # c => job'[d] = job[d] /\ pc'[d] = pc[d]
  BY <1>1 DEF UpdateTrade, CallsInv, TypeOK
<1>5. \A t : AnswersTo(t)' = AnswersTo(t)
  BY <1>1 DEF AnswersTo
<1>6. \A n \in AnswersTo(job[c].trade) : n < noteSeq + 1
  BY DEF AnswersTo, CallsInv, TypeOK
<1>7. \A d \in Calls : Answering(d) => job[d].trade # job[c].trade
  BY <1>1 DEF Lockers, Answering
<1>8. LockedAnswers'
  BY <1>1, <1>3, <1>4, <1>5, <1>6, <1>7 DEF AnswersInv, LockedAnswers, Answering
<1>9. AnswersRefer' /\ StatusIsLatestAnswer'
  BY <1>1, <1>5 DEF AnswersInv, AnswersRefer, StatusIsLatestAnswer
<1>10. QED
  BY <1>8, <1>9 DEF AnswersInv

\* The tables after the commit of a proposal.
LEMMA CommitOfProposal ==
  ASSUME CallsInv, NEW c \in Calls, Commit(c), job[c].kind = Received
  PROVE  LET j == job[c] IN
         /\ j \in Job /\ j.trade \notin DOMAIN trades /\ j.note \notin DOMAIN notes
         /\ DOMAIN trades' = DOMAIN trades \cup {j.trade}
         /\ trades'[j.trade] = NewTrade(Caller[c], j.peer, j.offer, j.request)
         /\ trades'[j.trade].status = Pending
         /\ \A t \in DOMAIN trades : trades'[t] = trades[t]
         /\ DOMAIN notes' = DOMAIN notes \cup {j.note}
         /\ notes'[j.note] = NewNote(j.peer, Received, Caller[c])
         /\ notes'[j.note].type = Received
         /\ \A n \in DOMAIN notes : notes'[n] = notes[n]
<1> DEFINE j == job[c]
           row == NewTrade(Caller[c], j.peer, j.offer, j.request)
           note == NewNote(j.peer, Received, Caller[c])
<1>1. /\ trades' = WithRow(trades, j.trade, row)
      /\ notes' = WithRow(notes, j.note, note)
  BY Kinds DEF Commit
<1>2. j \in Job /\ j.trade \notin DOMAIN trades /\ j.note \notin DOMAIN notes
  BY DEF Commit, CallsInv, TypeOK, FreshKeys
<1> HIDE DEF row, note
<1>3. /\ DOMAIN trades' = DOMAIN trades \cup {j.trade} /\ trades'[j.trade] = row
      /\ \A t \in DOMAIN trades : trades'[t] = trades[t]
  BY <1>1, <1>2 DEF WithRow
<1>4. /\ DOMAIN notes' = DOMAIN notes \cup {j.note} /\ notes'[j.note] = note
      /\ \A n \in DOMAIN notes : notes'[n] = notes[n]
  BY <1>1, <1>2 DEF WithRow
<1>5. row.status = Pending /\ note.type = Received
  BY DEF row, note, NewTrade, NewNote
<1>6. QED
  BY <1>2, <1>3, <1>4, <1>5 DEF row, note

\* The tables after the commit of an answer.
LEMMA CommitOfAnswer ==
  ASSUME CallsInv, NEW c \in Calls, Commit(c), job[c].kind \in Answers
  PROVE  LET j == job[c] IN
         /\ j \in Job /\ j.trade \in DOMAIN trades /\ j.note \notin DOMAIN notes
         /\ DOMAIN trades' = DOMAIN trades
         /\ trades'[j.trade] = [trades[j.trade] EXCEPT !.status = j.kind]
         /\ trades'[j.trade].status = j.kind
         /\ \A t \in DOMAIN trades : t # j.trade => trades'[t] = trades[t]
         /\ DOMAIN notes' = DOMAIN notes \cup {j.note}
         /\ notes'[j.note] = NewNote(j.peer, j.kind, j.trade)
         /\ notes'[j.note].type = j.kind /\ notes'[j.note].about = j.trade
         /\ \A n \in DOMAIN notes : notes'[n] = notes[n]
<1> DEFINE j == job[c]
           note == NewNote(j.peer, j.kind, j.trade)
<1>1. /\ trades' = [trades EXCEPT ![j.trade].status = j.kind]
      /\ notes' = WithRow(notes, j.note, note)
  BY Kinds DEF Commit
<1>2. /\ j \in Job /\ j.trade \in DOMAIN trades /\ j.note \notin DOMAIN notes
      /\ trades \in [DOMAIN trades -> TradeRow]
  BY DEF Commit, CallsInv, TypeOK, JobsOK, FreshKeys
<1> HIDE DEF note
<1>3. /\ DOMAIN trades' = DOMAIN trades
      /\ trades'[j.trade] = [trades[j.trade] EXCEPT !.status = j.kind]
      /\ \A t \in DOMAIN trades : t # j.trade => trades'[t] = trades[t]
  BY <1>1, <1>2
<1>4. trades'[j.trade].status = j.kind
  BY <1>2, <1>3 DEF TradeRow
<1>5. /\ DOMAIN notes' = DOMAIN notes \cup {j.note} /\ notes'[j.note] = note
      /\ \A n \in DOMAIN notes : notes'[n] = notes[n]
  BY <1>1, <1>2 DEF WithRow
<1>6. note.type = j.kind /\ note.about = j.trade
  BY DEF note, NewNote
<1>7. QED
  BY <1>2, <1>3, <1>4, <1>5, <1>6 DEF note

LEMMA CommitKeepsAnswers ==
  ASSUME CallsInv, AnswersInv, NEW c \in Calls, Commit(c)
  PROVE  AnswersInv'
<1> DEFINE j == job[c]
<1>1. /\ pc[c] = "commit" /\ pc' = [pc EXCEPT ![c] = "reload"] /\ job' = job
      /\ ~Answering(c)'
      /\ \A d \in Calls : Answering(d)' => d # c /\ Answering(d) /\ job'[d] = job[d]
  BY DEF Commit, Goto, CallsInv, TypeOK, Answering
<1>2. CASE j.kind = Received
  <2>. /\ j.trade \notin DOMAIN trades /\ j.note \notin DOMAIN notes
       /\ DOMAIN trades' = DOMAIN trades \cup {j.trade}
       /\ trades'[j.trade].status = Pending
       /\ \A t \in DOMAIN trades : trades'[t] = trades[t]
       /\ DOMAIN notes' = DOMAIN notes \cup {j.note}
       /\ notes'[j.note].type = Received
       /\ \A n \in DOMAIN notes : notes'[n] = notes[n]
    BY <1>2, CommitOfProposal, Zenon
  <2>1. \A t \in DOMAIN trades : AnswersTo(t)' = AnswersTo(t)
    BY Kinds DEF AnswersTo
  <2>2. AnswersTo(j.trade)' = {}
    BY <1>1, Kinds DEF AnswersTo, AnswersInv, AnswersRefer
  <2>3. \A d \in Calls : Answering(d) => job[d].trade \in DOMAIN trades
    BY DEF CallsInv, JobsOK, Answering
  <2>4. LockedAnswers'
    BY <1>1, <2>1, <2>3 DEF AnswersInv, LockedAnswers
  <2>5. AnswersRefer'
    BY Kinds DEF AnswersInv, AnswersRefer
  <2>6. StatusIsLatestAnswer'
    <3>1. \A t \in DOMAIN trades : \A n \in AnswersTo(t) : notes'[n] = notes[n]
      BY DEF AnswersTo
    <3>2. \A t \in DOMAIN trades :
            /\ AnswersTo(t)' = {} <=> trades'[t].status = Pending
            /\ \A n \in AnswersTo(t)' :
                 (\A m \in AnswersTo(t)' : m <= n) => notes'[n].type = trades'[t].status
      BY <2>1, <3>1 DEF AnswersInv, StatusIsLatestAnswer
    <3>3. \A t : t = j.trade => AnswersTo(t)' = {}
      BY <1>1, <2>2
    <3>4. QED
      BY <3>2, <3>3 DEF StatusIsLatestAnswer
  <2>7. QED
    BY <2>4, <2>5, <2>6 DEF AnswersInv
<1>3. CASE j.kind \in Answers
  <2>. /\ j.trade \in DOMAIN trades /\ j.note \notin DOMAIN notes
       /\ DOMAIN trades' = DOMAIN trades
       /\ trades'[j.trade].status = j.kind
       /\ \A t \in DOMAIN trades : t # j.trade => trades'[t] = trades[t]
       /\ DOMAIN notes' = DOMAIN notes \cup {j.note}
       /\ notes'[j.note].type = j.kind /\ notes'[j.note].about = j.trade
       /\ \A n \in DOMAIN notes : notes'[n] = notes[n]
    BY <1>3, CommitOfAnswer, Zenon
  <2>1. j.note \in Nat /\ \A n \in AnswersTo(j.trade) : n \in Nat /\ n < j.note
    BY <1>1, <1>3
       DEF CallsInv, TypeOK, Job, AnswersInv, LockedAnswers, Answering, AnswersTo
  <2>2. AnswersTo(j.trade)' = AnswersTo(j.trade) \cup {j.note}
    BY <1>1, <1>3 DEF AnswersTo
  <2>3. \A t : t # j.trade => AnswersTo(t)' = AnswersTo(t)
    BY <1>1, <1>3 DEF AnswersTo
  <2>4. \A d \in Calls : Answering(d) /\ d # c => job[d].trade # j.trade
    BY <1>1, <1>3 DEF AnswersInv, LockedAnswers, Answering
  <2>5. LockedAnswers'
    BY <1>1, <2>3, <2>4 DEF AnswersInv, LockedAnswers
  <2>6. AnswersRefer'
    BY DEF AnswersInv, AnswersRefer
  <2>7. StatusIsLatestAnswer'
    <3> SUFFICES ASSUME NEW t \in DOMAIN trades
                 PROVE  /\ AnswersTo(t)' = {} <=> trades'[t].status = Pending
                        /\ \A n \in AnswersTo(t)' :
                             (\A m \in AnswersTo(t)' : m <= n) =>
                               notes'[n].type = trades'[t].status
      BY DEF StatusIsLatestAnswer
    <3>1. CASE t = j.trade
      <4>1. trades'[t].status = j.kind /\ j.kind # Pending /\ notes'[j.note].type = j.kind
        BY <1>3, <3>1, Kinds
      <4>2. \A n \in AnswersTo(t)' : (\A m \in AnswersTo(t)' : m <= n) => n = j.note
        BY <1>1, <2>1, <2>2, <3>1
      <4>3. QED
        BY <1>1, <2>2, <3>1, <4>1, <4>2
    <3>2. CASE t # j.trade
      <4>1. AnswersTo(t)' = AnswersTo(t) /\ trades'[t] = trades[t]
        BY <2>3, <3>2
      <4>2. \A n \in AnswersTo(t) : notes'[n] = notes[n]
        BY DEF AnswersTo
      <4>3. QED
        BY <4>1, <4>2 DEF AnswersInv, StatusIsLatestAnswer
    <3>3. QED
      BY <3>1, <3>2
  <2>8. QED
    BY <2>5, <2>6, <2>7 DEF AnswersInv
<1>4. QED
  BY <1>2, <1>3 DEF Commit

LEMMA MarkNotificationReadKeepsAnswers ==
  ASSUME CallsInv, AnswersInv, NEW u \in Users, NEW n \in DOMAIN notes,
         MarkNotificationRead(u, n)
  PROVE  AnswersInv'
<1>1. \A t : AnswersTo(t)' = AnswersTo(t)
  BY MarkReadFacts DEF AnswersTo
<1>2. UNCHANGED <<trades, pc, job>>
  BY MarkReadFacts DEF serviceVars
<1>3. LockedAnswers'
  BY <1>1, <1>2 DEF AnswersInv, LockedAnswers, Answering
<1>4. AnswersRefer'
  BY <1>2, MarkReadFacts DEF AnswersInv, AnswersRefer
<1>5. StatusIsLatestAnswer'
  BY <1>1, <1>2, MarkReadFacts DEF AnswersInv, StatusIsLatestAnswer, AnswersTo
<1>6. QED
  BY <1>3, <1>4, <1>5 DEF AnswersInv

LEMMA AnswersInvInit == Init => AnswersInv
  BY DEF Init, AnswersInv, LockedAnswers, AnswersRefer, StatusIsLatestAnswer, Answering

LEMMA AnswersInvNext == CallsInv /\ AnswersInv /\ [Next]_vars => AnswersInv'
<1> SUFFICES ASSUME CallsInv, AnswersInv, [Next]_vars PROVE AnswersInv'
  OBVIOUS
<1>1. ASSUME NEW c \in Calls, Request(c) PROVE AnswersInv'
  <2>1. /\ UNCHANGED <<trades, notes>>
        /\ pc[c] = "idle" /\ pc'[c] # "commit"
        /\ \A d \in Calls : d # c => pc'[d] = pc[d] /\ job'[d] = job[d]
    BY <1>1 DEF Request, CreateTrade, RespondTrade, Start, tables, CallsInv, TypeOK
  <2>2. QED
    BY <2>1, QuietStepKeepsAnswers DEF Answering
<1>2. ASSUME NEW c \in Calls, Proceed(c) \/ GiveUp(c) PROVE AnswersInv'
  <2>1. CASE UpdateTrade(c)
    BY <2>1, UpdateTradeKeepsAnswers
  <2>2. CASE Commit(c)
    BY <2>2, CommitKeepsAnswers
  <2>3. CASE InsertTrade(c)
    <3>1. /\ UNCHANGED <<trades, notes>>
          /\ job[c] \in Job /\ job[c].kind = Received
          /\ job'[c] = [job[c] EXCEPT !.trade = tradeSeq + 1, !.note = noteSeq + 1]
          /\ \A d \in Calls : d # c => pc'[d] = pc[d] /\ job'[d] = job[d]
      BY <2>3 DEF InsertTrade, Goto, tables, CallsInv, TypeOK, JobsOK
    <3>2. job'[c].kind = Received
      BY <3>1 DEF Job
    <3>3. QED
      BY <3>1, <3>2, Kinds, QuietStepKeepsAnswers DEF Answering
  <2>4. CASE GiveUp(c) \/ ValidateTradeOwnership(c) \/ Reload(c) \/ PublishTrade(c)
             \/ CountUnread(c) \/ PublishUnread(c)
    <3>1. /\ UNCHANGED <<trades, notes>> /\ pc'[c] # "commit"
          /\ \A d \in Calls : d # c => pc'[d] = pc[d] /\ job'[d] = job[d]
      BY <2>4 DEF GiveUp, ValidateTradeOwnership, Reload, PublishTrade, CountUnread,
                  PublishUnread, Finish, Goto, tables, CallsInv, TypeOK
    <3>2. QED
      BY <3>1, QuietStepKeepsAnswers DEF Answering
  <2>5. QED
    BY <1>2, <2>1, <2>2, <2>3, <2>4 DEF Proceed
<1>3. ASSUME NEW u \in Users, NEW s \in Stickers, NEW n \in Counts, UpdateItem(u, s, n)
      PROVE  AnswersInv'
  BY <1>3, QuietStepKeepsAnswers DEF UpdateItem, serviceVars, Answering
<1>4. ASSUME NEW u \in Users, NEW n \in DOMAIN notes, MarkNotificationRead(u, n)
      PROVE  AnswersInv'
  BY <1>4, MarkNotificationReadKeepsAnswers
<1>5. CASE UNCHANGED vars
  BY <1>5, QuietStepKeepsAnswers DEF vars, tables, serviceVars, Answering
<1>6. QED
  BY <1>1, <1>2, <1>3, <1>4, <1>5 DEF Next

LEMMA AnswersInvariant == Spec => []AnswersInv
  BY CallsInvariant, AnswersInvInit, AnswersInvNext, PTL DEF Spec

\* The status of a trade is what the latest notification says, however many
\* users answer from however many tabs.
THEOREM LatestAnswer == Spec => []StatusIsLatestAnswer
<1>1. AnswersInv => StatusIsLatestAnswer
  BY DEF AnswersInv
<1>2. QED
  BY <1>1, AnswersInvariant, PTL

------------------------------------------------------------------------------
(* When no user has two calls in flight, the service implements the ledger. *)

\* c has seen the trade pending and has not committed its answer.
Deciding(c) == pc[c] \in {"update", "commit"} /\ job[c].kind \in Answers

\* The trade an answer is meant for is still pending.
StillPending == \A c \in Calls : Deciding(c) => trades[job[c].trade].status = Pending

\* The steps that touch the two tables, or that start an answer.
LEMMA StepKinds ==
  ASSUME CallsInv, [Next]_vars
  PROVE  \/ \E c \in Calls : Commit(c)
         \/ \E c \in Calls, t \in DOMAIN trades, answer \in Answers : RespondTrade(c, t, answer)
         \/ \E u \in Users, n \in DOMAIN notes : MarkNotificationRead(u, n)
         \/ /\ UNCHANGED <<trades, notes>>
            /\ \A d \in Calls : Deciding(d)' => Deciding(d) /\ job'[d].trade = job[d].trade
<1> DEFINE Quiet == /\ UNCHANGED <<trades, notes>>
                    /\ \A d \in Calls :
                         Deciding(d)' => Deciding(d) /\ job'[d].trade = job[d].trade
<1>1. ASSUME NEW c \in Calls, NEW r \in Users, NEW O \in SUBSET Stickers,
             NEW R \in SUBSET Stickers, CreateTrade(c, r, O, R)
      PROVE  Quiet
  BY <1>1 DEF CreateTrade, Start, tables, CallsInv, TypeOK, Deciding
<1>2. ASSUME NEW c \in Calls, InsertTrade(c) PROVE Quiet
  <2>1. /\ UNCHANGED <<trades, notes>>
        /\ job[c] \in Job /\ job[c].kind = Received
        /\ job'[c] = [job[c] EXCEPT !.trade = tradeSeq + 1, !.note = noteSeq + 1]
        /\ \A d \in Calls : d # c => pc'[d] = pc[d] /\ job'[d] = job[d]
    BY <1>2 DEF InsertTrade, Goto, tables, CallsInv, TypeOK, JobsOK
  <2>2. job'[c].kind = Received
    BY <2>1 DEF Job
  <2>3. QED
    BY <2>1, <2>2, Kinds DEF Deciding
<1>3. ASSUME NEW c \in Calls, UpdateTrade(c) PROVE Quiet
  <2>1. /\ UNCHANGED <<trades, notes>>
        /\ job[c] \in Job /\ pc[c] = "update"
        /\ job'[c] = [job[c] EXCEPT !.note = noteSeq + 1]
        /\ \A d \in Calls : d # c => pc'[d] = pc[d] /\ job'[d] = job[d]
    BY <1>3 DEF UpdateTrade, Goto, tables, CallsInv, TypeOK
  <2>2. job'[c].kind = job[c].kind /\ job'[c].trade = job[c].trade
    BY <2>1 DEF Job
  <2>3. QED
    BY <2>1, <2>2 DEF Deciding
<1>4. ASSUME NEW c \in Calls,
             \/ GiveUp(c) \/ ValidateTradeOwnership(c) \/ Reload(c)
             \/ PublishTrade(c) \/ CountUnread(c) \/ PublishUnread(c)
      PROVE  Quiet
  <2>1. /\ UNCHANGED <<trades, notes>> /\ pc'[c] \notin {"update", "commit"}
        /\ \A d \in Calls : d # c => pc'[d] = pc[d] /\ job'[d] = job[d]
    BY <1>4 DEF GiveUp, ValidateTradeOwnership, Reload, PublishTrade, CountUnread,
                PublishUnread, Finish, Goto, tables, CallsInv, TypeOK
  <2>2. QED
    BY <2>1 DEF Deciding
<1>5. ASSUME NEW u \in Users, NEW s \in Stickers, NEW n \in Counts, UpdateItem(u, s, n)
      PROVE  Quiet
  BY <1>5 DEF UpdateItem, serviceVars, Deciding
<1>6. CASE UNCHANGED vars
  BY <1>6 DEF vars, tables, serviceVars, Deciding
<1> HIDE DEF Quiet
<1>7. ASSUME Next
      PROVE  \/ \E c \in Calls : Commit(c)
             \/ \E c \in Calls, t \in DOMAIN trades, answer \in Answers : RespondTrade(c, t, answer)
             \/ \E u \in Users, n \in DOMAIN notes : MarkNotificationRead(u, n)
             \/ Quiet
  <2>1. ASSUME NEW c \in Calls, Request(c)
        PROVE  \/ \E t \in DOMAIN trades, answer \in Answers : RespondTrade(c, t, answer)
               \/ Quiet
    BY <2>1, <1>1 DEF Request
  <2>2. ASSUME NEW c \in Calls, Proceed(c) \/ GiveUp(c) PROVE Commit(c) \/ Quiet
    BY <2>2, <1>2, <1>3, <1>4 DEF Proceed
  <2>3. QED
    BY <1>7, <2>1, <2>2, <1>5 DEF Next
<1>8. QED
  BY <1>6, <1>7 DEF Quiet

LEMMA StillPendingNext ==
  ASSUME OneCallPerUser, CallsInv, StillPending, [Next]_vars
  PROVE  StillPending'
<1>1. CASE \E c \in Calls : Commit(c)
  <2>1. PICK c \in Calls : Commit(c)
    BY <1>1
  <2>2. /\ job' = job /\ pc'[c] = "reload"
        /\ \A d \in Calls : Deciding(d)' => d # c /\ Deciding(d)
        /\ \A d \in Calls : Deciding(d) => /\ job[d].trade \in DOMAIN trades
                                          /\ Caller[d] = trades[job[d].trade].responder
    BY <2>1 DEF Commit, Goto, CallsInv, TypeOK, JobsOK, Deciding
  <2>3. CASE job[c].kind = Received
    <3>1. \A t \in DOMAIN trades : trades'[t] = trades[t]
      BY <2>1, <2>3, CommitOfProposal, Zenon
    <3>2. QED
      BY <2>2, <3>1 DEF StillPending
  <2>4. CASE job[c].kind \in Answers
    <3>1. \A t \in DOMAIN trades : t # job[c].trade => trades'[t] = trades[t]
      BY <2>1, <2>4, CommitOfAnswer, Zenon
    <3>2. Deciding(c)
      BY <2>1, <2>4 DEF Commit, Deciding
    <3>3. \A d \in Calls : Deciding(d) /\ d # c => job[d].trade # job[c].trade
      BY <2>2, <3>2 DEF OneCallPerUser
    <3>4. QED
      BY <2>2, <3>1, <3>3 DEF StillPending
  <2>5. QED
    BY <2>1, <2>3, <2>4 DEF Commit
<1>2. CASE \E c \in Calls, t \in DOMAIN trades, answer \in Answers : RespondTrade(c, t, answer)
  <2>1. PICK c \in Calls, t \in DOMAIN trades, answer \in Answers : RespondTrade(c, t, answer)
    BY <1>2
  <2>2. /\ UNCHANGED trades /\ trades[t].status = Pending
        /\ job'[c] = NewJob(answer, t, trades[t].proposer, {}, {}, {})
        /\ \A d \in Calls : d # c => pc'[d] = pc[d] /\ job'[d] = job[d]
    BY <2>1 DEF RespondTrade, Start, tables, CallsInv, TypeOK
  <2>3. job'[c].trade = t
    BY <2>2 DEF NewJob
  <2>4. QED
    BY <2>2, <2>3 DEF StillPending, Deciding
<1>3. CASE \E u \in Users, n \in DOMAIN notes : MarkNotificationRead(u, n)
  BY <1>3 DEF MarkNotificationRead, serviceVars, StillPending, Deciding
<1>4. CASE /\ UNCHANGED <<trades, notes>>
           /\ \A d \in Calls : Deciding(d)' => Deciding(d) /\ job'[d].trade = job[d].trade
  BY <1>4 DEF StillPending
<1>5. QED
  BY <1>1, <1>2, <1>3, <1>4, StepKinds

\* A commit is a step of the ledger.
LEMMA CommitIsLedgerStep ==
  ASSUME CallsInv, StillPending, NEW c \in Calls, Commit(c)
  PROVE  Ledger!Next
<1> DEFINE j == job[c]
<1>1. CASE j.kind = Received
  <2>1. /\ trades' = WithRow(trades, j.trade, NewTrade(Caller[c], j.peer, j.offer, j.request))
        /\ notes' = WithRow(notes, j.note, NewNote(j.peer, Received, Caller[c]))
    BY <1>1, Kinds DEF Commit
  <2>2. /\ j.trade \notin DOMAIN trades /\ j.note \notin DOMAIN notes
        /\ j.trade \in DOMAIN trades' /\ j.note \in DOMAIN notes' /\ j \in Job
    BY <1>1, CommitOfProposal
  <2>3. /\ Caller[c] \in Users /\ j.peer \in Users /\ Caller[c] # j.peer
        /\ j.offer \in (SUBSET Stickers) \ {{}} /\ j.request \in (SUBSET Stickers) \ {{}}
    BY <1>1, <2>2, CallerAssumption DEF Commit, CallsInv, JobsOK, Job
  <2>4. /\ trades' = Ledger!WithRow(trades, j.trade,
                         Ledger!NewTrade(Caller[c], j.peer, j.offer, j.request))
        /\ notes' = Ledger!WithRow(notes, j.note,
                         Ledger!NewNote(j.peer, Ledger!Received, Caller[c]))
    BY <2>1 DEF Ledger!WithRow, WithRow, Ledger!NewTrade, NewTrade, Ledger!Pending, Pending,
                Ledger!NewNote, NewNote, Ledger!Received, Received
  <2>. Ledger!Propose(j.trade, j.note)
    BY <2>2, <2>3, <2>4, Zenon DEF Ledger!Propose
  <2>5. QED
    BY <2>2 DEF Ledger!Next
<1>2. CASE j.kind \in Answers
  <2>1. /\ trades' = [trades EXCEPT ![j.trade].status = j.kind]
        /\ notes' = WithRow(notes, j.note, NewNote(j.peer, j.kind, j.trade))
    BY <1>2, Kinds DEF Commit
  <2>2. /\ j.trade \in DOMAIN trades /\ j.note \notin DOMAIN notes
        /\ j.trade \in DOMAIN trades' /\ j.note \in DOMAIN notes'
    BY <1>2, CommitOfAnswer
  <2>3. trades[j.trade].status = Pending /\ j.peer = trades[j.trade].proposer
    BY <1>2 DEF Commit, CallsInv, JobsOK, StillPending, Deciding
  <2>4. Ledger!Answer(j.trade, j.note)
    BY <1>2, <2>1, <2>2, <2>3
       DEF Ledger!Answer, Ledger!WithRow, WithRow, Ledger!NewNote, NewNote,
           Ledger!Pending, Pending, Ledger!Answers, Answers, Ledger!Accepted, Accepted,
           Ledger!Rejected, Rejected
  <2>5. QED
    BY <2>2, <2>4 DEF Ledger!Next
<1>3. QED
  BY <1>1, <1>2 DEF Commit

LEMMA LedgerStep ==
  ASSUME CallsInv, StillPending, [Next]_vars
  PROVE  [Ledger!Next]_(Ledger!ledgerVars)
<1>1. CASE \E c \in Calls : Commit(c)
  BY <1>1, CommitIsLedgerStep
<1>2. CASE \E u \in Users, n \in DOMAIN notes : MarkNotificationRead(u, n)
  <2>1. PICK u \in Users, n \in DOMAIN notes : MarkNotificationRead(u, n)
    BY <1>2
  <2>2. Ledger!MarkRead(n) /\ n \in DOMAIN notes'
    BY <2>1 DEF MarkNotificationRead, Ledger!MarkRead
  <2>3. QED
    BY <2>2 DEF Ledger!Next
<1>3. CASE UNCHANGED <<trades, notes>>
  BY <1>3 DEF Ledger!ledgerVars
<1>4. QED
  BY <1>1, <1>2, <1>3, StepKinds DEF RespondTrade, Start, tables

\* The service implements the ledger when no user has two calls in flight.
THEOREM Implements == ASSUME OneCallPerUser PROVE Spec => ImplementsLedger
<1>1. Init => StillPending
  BY DEF Init, StillPending, Deciding
<1>2. CallsInv /\ StillPending /\ [Next]_vars => StillPending'
  BY StillPendingNext
<1>3. Spec => []StillPending
  BY <1>1, <1>2, CallsInvariant, PTL DEF Spec
<1>4. Init => Ledger!Init
  BY DEF Init, Ledger!Init
<1>5. CallsInv /\ StillPending /\ [Next]_vars => [Ledger!Next]_(Ledger!ledgerVars)
  BY LedgerStep
<1>6. Spec => Ledger!Spec
  BY <1>3, <1>4, <1>5, CallsInvariant, PTL DEF Spec, Ledger!Spec
<1>7. QED
  BY <1>6 DEF ImplementsLedger

\* The answer to a trade is final when no user has two calls in flight.
THEOREM AnswerFinal == ASSUME OneCallPerUser PROVE Spec => AnswerIsFinal
<1> DEFINE Final == \A t \in DOMAIN trades :
                      trades[t].status # Pending => trades'[t].status = trades[t].status
<1>1. [Ledger!Next]_(Ledger!ledgerVars) => [Final]_vars
  <2>1. ASSUME NEW n, NEW t, Ledger!Propose(t, n) PROVE Final
    BY <2>1 DEF Ledger!Propose, Ledger!WithRow
  <2>2. ASSUME NEW n, NEW t, Ledger!Answer(t, n) PROVE Final
    BY <2>2 DEF Ledger!Answer, Ledger!Pending, Pending
  <2>3. ASSUME NEW n, Ledger!MarkRead(n) PROVE Final
    BY <2>3 DEF Ledger!MarkRead
  <2>4. CASE UNCHANGED Ledger!ledgerVars
    BY <2>4 DEF Ledger!ledgerVars
  <2>5. QED
    BY <2>1, <2>2, <2>3, <2>4 DEF Ledger!Next
<1>2. Ledger!Spec => [][Ledger!Next]_(Ledger!ledgerVars)
  BY PTL DEF Ledger!Spec
<1>3. Spec => ImplementsLedger
  BY Implements
<1>4. Spec => Ledger!Spec
  BY <1>3 DEF ImplementsLedger
<1>5. QED
  BY <1>1, <1>2, <1>4, PTL DEF AnswerIsFinal

------------------------------------------------------------------------------
(* What the hub is given for a user.                                        *)

\* Rows stay, and keep all that a call does not update.
LEMMA RowsStay ==
  ASSUME CallsInv, [Next]_vars
  PROVE  /\ \A t \in DOMAIN trades :
              /\ t \in DOMAIN trades'
              /\ trades'[t].proposer = trades[t].proposer
              /\ trades'[t].responder = trades[t].responder
              /\ trades'[t].offer = trades[t].offer
              /\ trades'[t].request = trades[t].request
         /\ \A n \in DOMAIN notes :
              /\ n \in DOMAIN notes'
              /\ notes'[n].type = notes[n].type
              /\ notes'[n].user = notes[n].user
              /\ notes'[n].about = notes[n].about
<1>1. CASE \E c \in Calls : Commit(c)
  <2>1. PICK c \in Calls : Commit(c)
    BY <1>1
  <2>2. CASE job[c].kind = Received
    BY <2>1, <2>2, CommitOfProposal, Zenon
  <2>3. CASE job[c].kind \in Answers
    <3>1. \A t \in DOMAIN trades : trades[t] \in TradeRow
      BY DEF CallsInv, TypeOK
    <3>2. /\ DOMAIN trades' = DOMAIN trades
          /\ trades'[job[c].trade] = [trades[job[c].trade] EXCEPT !.status = job[c].kind]
          /\ \A t \in DOMAIN trades : t # job[c].trade => trades'[t] = trades[t]
          /\ \A n \in DOMAIN notes : n \in DOMAIN notes' /\ notes'[n] = notes[n]
      BY <2>1, <2>3, CommitOfAnswer
    <3>3. QED
      BY <3>1, <3>2 DEF TradeRow
  <2>4. QED
    BY <2>1, <2>2, <2>3 DEF Commit
<1>2. CASE \E u \in Users, n \in DOMAIN notes : MarkNotificationRead(u, n)
  BY <1>2, MarkReadFacts
<1>3. CASE UNCHANGED <<trades, notes>>
  BY <1>3
<1>4. QED
  BY <1>1, <1>2, <1>3, StepKinds DEF RespondTrade, Start, tables

\* The status of a trade changes when an answer to it is committed.
LEMMA StatusChanges ==
  ASSUME CallsInv, [Next]_vars, NEW t \in DOMAIN trades,
         trades'[t].status # trades[t].status
  PROVE  \E c \in Calls : Commit(c) /\ job[c].kind \in Answers /\ job[c].trade = t
<1>1. CASE \E c \in Calls : Commit(c)
  <2>1. PICK c \in Calls : Commit(c)
    BY <1>1
  <2>2. job[c].kind # Received
    BY <2>1, CommitOfProposal, Zenon
  <2>3. job[c].kind \in Answers
    BY <2>1, <2>2 DEF Commit
  <2>4. \A x \in DOMAIN trades : x # job[c].trade => trades'[x] = trades[x]
    BY <2>1, <2>3, CommitOfAnswer, Zenon
  <2>5. QED
    BY <2>1, <2>3, <2>4
<1>2. CASE \E u \in Users, n \in DOMAIN notes : MarkNotificationRead(u, n)
  BY <1>2, MarkReadFacts
<1>3. QED
  BY <1>1, <1>2, StepKinds DEF RespondTrade, Start, tables

\* The steps of calls between their commit and their trade event.
LEMMA AnnouncingSteps ==
  ASSUME CallsInv, [Next]_vars
  PROVE  \/ \E c \in Calls : Commit(c) \/ Reload(c) \/ PublishTrade(c) \/ PublishUnread(c)
         \/ /\ UNCHANGED events
            /\ \A d \in Calls : pc'[d] \in {"reload", "publish"} =>
                 pc'[d] = pc[d] /\ job'[d] = job[d]
<1> DEFINE Aside == /\ UNCHANGED events
                    /\ \A d \in Calls : pc'[d] \in {"reload", "publish"} =>
                         pc'[d] = pc[d] /\ job'[d] = job[d]
<1>1. ASSUME NEW c \in Calls, Request(c) PROVE Aside
  BY <1>1 DEF Request, CreateTrade, RespondTrade, Start, CallsInv, TypeOK
<1>2. ASSUME NEW c \in Calls,
             \/ GiveUp(c) \/ ValidateTradeOwnership(c) \/ InsertTrade(c)
             \/ UpdateTrade(c) \/ CountUnread(c)
      PROVE  Aside
  <2>1. /\ UNCHANGED events /\ pc'[c] \notin {"reload", "publish"}
        /\ \A d \in Calls : d # c => pc'[d] = pc[d] /\ job'[d] = job[d]
    BY <1>2 DEF GiveUp, ValidateTradeOwnership, InsertTrade, UpdateTrade, CountUnread,
                Finish, Goto, CallsInv, TypeOK
  <2>2. QED
    BY <2>1
<1>3. CASE \E u \in Users : \/ \E s \in Stickers, n \in Counts : UpdateItem(u, s, n)
                            \/ \E n \in DOMAIN notes : MarkNotificationRead(u, n)
  BY <1>3 DEF UpdateItem, MarkNotificationRead, serviceVars
<1>4. CASE UNCHANGED vars
  BY <1>4 DEF vars, serviceVars
<1> HIDE DEF Aside
<1>5. CASE Next
  <2>1. CASE \E c \in Calls : Request(c) \/ GiveUp(c)
    BY <2>1, <1>1, <1>2 DEF Aside
  <2>2. CASE \E c \in Calls : Proceed(c)
    BY <2>2, <1>2 DEF Proceed, Aside
  <2>3. QED
    BY <1>5, <2>1, <2>2, <1>3 DEF Next, Aside
<1>6. QED
  BY <1>4, <1>5 DEF Aside

\* What an event of this kind about trade t tells u is in the tables.
Committed(u, kind, t) ==
  /\ t \in DOMAIN trades
  /\ IF kind = Received
     THEN trades[t].responder = u
     ELSE \E n \in AnswersTo(t) : notes[n].type = kind /\ notes[n].user = u

\* So it is for every call between its commit and its event.
AnnouncedIsCommitted ==
  \A c \in Calls : pc[c] \in {"reload", "publish"} =>
    Committed(job[c].peer, job[c].kind, job[c].trade)

LEMMA CommittedStays ==
  ASSUME CallsInv, [Next]_vars, NEW u, NEW kind, NEW t, Committed(u, kind, t)
  PROVE  Committed(u, kind, t)'
<1>1. CASE kind = Received
  BY <1>1, RowsStay DEF Committed
<1>2. CASE kind # Received
  <2>1. PICK n \in AnswersTo(t) : notes[n].type = kind /\ notes[n].user = u
    BY <1>2 DEF Committed
  <2>2. n \in AnswersTo(t)' /\ notes'[n].type = kind /\ notes'[n].user = u
    BY <2>1, RowsStay DEF AnswersTo
  <2>3. QED
    BY <1>2, <2>2, RowsStay DEF Committed
<1>3. QED
  BY <1>1, <1>2

LEMMA CommitIsCommitted ==
  ASSUME CallsInv, NEW c \in Calls, Commit(c)
  PROVE  Committed(job[c].peer, job[c].kind, job[c].trade)'
<1> DEFINE j == job[c]
<1>0. job' = job
  BY DEF Commit
<1>1. CASE j.kind = Received
  <2>1. /\ j.trade \in DOMAIN trades'
        /\ trades'[j.trade] = NewTrade(Caller[c], j.peer, j.offer, j.request)
    BY <1>1, CommitOfProposal
  <2>2. trades'[j.trade].responder = j.peer
    BY <2>1 DEF NewTrade
  <2>3. QED
    BY <1>0, <1>1, <2>1, <2>2 DEF Committed
<1>2. CASE j.kind \in Answers
  <2>1. /\ j.trade \in DOMAIN trades' /\ j.note \in DOMAIN notes'
        /\ notes'[j.note] = NewNote(j.peer, j.kind, j.trade)
        /\ notes'[j.note].type = j.kind /\ notes'[j.note].about = j.trade
    BY <1>2, CommitOfAnswer
  <2>2. notes'[j.note].user = j.peer
    BY <2>1 DEF NewNote
  <2>3. j.note \in AnswersTo(j.trade)'
    BY <1>0, <1>2, <2>1 DEF AnswersTo
  <2>4. QED
    BY <1>0, <1>2, <2>1, <2>2, <2>3, Kinds DEF Committed
<1>3. QED
  BY <1>1, <1>2 DEF Commit

\* The events after one more for u.
LEMMA OneMoreEvent ==
  ASSUME TypeOK, NEW u \in Users, NEW e, events' = [events EXCEPT ![u] = Append(@, e)]
  PROVE  /\ \A v \in Users : v # u => events'[v] = events[v]
         /\ \A i \in DOMAIN events'[u] :
              \/ i \in DOMAIN events[u] /\ events'[u][i] = events[u][i]
              \/ events'[u][i] = e
<1>1. events \in [Users -> Seq(TradeEvent \cup UnreadEvent)]
  BY DEF TypeOK
<1>2. events'[u] = Append(events[u], e) /\ \A v \in Users : v # u => events'[v] = events[v]
  BY <1>1
<1>3. events[u] \in Seq(TradeEvent \cup UnreadEvent)
  BY <1>1
<1>4. \A i \in DOMAIN Append(events[u], e) :
        \/ i \in DOMAIN events[u] /\ Append(events[u], e)[i] = events[u][i]
        \/ Append(events[u], e)[i] = e
  <2> DEFINE s == events[u]
  <2>1. \E S : s \in Seq(S)
    BY <1>3
  <2> HIDE DEF s
  <2>2. /\ DOMAIN s = 1 .. Len(s) /\ Len(s) \in Nat
        /\ DOMAIN Append(s, e) = 1 .. Len(s) + 1
        /\ \A i \in 1 .. Len(s) : Append(s, e)[i] = s[i]
        /\ Append(s, e)[Len(s) + 1] = e
    BY <2>1
  <2>3. \A i \in DOMAIN Append(s, e) : \/ i \in DOMAIN s /\ Append(s, e)[i] = s[i]
                                       \/ Append(s, e)[i] = e
    BY <2>2
  <2>4. QED
    BY <2>3 DEF s
<1>5. QED
  BY <1>2, <1>4

\* A badge is not a trade event.
LEMMA BadgesDiffer == \A n : [count |-> n] \notin TradeEvent
  BY DEF TradeEvent

\* The invariant, by what events say.
Told ==
  \A u \in Users : \A i \in DOMAIN events[u] : events[u][i] \in TradeEvent =>
    Committed(u, events[u][i].type, events[u][i].trade)

LEMMA ToldStep ==
  ASSUME CallsInv, Told, AnnouncedIsCommitted, [Next]_vars
  PROVE  Told' /\ AnnouncedIsCommitted'
<1>1. \A u, kind, t : Committed(u, kind, t) => Committed(u, kind, t)'
  BY CommittedStays
<1>2. CASE \E c \in Calls : Commit(c)
  <2>1. PICK c \in Calls : Commit(c)
    BY <1>2
  <2>2. /\ UNCHANGED <<events, job>>
        /\ \A d \in Calls : d # c => pc'[d] = pc[d]
    BY <2>1 DEF Commit, Goto, CallsInv, TypeOK
  <2>3. Committed(job[c].peer, job[c].kind, job[c].trade)'
    BY <2>1, CommitIsCommitted
  <2>4. QED
    BY <1>1, <2>2, <2>3 DEF Told, AnnouncedIsCommitted
<1>3. CASE \E c \in Calls : Reload(c)
  <2>1. PICK c \in Calls : Reload(c)
    BY <1>3
  <2>2. /\ UNCHANGED events /\ pc[c] = "reload" /\ job[c] \in Job
        /\ job'[c] = [job[c] EXCEPT !.seen = trades[job[c].trade].status]
        /\ \A d \in Calls : d # c => pc'[d] = pc[d] /\ job'[d] = job[d]
    BY <2>1 DEF Reload, Goto, CallsInv, TypeOK
  <2>3. /\ job'[c].peer = job[c].peer /\ job'[c].kind = job[c].kind
        /\ job'[c].trade = job[c].trade
    BY <2>2 DEF Job
  <2>4. QED
    BY <1>1, <2>2, <2>3 DEF Told, AnnouncedIsCommitted
<1>4. CASE \E c \in Calls : PublishTrade(c)
  <2>1. PICK c \in Calls : PublishTrade(c)
    BY <1>4
  <2> DEFINE j == job[c]
             e == [type |-> j.kind, trade |-> j.trade, status |-> j.seen]
  <2>2. /\ pc[c] = "publish" /\ pc'[c] = "count" /\ j.peer \in Users
        /\ UNCHANGED job /\ \A d \in Calls : d # c => pc'[d] = pc[d]
        /\ events' = [events EXCEPT ![j.peer] = Append(@, e)]
    BY <2>1 DEF PublishTrade, Goto, CallsInv, TypeOK, Job
  <2>3. Committed(j.peer, j.kind, j.trade) /\ e.type = j.kind /\ e.trade = j.trade
    BY <2>2 DEF AnnouncedIsCommitted
  <2> HIDE DEF e, j
  <2>4. /\ \A v \in Users : v # j.peer => events'[v] = events[v]
        /\ \A i \in DOMAIN events'[j.peer] :
             \/ i \in DOMAIN events[j.peer] /\ events'[j.peer][i] = events[j.peer][i]
             \/ events'[j.peer][i] = e
    BY <2>2, OneMoreEvent DEF CallsInv
  <2>5. Told'
    BY <1>1, <2>3, <2>4 DEF Told
  <2>6. AnnouncedIsCommitted'
    BY <1>1, <2>2 DEF AnnouncedIsCommitted
  <2>7. QED
    BY <2>5, <2>6
<1>5. CASE \E c \in Calls : PublishUnread(c)
  <2>1. PICK c \in Calls : PublishUnread(c)
    BY <1>5
  <2> DEFINE u == job[c].peer
             e == [count |-> job[c].count]
  <2>2. /\ pc[c] = "push" /\ pc'[c] = "idle" /\ u \in Users
        /\ \A d \in Calls : d # c => pc'[d] = pc[d] /\ job'[d] = job[d]
        /\ events' = [events EXCEPT ![u] = Append(@, e)]
    BY <2>1 DEF PublishUnread, Finish, Goto, CallsInv, TypeOK, Job
  <2>3. e \notin TradeEvent
    BY BadgesDiffer
  <2> HIDE DEF e, u
  <2>4. /\ \A v \in Users : v # u => events'[v] = events[v]
        /\ \A i \in DOMAIN events'[u] :
             \/ i \in DOMAIN events[u] /\ events'[u][i] = events[u][i]
             \/ events'[u][i] = e
    BY <2>2, OneMoreEvent DEF CallsInv
  <2>5. Told'
    BY <1>1, <2>3, <2>4 DEF Told
  <2>6. AnnouncedIsCommitted'
    BY <1>1, <2>2 DEF AnnouncedIsCommitted
  <2>7. QED
    BY <2>5, <2>6
<1>6. CASE /\ UNCHANGED events
           /\ \A d \in Calls : pc'[d] \in {"reload", "publish"} =>
                pc'[d] = pc[d] /\ job'[d] = job[d]
  BY <1>1, <1>6 DEF Told, AnnouncedIsCommitted
<1>7. QED
  BY <1>2, <1>3, <1>4, <1>5, <1>6, AnnouncingSteps

LEMMA EventsAreTold == Spec => [](Told /\ AnnouncedIsCommitted)
<1>1. Init => Told /\ AnnouncedIsCommitted
  BY DEF Init, Told, AnnouncedIsCommitted
<1>2. CallsInv /\ Told /\ AnnouncedIsCommitted /\ [Next]_vars =>
        Told' /\ AnnouncedIsCommitted'
  BY ToldStep
<1>3. QED
  BY <1>1, <1>2, CallsInvariant, PTL DEF Spec

------------------------------------------------------------------------------
(* What the payload of an event shows.                                      *)

\* A payload with this status is not behind an event of this kind about t.
Shows(kind, t, status) ==
  \/ kind = Received /\ status = Pending
  \/ \E n \in AnswersTo(t) :
       /\ notes[n].type = status
       /\ kind # Received => \E m \in AnswersTo(t) : m <= n /\ notes[m].type = kind

\* So it is for what calls have read and will publish, and for what they have.
ReadIsRecent ==
  \A c \in Calls : pc[c] = "publish" => Shows(job[c].kind, job[c].trade, job[c].seen)

PublishedIsRecent ==
  \A u \in Users : \A i \in DOMAIN events[u] : events[u][i] \in TradeEvent =>
    Shows(events[u][i].type, events[u][i].trade, events[u][i].status)

LEMMA ShowsStays ==
  ASSUME CallsInv, [Next]_vars, NEW kind, NEW t, NEW status, Shows(kind, t, status)
  PROVE  Shows(kind, t, status)'
<1>1. \A n \in AnswersTo(t) : n \in AnswersTo(t)' /\ notes'[n].type = notes[n].type
  BY RowsStay DEF AnswersTo
<1>2. QED
  BY <1>1 DEF Shows

\* One of the answers to a trade is the latest: their ids are bounded.
LEMMA LatestExists ==
  ASSUME TypeOK, NEW t, AnswersTo(t) # {}
  PROVE  \E n \in AnswersTo(t) : \A m \in AnswersTo(t) : m <= n
<1> DEFINE Distance == {noteSeq - n : n \in AnswersTo(t)}
<1>1. AnswersTo(t) \subseteq 1 .. noteSeq /\ noteSeq \in Nat
  BY DEF TypeOK, AnswersTo
<1>2. Distance \in SUBSET Nat /\ Distance # {}
  BY <1>1
<1> HIDE DEF Distance
<1>3. PICK k \in Distance : \A j \in Distance : k <= j
  <2>1. PICK k \in Distance : \A j \in Distance : ~(<<j, k>> \in OpToRel(<, Nat))
    BY <1>2, NatLessThanWellFounded, WFMin, Zenon
  <2>2. \A j \in Distance : ~(j < k)
    BY <1>2, <2>1 DEF OpToRel
  <2>3. QED
    BY <1>2, <2>2
<1>4. PICK n \in AnswersTo(t) : k = noteSeq - n
  BY <1>3 DEF Distance
<1>5. \A m \in AnswersTo(t) : noteSeq - n <= noteSeq - m
  BY <1>3, <1>4 DEF Distance
<1>6. QED
  BY <1>1, <1>5

\* The status that a call reads after its commit is that of the latest answer,
\* and its own answer, if it gave one, is among them.
LEMMA ReloadShows ==
  ASSUME CallsInv, StatusIsLatestAnswer, AnnouncedIsCommitted,
         NEW c \in Calls, pc[c] = "reload"
  PROVE  Shows(job[c].kind, job[c].trade, trades[job[c].trade].status)
<1> DEFINE t == job[c].trade
           kind == job[c].kind
<1>1. t \in DOMAIN trades
  BY DEF AnnouncedIsCommitted, Committed
<1>2. kind # Received => \E m \in AnswersTo(t) : notes[m].type = kind
  BY DEF AnnouncedIsCommitted, Committed
<1> HIDE DEF t, kind
<1>3. CASE AnswersTo(t) = {}
  BY <1>1, <1>2, <1>3 DEF StatusIsLatestAnswer, Shows, t, kind
<1>4. CASE AnswersTo(t) # {}
  <2>1. PICK n \in AnswersTo(t) : \A m \in AnswersTo(t) : m <= n
    BY <1>4, LatestExists DEF CallsInv
  <2>2. notes[n].type = trades[t].status
    BY <1>1, <2>1 DEF StatusIsLatestAnswer
  <2>3. QED
    BY <1>2, <2>1, <2>2 DEF Shows, t, kind
<1>5. QED
  BY <1>3, <1>4

LEMMA PayloadStep ==
  ASSUME CallsInv, StatusIsLatestAnswer, AnnouncedIsCommitted,
         ReadIsRecent, PublishedIsRecent, [Next]_vars
  PROVE  ReadIsRecent' /\ PublishedIsRecent'
<1>1. \A kind, t, status : Shows(kind, t, status) => Shows(kind, t, status)'
  BY ShowsStays
<1>2. CASE \E c \in Calls : Commit(c)
  <2>1. PICK c \in Calls : Commit(c)
    BY <1>2
  <2>2. /\ UNCHANGED <<events, job>> /\ pc'[c] = "reload"
        /\ \A d \in Calls : d # c => pc'[d] = pc[d]
    BY <2>1 DEF Commit, Goto, CallsInv, TypeOK
  <2>3. QED
    BY <1>1, <2>2 DEF ReadIsRecent, PublishedIsRecent
<1>3. CASE \E c \in Calls : Reload(c)
  <2>1. PICK c \in Calls : Reload(c)
    BY <1>3
  <2>2. /\ UNCHANGED events /\ pc[c] = "reload" /\ job[c] \in Job
        /\ job'[c] = [job[c] EXCEPT !.seen = trades[job[c].trade].status]
        /\ \A d \in Calls : d # c => pc'[d] = pc[d] /\ job'[d] = job[d]
    BY <2>1 DEF Reload, Goto, CallsInv, TypeOK
  <2>3. /\ job'[c].seen = trades[job[c].trade].status /\ job'[c].kind = job[c].kind
        /\ job'[c].trade = job[c].trade
    BY <2>2 DEF Job
  <2>4. Shows(job[c].kind, job[c].trade, trades[job[c].trade].status)
    BY <2>2, ReloadShows
  <2>5. \A kind, t, status :
          kind = job'[c].kind /\ t = job'[c].trade /\ status = job'[c].seen =>
            Shows(kind, t, status)'
    BY <1>1, <2>3, <2>4
  <2>6. ReadIsRecent'
    BY <1>1, <2>2, <2>5 DEF ReadIsRecent
  <2>7. PublishedIsRecent'
    BY <1>1, <2>2 DEF PublishedIsRecent
  <2>8. QED
    BY <2>6, <2>7
<1>4. CASE \E c \in Calls : PublishTrade(c)
  <2>1. PICK c \in Calls : PublishTrade(c)
    BY <1>4
  <2> DEFINE j == job[c]
             e == [type |-> j.kind, trade |-> j.trade, status |-> j.seen]
  <2>2. /\ pc[c] = "publish" /\ pc'[c] = "count" /\ j.peer \in Users
        /\ UNCHANGED job /\ \A d \in Calls : d # c => pc'[d] = pc[d]
        /\ events' = [events EXCEPT ![j.peer] = Append(@, e)]
    BY <2>1 DEF PublishTrade, Goto, CallsInv, TypeOK, Job
  <2>3. Shows(e.type, e.trade, e.status)
    BY <2>2 DEF ReadIsRecent
  <2> HIDE DEF e, j
  <2>4. /\ \A v \in Users : v # j.peer => events'[v] = events[v]
        /\ \A i \in DOMAIN events'[j.peer] :
             \/ i \in DOMAIN events[j.peer] /\ events'[j.peer][i] = events[j.peer][i]
             \/ events'[j.peer][i] = e
    BY <2>2, OneMoreEvent DEF CallsInv
  <2>5. PublishedIsRecent'
    BY <1>1, <2>3, <2>4 DEF PublishedIsRecent
  <2>6. ReadIsRecent'
    BY <1>1, <2>2 DEF ReadIsRecent
  <2>7. QED
    BY <2>5, <2>6
<1>5. CASE \E c \in Calls : PublishUnread(c)
  <2>1. PICK c \in Calls : PublishUnread(c)
    BY <1>5
  <2> DEFINE u == job[c].peer
             e == [count |-> job[c].count]
  <2>2. /\ pc[c] = "push" /\ pc'[c] = "idle" /\ u \in Users
        /\ \A d \in Calls : d # c => pc'[d] = pc[d] /\ job'[d] = job[d]
        /\ events' = [events EXCEPT ![u] = Append(@, e)]
    BY <2>1 DEF PublishUnread, Finish, Goto, CallsInv, TypeOK, Job
  <2>3. e \notin TradeEvent
    BY BadgesDiffer
  <2> HIDE DEF e, u
  <2>4. /\ \A v \in Users : v # u => events'[v] = events[v]
        /\ \A i \in DOMAIN events'[u] :
             \/ i \in DOMAIN events[u] /\ events'[u][i] = events[u][i]
             \/ events'[u][i] = e
    BY <2>2, OneMoreEvent DEF CallsInv
  <2>5. PublishedIsRecent'
    BY <1>1, <2>3, <2>4 DEF PublishedIsRecent
  <2>6. ReadIsRecent'
    BY <1>1, <2>2 DEF ReadIsRecent
  <2>7. QED
    BY <2>5, <2>6
<1>6. CASE /\ UNCHANGED events
           /\ \A d \in Calls : pc'[d] \in {"reload", "publish"} =>
                pc'[d] = pc[d] /\ job'[d] = job[d]
  BY <1>1, <1>6 DEF ReadIsRecent, PublishedIsRecent
<1>7. QED
  BY <1>2, <1>3, <1>4, <1>5, <1>6, AnnouncingSteps

\* However many answers race each other between a call's commit and its reading,
\* no event carries a trade from before what it announces.
THEOREM PayloadsRecent == Spec => []PayloadsAreRecent
<1>1. Init => ReadIsRecent /\ PublishedIsRecent
  BY DEF Init, ReadIsRecent, PublishedIsRecent
<1>2. CallsInv /\ StatusIsLatestAnswer /\ (Told /\ AnnouncedIsCommitted)
        /\ ReadIsRecent /\ PublishedIsRecent /\ [Next]_vars =>
          ReadIsRecent' /\ PublishedIsRecent'
  BY PayloadStep
<1>3. PublishedIsRecent => PayloadsAreRecent
  BY DEF PublishedIsRecent, Shows, PayloadsAreRecent
<1>4. QED
  BY <1>1, <1>2, <1>3, CallsInvariant, LatestAnswer, EventsAreTold, PTL DEF Spec

------------------------------------------------------------------------------
(* What is offered.                                                         *)

\* The validation of the stickers S that u gives: those still to be looked at
\* are left, the others were spare.
Validated(c, u, S) ==
  \A s \in S : <<u, s>> \in job[c].left \/ s \in everSpare[u]

SpareInv ==
  /\ \A u \in Users : Spare(u) \subseteq everSpare[u]
  /\ \A c \in Calls :
       /\ pc[c] = "validate" => /\ Validated(c, Caller[c], job[c].offer)
                                /\ Validated(c, job[c].peer, job[c].request)
       /\ pc[c] = "commit" /\ job[c].kind = Received =>
            /\ job[c].offer \subseteq everSpare[Caller[c]]
            /\ job[c].request \subseteq everSpare[job[c].peer]
  /\ OffersWereSpare

\* What was spare once stays in the history, and what is spare is in it.
LEMMA SpareIsKept ==
  ASSUME CallsInv, SpareInv, [Next]_vars
  PROVE  \A u \in Users : /\ everSpare[u] \subseteq everSpare'[u]
                          /\ Spare(u)' \subseteq everSpare'[u]
<1>1. CASE \E u \in Users, s \in Stickers, n \in Counts : UpdateItem(u, s, n)
  <2>1. PICK u \in Users, s \in Stickers, n \in Counts : UpdateItem(u, s, n)
    BY <1>1
  <2>2. \A v \in Users : everSpare[v] \subseteq everSpare'[v]
    BY <2>1 DEF UpdateItem, CallsInv, TypeOK
  <2>3. ASSUME NEW v \in Users, NEW x \in Spare(v)' PROVE x \in everSpare'[v]
    <3>1. x \in Stickers /\ have'[v][x] >= MinimumCount
      BY <2>3 DEF Spare
    <3>2. CASE v = u /\ x = s
      <4>1. have'[u][s] = n
        BY <2>1 DEF UpdateItem, CallsInv, TypeOK
      <4>2. QED
        BY <2>1, <3>1, <3>2, <4>1 DEF UpdateItem, CallsInv, TypeOK
    <3>3. CASE ~(v = u /\ x = s)
      <4>1. have'[v][x] = have[v][x]
        BY <2>1, <3>1, <3>3 DEF UpdateItem, CallsInv, TypeOK
      <4>2. QED
        BY <2>2, <3>1, <4>1 DEF SpareInv, Spare
    <3>4. QED
      BY <3>2, <3>3
  <2>4. QED
    BY <2>2, <2>3
<1>2. CASE UNCHANGED <<have, everSpare>>
  BY <1>2 DEF SpareInv, Spare
<1>3. \/ \E u \in Users, s \in Stickers, n \in Counts : UpdateItem(u, s, n)
      \/ UNCHANGED <<have, everSpare>>
  <2>1. ASSUME NEW c \in Calls, Request(c) \/ Proceed(c) \/ GiveUp(c)
        PROVE  UNCHANGED <<have, everSpare>>
    BY <2>1 DEF Request, Proceed, CreateTrade, RespondTrade, Start, GiveUp,
                ValidateTradeOwnership, InsertTrade, UpdateTrade, Commit, Reload,
                PublishTrade, CountUnread, PublishUnread, tables
  <2>2. QED
    BY <2>1 DEF Next, MarkNotificationRead, vars, tables
<1>4. QED
  BY <1>1, <1>2, <1>3

\* The steps of proposals up to their commit.
LEMMA ProposingSteps ==
  ASSUME CallsInv, [Next]_vars
  PROVE  \/ \E c \in Calls, r \in Users, O, R \in SUBSET Stickers : CreateTrade(c, r, O, R)
         \/ \E c \in Calls : ValidateTradeOwnership(c) \/ InsertTrade(c)
         \/ \A d \in Calls :
              \/ pc'[d] = "validate"
              \/ pc'[d] = "commit" /\ job'[d].kind = Received
              => pc'[d] = pc[d] /\ job'[d] = job[d]
<1> DEFINE Proposing(d) == pc[d] = "validate" \/ (pc[d] = "commit" /\ job[d].kind = Received)
           Aside == \A d \in Calls : Proposing(d)' => pc'[d] = pc[d] /\ job'[d] = job[d]
<1>1. ASSUME NEW c \in Calls, UpdateTrade(c) PROVE Aside
  <2>1. /\ pc[c] = "update" /\ job[c] \in Job /\ job[c].kind \in Answers
        /\ pc'[c] = "commit" /\ job'[c] = [job[c] EXCEPT !.note = noteSeq + 1]
        /\ \A d \in Calls : d # c => pc'[d] = pc[d] /\ job'[d] = job[d]
    BY <1>1 DEF UpdateTrade, Goto, CallsInv, TypeOK, JobsOK
  <2>2. job'[c].kind = job[c].kind
    BY <2>1 DEF Job
  <2>3. QED
    BY <2>1, <2>2, Kinds
<1>2. ASSUME NEW c \in Calls,
             \/ \E t \in DOMAIN trades, answer \in Answers : RespondTrade(c, t, answer)
             \/ GiveUp(c) \/ Commit(c) \/ Reload(c)
             \/ PublishTrade(c) \/ CountUnread(c) \/ PublishUnread(c)
      PROVE  Aside
  <2>1. /\ pc'[c] \notin {"validate", "commit"}
        /\ \A d \in Calls : d # c => pc'[d] = pc[d] /\ job'[d] = job[d]
    BY <1>2 DEF RespondTrade, Start, GiveUp, Commit, Reload, PublishTrade, CountUnread,
                PublishUnread, Finish, Goto, CallsInv, TypeOK
  <2>2. QED
    BY <2>1
<1>3. CASE \E u \in Users : \/ \E s \in Stickers, n \in Counts : UpdateItem(u, s, n)
                            \/ \E n \in DOMAIN notes : MarkNotificationRead(u, n)
  BY <1>3 DEF UpdateItem, MarkNotificationRead, serviceVars
<1>4. CASE UNCHANGED vars
  BY <1>4 DEF vars, serviceVars
<1> HIDE DEF Proposing, Aside
<1>5. CASE Next
  <2>1. ASSUME NEW c \in Calls, Request(c)
        PROVE  \/ \E r \in Users, O, R \in SUBSET Stickers : CreateTrade(c, r, O, R)
               \/ Aside
    BY <2>1, <1>2 DEF Request
  <2>2. ASSUME NEW c \in Calls, Proceed(c) \/ GiveUp(c)
        PROVE  ValidateTradeOwnership(c) \/ InsertTrade(c) \/ Aside
    BY <2>2, <1>1, <1>2 DEF Proceed
  <2>3. QED
    BY <1>5, <2>1, <2>2, <1>3 DEF Next, Aside, Proposing
<1>6. QED
  BY <1>4, <1>5 DEF Aside, Proposing

LEMMA SpareStep ==
  ASSUME CallsInv, SpareInv, [Next]_vars
  PROVE  SpareInv'
<1>1. \A u \in Users : everSpare[u] \subseteq everSpare'[u] /\ Spare(u)' \subseteq everSpare'[u]
  BY SpareIsKept
<1>2. \A c \in Calls : pc[c] # "idle" => /\ job[c] \in Job
                                         /\ Caller[c] \in Users /\ job[c].peer \in Users
  BY CallerAssumption DEF CallsInv, TypeOK, Job
<1>3. OffersWereSpare'
  <2> SUFFICES ASSUME NEW t \in DOMAIN trades'
               PROVE  /\ trades'[t].offer \subseteq everSpare'[trades'[t].proposer]
                      /\ trades'[t].request \subseteq everSpare'[trades'[t].responder]
    BY DEF OffersWereSpare
  <2>1. CASE t \in DOMAIN trades
    <3>1. trades[t].proposer \in Users /\ trades[t].responder \in Users
      BY <2>1 DEF CallsInv, TypeOK, TradeRow
    <3>2. /\ trades[t].offer \subseteq everSpare[trades[t].proposer]
          /\ trades[t].request \subseteq everSpare[trades[t].responder]
      BY <2>1 DEF SpareInv, OffersWereSpare
    <3>3. QED
      BY <1>1, <2>1, <3>1, <3>2, RowsStay
  <2>2. CASE t \notin DOMAIN trades
    <3>1. PICK c \in Calls : Commit(c)
      BY <2>2, StepKinds, MarkReadFacts DEF RespondTrade, Start, tables
    <3>2. job[c].kind = Received
      BY <2>2, <3>1, CommitOfAnswer, Zenon DEF Commit
    <3>3. t = job[c].trade /\ trades'[t] = NewTrade(Caller[c], job[c].peer, job[c].offer,
                                                    job[c].request)
      <4>1. /\ DOMAIN trades' = DOMAIN trades \cup {job[c].trade}
            /\ trades'[job[c].trade] = NewTrade(Caller[c], job[c].peer, job[c].offer,
                                                job[c].request)
        BY <3>1, <3>2, CommitOfProposal, Zenon
      <4>2. QED
        BY <2>2, <4>1
    <3>4. /\ trades'[t].offer = job[c].offer /\ trades'[t].request = job[c].request
          /\ trades'[t].proposer = Caller[c] /\ trades'[t].responder = job[c].peer
      BY <3>3 DEF NewTrade
    <3>5. /\ job[c].offer \subseteq everSpare[Caller[c]]
          /\ job[c].request \subseteq everSpare[job[c].peer]
          /\ Caller[c] \in Users /\ job[c].peer \in Users
      BY <1>2, <3>1, <3>2 DEF Commit, SpareInv
    <3>6. QED
      BY <1>1, <3>4, <3>5
  <2>3. QED
    BY <2>1, <2>2
<1> DEFINE Good(d) ==
      /\ pc[d] = "validate" => /\ Validated(d, Caller[d], job[d].offer)
                               /\ Validated(d, job[d].peer, job[d].request)
      /\ pc[d] = "commit" /\ job[d].kind = Received =>
           /\ job[d].offer \subseteq everSpare[Caller[d]]
           /\ job[d].request \subseteq everSpare[job[d].peer]
<1>4. ASSUME NEW d \in Calls, pc'[d] = pc[d], job'[d] = job[d]
      PROVE  Good(d)'
  BY <1>1, <1>2, <1>4 DEF SpareInv, Validated
<1>5. \A d \in Calls : Good(d)'
  <2>1. CASE \E c \in Calls, r \in Users, O, R \in SUBSET Stickers : CreateTrade(c, r, O, R)
    <3>1. PICK c \in Calls, r \in Users, O \in SUBSET Stickers, R \in SUBSET Stickers :
                 CreateTrade(c, r, O, R)
      BY <2>1
    <3> DEFINE left == ({Caller[c]} \X O) \cup ({r} \X R)
               new == NewJob(Received, 0, r, O, R, left)
    <3>2. /\ pc'[c] = "validate" /\ job'[c] = new
          /\ \A d \in Calls : d # c => pc'[d] = pc[d] /\ job'[d] = job[d]
      BY <3>1 DEF CreateTrade, Start, CallsInv, TypeOK
    <3>3. new.peer = r /\ new.offer = O /\ new.request = R /\ new.left = left
      BY DEF NewJob
    <3> HIDE DEF new
    <3>4. Good(c)'
      BY <3>2, <3>3 DEF Validated
    <3>5. QED
      BY <1>4, <3>2, <3>4
  <2>2. CASE \E c \in Calls : ValidateTradeOwnership(c)
    <3>1. PICK c \in Calls : ValidateTradeOwnership(c)
      BY <2>2
    <3>2. /\ pc[c] = "validate" /\ job[c] \in Job
          /\ \A d \in Calls : d # c => pc'[d] = pc[d] /\ job'[d] = job[d]
      BY <3>1 DEF ValidateTradeOwnership, Finish, Goto, CallsInv, TypeOK
    <3>3. CASE pc'[c] = "idle"
      BY <1>4, <3>2, <3>3
    <3>4. CASE pc'[c] # "idle"
      <4>1. PICK x \in job[c].left : /\ x[2] \in Spare(x[1]) /\ pc' = pc
                                    /\ job' = [job EXCEPT ![c].left = @ \ {x}]
        BY <3>1, <3>4 DEF ValidateTradeOwnership, Finish, Goto, CallsInv, TypeOK
      <4>2. job'[c] = [job[c] EXCEPT !.left = @ \ {x}]
        BY <4>1 DEF CallsInv, TypeOK
      <4>3. /\ job'[c].left = job[c].left \ {x} /\ job'[c].peer = job[c].peer
            /\ job'[c].offer = job[c].offer /\ job'[c].request = job[c].request
        BY <3>2, <4>2 DEF Job
      <4>4. ASSUME NEW u \in Users, NEW S, Validated(c, u, S)
            PROVE  \A s \in S : <<u, s>> \in job'[c].left \/ s \in everSpare'[u]
        <5>1. x[1] = u => x[2] \in everSpare'[u]
          BY <1>1, <4>1 DEF SpareInv
        <5>2. QED
          BY <1>1, <4>3, <4>4, <5>1 DEF Validated
      <4>5. /\ Validated(c, Caller[c], job[c].offer)
            /\ Validated(c, job[c].peer, job[c].request)
        BY <3>2 DEF SpareInv
      <4>6. Good(c)'
        BY <1>2, <3>2, <4>1, <4>3, <4>4, <4>5 DEF Validated
      <4>7. QED
        BY <1>4, <3>2, <4>6
    <3>5. QED
      BY <3>3, <3>4
  <2>3. CASE \E c \in Calls : InsertTrade(c)
    <3>1. PICK c \in Calls : InsertTrade(c)
      BY <2>3
    <3>2. /\ pc[c] = "validate" /\ pc'[c] = "commit" /\ job[c] \in Job /\ job[c].left = {}
          /\ job'[c] = [job[c] EXCEPT !.trade = tradeSeq + 1, !.note = noteSeq + 1]
          /\ \A d \in Calls : d # c => pc'[d] = pc[d] /\ job'[d] = job[d]
      BY <3>1 DEF InsertTrade, Goto, CallsInv, TypeOK
    <3>3. /\ job'[c].peer = job[c].peer /\ job'[c].offer = job[c].offer
          /\ job'[c].request = job[c].request
      BY <3>2 DEF Job
    <3>4. /\ job[c].offer \subseteq everSpare[Caller[c]]
          /\ job[c].request \subseteq everSpare[job[c].peer]
      BY <3>2 DEF SpareInv, Validated
    <3>5. Good(c)'
      BY <1>1, <1>2, <3>2, <3>3, <3>4
    <3>6. QED
      BY <1>4, <3>2, <3>5
  <2>4. CASE \A d \in Calls :
               \/ pc'[d] = "validate"
               \/ pc'[d] = "commit" /\ job'[d].kind = Received
               => pc'[d] = pc[d] /\ job'[d] = job[d]
    BY <1>4, <2>4
  <2>5. QED
    BY <2>1, <2>2, <2>3, <2>4, ProposingSteps
<1>6. QED
  BY <1>1, <1>3, <1>5 DEF SpareInv

\* Nobody gives, or is asked for, a sticker of which there never were two.
THEOREM OffersSpare == Spec => []OffersWereSpare
<1>1. Init => SpareInv
  BY DEF Init, SpareInv, OffersWereSpare
<1>2. CallsInv /\ SpareInv /\ [Next]_vars => SpareInv'
  BY SpareStep
<1>3. SpareInv => OffersWereSpare
  BY DEF SpareInv
<1>4. QED
  BY <1>1, <1>2, <1>3, CallsInvariant, PTL DEF Spec

------------------------------------------------------------------------------
(* Requests and their notifications.                                        *)

\* The trades that p has proposed to r.
Requested(p, r) == {t \in DOMAIN trades : trades[t].proposer = p /\ trades[t].responder = r}

\* There are finitely many of either.
LEMMA RequestsAreFinite ==
  ASSUME TypeOK, NEW p, NEW r
  PROVE  IsFiniteSet(Requested(p, r)) /\ IsFiniteSet(RequestNotes(p, r))
<1>1. IsFiniteSet(1 .. tradeSeq) /\ IsFiniteSet(1 .. noteSeq)
  <2>1. tradeSeq \in Int /\ noteSeq \in Int /\ 1 \in Int
    BY DEF TypeOK
  <2>2. QED
    BY <2>1, FS_Interval, Zenon
<1>2. Requested(p, r) \subseteq 1 .. tradeSeq /\ RequestNotes(p, r) \subseteq 1 .. noteSeq
  BY DEF TypeOK, Requested, RequestNotes
<1>3. QED
  BY <1>1, <1>2, FS_Subset

\* The commit of a proposal adds one to both; nothing else changes either.
LEMMA RequestsStep ==
  ASSUME CallsInv, [Next]_vars, NEW p \in Users, NEW r \in Users,
         Cardinality(Requested(p, r)) = Cardinality(RequestNotes(p, r))
  PROVE  Cardinality(Requested(p, r)') = Cardinality(RequestNotes(p, r)')
<1>1. CASE \E c \in Calls : Commit(c) /\ job[c].kind = Received
  <2>1. PICK c \in Calls : Commit(c) /\ job[c].kind = Received
    BY <1>1
  <2> DEFINE t == job[c].trade
             n == job[c].note
  <2>2. /\ t \notin DOMAIN trades /\ n \notin DOMAIN notes
        /\ DOMAIN trades' = DOMAIN trades \cup {t} /\ DOMAIN notes' = DOMAIN notes \cup {n}
        /\ trades'[t] = NewTrade(Caller[c], job[c].peer, job[c].offer, job[c].request)
        /\ notes'[n] = NewNote(job[c].peer, Received, Caller[c])
        /\ \A x \in DOMAIN trades : trades'[x] = trades[x]
        /\ \A x \in DOMAIN notes : notes'[x] = notes[x]
    BY <2>1, CommitOfProposal, Zenon
  <2>3. /\ trades'[t].proposer = Caller[c] /\ trades'[t].responder = job[c].peer
        /\ notes'[n].type = Received /\ notes'[n].user = job[c].peer
        /\ notes'[n].about = Caller[c]
    BY <2>2 DEF NewTrade, NewNote
  <2> HIDE DEF t, n
  <2>4. t \notin Requested(p, r) /\ n \notin RequestNotes(p, r)
    BY <2>2 DEF Requested, RequestNotes
  <2>5. CASE p = Caller[c] /\ r = job[c].peer
    <3>1. /\ Requested(p, r)' = Requested(p, r) \cup {t}
          /\ RequestNotes(p, r)' = RequestNotes(p, r) \cup {n}
      BY <2>2, <2>3, <2>5 DEF Requested, RequestNotes
    <3>2. IsFiniteSet(Requested(p, r)) /\ IsFiniteSet(RequestNotes(p, r))
      BY RequestsAreFinite DEF CallsInv
    <3>3. /\ Cardinality(Requested(p, r) \cup {t}) = Cardinality(Requested(p, r)) + 1
          /\ Cardinality(RequestNotes(p, r) \cup {n}) = Cardinality(RequestNotes(p, r)) + 1
      BY <2>4, <3>2, FS_AddElement
    <3>4. QED
      BY <3>1, <3>3
  <2>6. CASE ~(p = Caller[c] /\ r = job[c].peer)
    <3>1. Requested(p, r)' = Requested(p, r) /\ RequestNotes(p, r)' = RequestNotes(p, r)
      BY <2>2, <2>3, <2>6 DEF Requested, RequestNotes
    <3>2. QED
      BY <3>1
  <2>7. QED
    BY <2>5, <2>6
<1>2. CASE \E c \in Calls : Commit(c) /\ job[c].kind \in Answers
  <2>1. PICK c \in Calls : Commit(c) /\ job[c].kind \in Answers
    BY <1>2
  <2>2. /\ DOMAIN trades' = DOMAIN trades
        /\ DOMAIN notes' = DOMAIN notes \cup {job[c].note}
        /\ notes'[job[c].note].type # Received
        /\ job[c].note \notin DOMAIN notes
    BY <2>1, CommitOfAnswer, Kinds
  <2>3. Requested(p, r)' = Requested(p, r) /\ RequestNotes(p, r)' = RequestNotes(p, r)
    BY <2>2, RowsStay DEF Requested, RequestNotes
  <2>4. QED
    BY <2>3
<1>3. CASE /\ DOMAIN trades' = DOMAIN trades
           /\ DOMAIN notes' = DOMAIN notes
  <2>1. Requested(p, r)' = Requested(p, r) /\ RequestNotes(p, r)' = RequestNotes(p, r)
    BY <1>3, RowsStay DEF Requested, RequestNotes
  <2>2. QED
    BY <2>1
<1>4. \/ \E c \in Calls : Commit(c) /\ job[c].kind \in Answers \cup {Received}
      \/ DOMAIN trades' = DOMAIN trades /\ DOMAIN notes' = DOMAIN notes
  BY StepKinds, MarkReadFacts DEF Commit, RespondTrade, Start, tables
<1>5. QED
  BY <1>1, <1>2, <1>3, <1>4

\* A request and its notification are committed together, or not at all.
THEOREM RequestsNotified == Spec => []RequestsAreNotified
<1> DEFINE Even == \A p, r \in Users :
                     Cardinality(Requested(p, r)) = Cardinality(RequestNotes(p, r))
<1>1. Init => Even
  BY DEF Init, Requested, RequestNotes
<1>2. CallsInv /\ Even /\ [Next]_vars => Even'
  BY RequestsStep
<1>3. Even => RequestsAreNotified
  BY DEF RequestsAreNotified, Requested, RequestNotes
<1>4. QED
  BY <1>1, <1>2, <1>3, CallsInvariant, PTL DEF Spec

\* No event tells of work that was not committed: its trade and its notification
\* are in the tables.  As many requests as were announced to a user by events are
\* among those proposed to them, and these have as many notifications.
THEOREM NoFalseEvents == Spec => []EventsAreCommitted
<1>1. TypeOK /\ RequestsAreNotified /\ Told => EventsAreCommitted
  <2> SUFFICES ASSUME TypeOK, RequestsAreNotified, Told PROVE EventsAreCommitted
    OBVIOUS
  <2>1. ASSUME NEW u \in Users, NEW p \in Users
        PROVE  Cardinality(Announced(p, u)) <= Cardinality(RequestNotes(p, u))
    <3>1. Announced(p, u) \subseteq Requested(p, u)
      BY DEF Announced, Told, Committed, Requested
    <3>2. IsFiniteSet(Requested(p, u))
      BY RequestsAreFinite
    <3>3. Cardinality(Announced(p, u)) <= Cardinality(Requested(p, u))
      BY <3>1, <3>2, FS_Subset
    <3>4. QED
      BY <3>3 DEF RequestsAreNotified, Requested
  <2>2. QED
    BY <2>1 DEF Told, Committed, EventsAreCommitted
<1>2. QED
  BY <1>1, TypeCorrect, RequestsNotified, EventsAreTold, PTL
==============================================================================
