----------------------------- MODULE Collections -----------------------------
(***************************************************************************)
(* Sticker collections (internal/services/collection_service.go) and the   *)
(* matching of collections (FindMatches and FindMatchWithUser of           *)
(* internal/services/trade_service.go).                                    *)
(*                                                                         *)
(* A member of Calls is a goroutine that serves HTTP calls of the user     *)
(* Caller[c], one after another.  UpdateItem commits one count and then,   *)
(* outside of the transaction, reads the collection again for the          *)
(* statistics it publishes; a match takes two queries per partner.  Each   *)
(* query is a snapshot, and other calls commit between two queries.  Any   *)
(* statement may fail, and the process may die.                            *)
(*                                                                         *)
(* AuthService.Register inserts a user's row of table collections together *)
(* with the user, so ensureCollection finds it and changes nothing; a user *)
(* goes for its collection.  The other queries (GetCollection, GetStats,   *)
(* GetMissing, GetDuplicates) are operators, for they change nothing.  The *)
(* order of lists, and the percentages, which are quotients of the numbers *)
(* counted here, are left out.                                             *)
(***************************************************************************)
EXTENDS Integers, Sequences, FiniteSets, FiniteSetsExt, Functions

CONSTANTS Users, Stickers,
          Team,        \* Team[s]: the team of sticker s
          Special,     \* the stickers with is_special
          Public,      \* the users with is_public
          Calls, Caller,
          Inputs,      \* the counts that clients send, in range or not
          MaxUpdates,  \* bound: updates of each user in a behaviour
          Stocks       \* bound: the collections that users have at first

ASSUME UserAssumption == Caller \in [Calls -> Users] /\ Public \subseteq Users
ASSUME CatalogueAssumption ==
  IsFiniteSet(Stickers) /\ Special \subseteq Stickers /\ DOMAIN Team = Stickers
ASSUME StocksAssumption ==
  \A rows \in Stocks : \E D \in SUBSET Stickers : rows \in [D -> 0 .. 99]
ASSUME BoundAssumption == Inputs \subseteq Int /\ MaxUpdates \in Nat

VARIABLES
  items,    \* items[u]: the rows of collection_items, have_count by sticker
  pc, job,  \* pc[c], job[c]: what c does next, and its local variables
  events,   \* events[u]: what the hub was given for u, in order
  past      \* history: past[u], the counts of u after each commit

vars == <<items, pc, job, events, past>>

NoJob == [kind |-> "none"]

\* The largest count that is stored; larger and negative ones are refused.
MaxCount == 99

------------------------------------------------------------------------------
(* The queries                                                              *)

\* Every sticker, with 0 where there is no row.
GetCollection(u) ==
  [s \in Stickers |-> IF s \in DOMAIN items[u] THEN items[u][s] ELSE 0]

GetMissing(u) == {s \in Stickers : GetCollection(u)[s] = 0}

GetDuplicates(u) == {s \in DOMAIN items[u] : items[u][s] > 1}

\* One if b, to count with.
One(b) == IF b THEN 1 ELSE 0

\* Mutant: the copy in the album is counted as well.
SparesAndAlbum(n) == IF n > 1 THEN n ELSE 0

Spares(n) == IF n > 1 THEN n - 1 ELSE 0

\* The body of the loop: one item of the collection, and a team's record when
\* the team is met for the first time.
CountItem(s, n, stats) ==
  [total |-> stats.total + 1,
   owned |-> stats.owned + One(n > 0),
   missing |-> stats.missing + One(n = 0),
   duplicates |-> stats.duplicates + Spares(n),
   specialsTotal |-> stats.specialsTotal + One(s \in Special),
   specialsOwned |-> stats.specialsOwned + One(s \in Special /\ n > 0),
   teams |-> [t \in DOMAIN stats.teams \cup {Team[s]} |->
                IF t \notin DOMAIN stats.teams THEN [total |-> 1, owned |-> One(n > 0)]
                ELSE [total |-> stats.teams[t].total + One(t = Team[s]),
                      owned |-> stats.teams[t].owned + One(t = Team[s] /\ n > 0)]]]

NoStats == [total |-> 0, owned |-> 0, missing |-> 0, duplicates |-> 0,
            specialsTotal |-> 0, specialsOwned |-> 0, teams |-> << >>]

CalculateCollectionStats(counts) ==
  FoldSet(LAMBDA s, stats : CountItem(s, counts[s], stats), NoStats, DOMAIN counts)

GetStats(u) == CalculateCollectionStats(GetCollection(u))

\* Mutant: one copy is enough to give.
QueryMatchSideAny(taker, giver) ==
  {s \in Stickers : GetCollection(taker)[s] = 0 /\ GetCollection(giver)[s] > 0}

\* The stickers that giver has to spare and taker lacks, in one query.
QueryMatchSide(taker, giver) ==
  {s \in Stickers : GetCollection(taker)[s] = 0 /\ GetCollection(giver)[s] > 1}

------------------------------------------------------------------------------
Goto(c, label) == pc' = [pc EXCEPT ![c] = label]

Finish(c) ==
  /\ Goto(c, "idle")
  /\ job' = [job EXCEPT ![c] = NoJob]

\* The calls that hold the lock of u's row for s: from the upsert to the commit.
Lockers(u, s) ==
  {c \in Calls : pc[c] = "commit" /\ Caller[c] = u /\ job[c].sticker = s}

Updating(u) == {c \in Calls : Caller[c] = u /\ job[c].kind = "update"}

(* PUT /api/collections/stickers/{code}                                     *)

NewUpdate(c, s, n) ==
  [kind |-> "update", sticker |-> s, count |-> n, version |-> 0,
   stats |-> NoStats, alone |-> Updating(Caller[c]) = {}]

\* c takes up an update, and the user's others are not alone any more.
Begin(c, s, n) ==
  /\ pc[c] = "idle"
  /\ Len(past[Caller[c]]) + Cardinality(Updating(Caller[c])) <= MaxUpdates
  /\ job' = [d \in Calls |-> IF d = c THEN NewUpdate(c, s, n)
                             ELSE IF d \in Updating(Caller[c])
                             THEN [job[d] EXCEPT !.alone = FALSE]
                             ELSE job[d]]
  /\ Goto(c, "upsert")
  /\ UNCHANGED <<items, events, past>>

\* Mutant: only large counts are refused.
UpdateItemBelow(c, s, n) == n <= MaxCount /\ Begin(c, s, n)

\* A count out of range, and a sticker outside of the catalogue, are refused
\* before anything is written.  (The table's CHECK refuses negative counts once
\* more; it is left out, so that the counts rest on this test alone.)
UpdateItem(c, s, n) == 0 <= n /\ n <= MaxCount /\ Begin(c, s, n)

\* The upsert waits for another transaction that inserted or updated the same
\* row.  The item is read back before the commit: the row is the call's own.
Upsert(c) ==
  /\ pc[c] = "upsert"
  /\ Lockers(Caller[c], job[c].sticker) = {}
  /\ Goto(c, "commit")
  /\ UNCHANGED <<items, job, events, past>>

\* Mutant: the statistics are read within the transaction's time, not after it.
CommitAfterStats(c) ==
  LET u == Caller[c] IN
  /\ pc[c] = "commit"
  /\ items' = [items EXCEPT ![u] =
       [s \in DOMAIN @ \cup {job[c].sticker} |->
          IF s = job[c].sticker THEN job[c].count ELSE @[s]]]
  /\ past' = [past EXCEPT ![u] = Append(@, GetCollection(u)')]
  /\ job' = [job EXCEPT ![c].version = Len(past'[u]), ![c].stats = GetStats(u)]
  /\ Goto(c, "publish item")
  /\ UNCHANGED events

Commit(c) ==
  LET u == Caller[c] IN
  /\ pc[c] = "commit"
  /\ items' = [items EXCEPT ![u] =
       [s \in DOMAIN @ \cup {job[c].sticker} |->
          IF s = job[c].sticker THEN job[c].count ELSE @[s]]]
  /\ past' = [past EXCEPT ![u] = Append(@, GetCollection(u)')]
  /\ job' = [job EXCEPT ![c].version = Len(past'[u])]
  /\ Goto(c, "stats")
  /\ UNCHANGED events

\* Mutant: the item is read together with the statistics.
ReadStatsAndItem(c) ==
  /\ pc[c] = "stats"
  /\ job' = [job EXCEPT ![c].stats = GetStats(Caller[c]),
                        ![c].count = GetCollection(Caller[c])[job[c].sticker]]
  /\ Goto(c, "publish item")
  /\ UNCHANGED <<items, events, past>>

\* If this read fails the call succeeds all the same, and publishes nothing.
ReadStats(c) ==
  /\ pc[c] = "stats"
  /\ job' = [job EXCEPT ![c].stats = GetStats(Caller[c])]
  /\ Goto(c, "publish item")
  /\ UNCHANGED <<items, events, past>>

\* The version, and whether the user's calls overlapped, are history.
PublishItem(c) ==
  /\ pc[c] = "publish item"
  /\ events' = [events EXCEPT ![Caller[c]] =
       Append(@, [type |-> "collection.updated", version |-> job[c].version,
                  sticker |-> job[c].sticker, count |-> job[c].count])]
  /\ Goto(c, "publish stats")
  /\ UNCHANGED <<items, job, past>>

PublishStats(c) ==
  /\ pc[c] = "publish stats"
  /\ events' = [events EXCEPT ![Caller[c]] =
       Append(@, [type |-> "stats.updated", version |-> job[c].version,
                  alone |-> job[c].alone, stats |-> job[c].stats])]
  /\ Finish(c)
  /\ UNCHANGED <<items, past>>

(* GET /api/trades/matches and /api/trades/matches/{userId}                 *)

Match(c, partners, all) ==
  /\ pc[c] = "idle"
  /\ job' = [job EXCEPT ![c] =
       [kind |-> "match", left |-> partners, all |-> all, with |-> {}, need |-> {},
        matches |-> {}, asked |-> partners, since |-> [u \in Users |-> Len(past[u])]]]
  /\ Goto(c, "they have")
  /\ UNCHANGED <<items, events, past>>

\* The partners are the rows of one query, and only matches with a positive
\* score are kept.
FindMatches(c) == Match(c, Public \ {Caller[c]}, FALSE)

FindMatchWithUser(c, o) == o \in Public /\ Match(c, {o}, TRUE)

\* The first query of computeMatch; partners come in any order.
TheyHaveYouNeed(c, o) ==
  /\ pc[c] = "they have"
  /\ o \in job[c].left
  /\ job' = [job EXCEPT ![c].left = @ \ {o}, ![c].with = {o},
                        ![c].need = QueryMatchSide(Caller[c], o)]
  /\ Goto(c, "you have")
  /\ UNCHANGED <<items, events, past>>

\* The second query, and the end of the loop's body.
YouHaveTheyNeed(c, o) ==
  LET take == job[c].need
      give == QueryMatchSide(o, Caller[c]) IN
  /\ pc[c] = "you have"
  /\ o \in job[c].with
  /\ job' = [job EXCEPT ![c].with = {}, ![c].need = {}, ![c].matches =
               IF job[c].all \/ take \cup give # {}
               THEN @ \cup {[partner |-> o, take |-> take, give |-> give]}
               ELSE @]
  /\ Goto(c, "they have")
  /\ UNCHANGED <<items, events, past>>

AnswerMatches(c) ==
  /\ pc[c] = "they have"
  /\ job[c].left = {}
  /\ Finish(c)
  /\ UNCHANGED <<items, events, past>>

\* A statement fails, the client hangs up or the process dies.
GiveUp(c) ==
  /\ pc[c] # "idle"
  /\ Finish(c)
  /\ UNCHANGED <<items, events, past>>

------------------------------------------------------------------------------
Init ==
  /\ items \in [Users -> Stocks]
  /\ pc = [c \in Calls |-> "idle"]
  /\ job = [c \in Calls |-> NoJob]
  /\ events = [u \in Users |-> << >>]
  /\ past = [u \in Users |-> <<GetCollection(u)>>]

Update(c) ==
  \/ \E s \in Stickers, n \in Inputs : UpdateItem(c, s, n)
  \/ Upsert(c) \/ Commit(c) \/ ReadStats(c) \/ PublishItem(c) \/ PublishStats(c)

Matching(c) ==
  \/ FindMatches(c)
  \/ \E o \in Users : \/ FindMatchWithUser(c, o)
                      \/ TheyHaveYouNeed(c, o) \/ YouHaveTheyNeed(c, o)
  \/ AnswerMatches(c)

Next == \E c \in Calls : Update(c) \/ Matching(c) \/ GiveUp(c)

Spec == Init /\ [][Next]_vars

------------------------------------------------------------------------------
Count == 0 .. MaxCount

\* The rows fit the table, stored counts are in range whatever clients send,
\* and the calls' variables fit what they do next.
TypeOK ==
  /\ \A u \in Users : DOMAIN items[u] \subseteq Stickers /\ Range(items[u]) \subseteq Count
  /\ pc \in [Calls -> {"idle", "upsert", "commit", "stats", "publish item",
                       "publish stats", "they have", "you have"}]
  /\ \A c \in Calls :
       /\ pc[c] = "idle" <=> job[c] = NoJob
       /\ pc[c] = "they have" => job[c].with = {}
       /\ job[c].kind = "update" => job[c].sticker \in Stickers /\ job[c].count \in Count
  /\ \A u \in Users : \A i \in DOMAIN past[u] : Range(past[u][i]) \subseteq Count

\* What the statistics of a collection mean.
Owned(counts, S) == {s \in S : counts[s] > 0}

TrueStats(counts) ==
  [total |-> Cardinality(Stickers),
   owned |-> Cardinality(Owned(counts, Stickers)),
   missing |-> Cardinality(Stickers) - Cardinality(Owned(counts, Stickers)),
   duplicates |-> SumFunction(counts) - Cardinality(Owned(counts, Stickers)),
   specialsTotal |-> Cardinality(Special),
   specialsOwned |-> Cardinality(Owned(counts, Special)),
   teams |-> [t \in Range(Team) |->
                LET S == {s \in Stickers : Team[s] = t} IN
                [total |-> Cardinality(S), owned |-> Cardinality(Owned(counts, S))]]]

\* The three views of a collection agree: the loop of CalculateCollectionStats
\* computes the statistics, in whatever order it meets the stickers, and the
\* lists of missing and duplicate stickers, queries of their own over the rows
\* that exist, are the stickers it counted.
StatsAndListsAgree ==
  \A u \in Users :
    LET stats == GetStats(u) IN
    /\ stats = TrueStats(GetCollection(u))
    /\ stats.missing = Cardinality(GetMissing(u))
    /\ stats.duplicates + Cardinality(GetDuplicates(u))
         = SumFunctionOnSet(items[u], GetDuplicates(u))

StatsEvents(u) == {i \in DOMAIN events[u] : events[u][i].type = "stats.updated"}
ItemEvents(u) == DOMAIN events[u] \ StatsEvents(u)

\* Events tell the truth, however calls overlap and fail: collection.updated
\* shows a count as one commit left it, no commit is announced twice, and
\* stats.updated follows it with the statistics of a collection that was
\* committed then or later.
EventsTellTheTruth ==
  \A u \in Users :
    /\ \A i, j \in ItemEvents(u) :
         LET e == events[u][i] IN
         /\ past[u][e.version][e.sticker] = e.count
         /\ i # j => e.version # events[u][j].version
    /\ \A i \in StatsEvents(u) :
         LET e == events[u][i] IN
         /\ \E j \in ItemEvents(u) : j < i /\ events[u][j].version = e.version
         /\ \E v \in e.version .. Len(past[u]) : e.stats = TrueStats(past[u][v])

\* A browser that keeps the last statistics it was sent shows the present
\* ones, when the update that changed the collection last was announced and
\* did not overlap with another update of the same user.
LastStatsAreCurrent ==
  \A u \in Users : \A i \in StatsEvents(u) :
    LET e == events[u][i] IN
    e.version = Len(past[u]) /\ e.alone =>
      /\ e.stats = TrueStats(GetCollection(u))
      /\ \A j \in StatsEvents(u) : j <= i

\* The counts of u since call c began: at least one of them, or all of them,
\* are in S.
Once(c, u, s, S) == \E v \in job[c].since[u] .. Len(past[u]) : past[u][v][s] \in S
Always(c, u, s, S) == \A v \in job[c].since[u] .. Len(past[u]) : past[u][v][s] \in S

Tradable == 2 .. MaxCount

\* Matches are what CreateTrade will accept, as far as collections hold still.
\* A sticker is listed only if its giver could spare it and its taker lacked
\* it at some time of the call, and it is listed, for every partner there is,
\* if that was so during all of the call.
MatchesHold ==
  \A c \in Calls : job[c].kind = "match" =>
    LET me == Caller[c] IN
    /\ \A m \in job[c].matches :
         /\ \A s \in m.take : Once(c, m.partner, s, Tradable) /\ Once(c, me, s, {0})
         /\ \A s \in m.give : Once(c, me, s, Tradable) /\ Once(c, m.partner, s, {0})
    /\ \A o \in job[c].asked \ (job[c].left \cup job[c].with), s \in Stickers :
         /\ Always(c, o, s, Tradable) /\ Always(c, me, s, {0}) =>
              \E m \in job[c].matches : m.partner = o /\ s \in m.take
         /\ Always(c, me, s, Tradable) /\ Always(c, o, s, {0}) =>
              \E m \in job[c].matches : m.partner = o /\ s \in m.give
==============================================================================
