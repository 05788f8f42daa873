----------------------------- MODULE RateLimiter ------------------------------
(***************************************************************************)
(* The rate limiter of cmd/api/main.go: limiterStore, limitByIP and        *)
(* limitByUser.  A key is an IP address or a user; its limiter is made by  *)
(* the first request and dropped when, at the making of another limiter,   *)
(* it has been idle for longer than EvictAfter.                            *)
(*                                                                         *)
(* The limiter itself is golang.org/x/time/rate, an external package: it   *)
(* keeps the tokens left at its last grant, and computes what was gained   *)
(* since when it is asked.  Time runs in ticks, Interval ticks to a token  *)
(* (rate.Every(time.Minute / perMinute)), so Burst * Interval ticks are    *)
(* the minute that the limits are given for.  Tokens are counted in ticks, *)
(* Interval to a token.  get and Allow are one step: nothing that another  *)
(* request does to the store between them matters to either.               *)
(***************************************************************************)
EXTENDS Naturals, FiniteSets, Sequences

CONSTANTS Keys,
          Burst,       \* perMinute
          Interval,    \* ticks in which a limiter gains a token
          EvictAfter,  \* ticks: ten minutes
          MaxTime      \* bound: the last tick

ASSUME LimitAssumption ==
  /\ Burst \in Nat \ {0} /\ Interval \in Nat \ {0}
  /\ EvictAfter \in Nat /\ MaxTime \in Nat
  /\ EvictAfter >= Burst * Interval

VARIABLES
  now,
  entries,  \* entries[k]: the visitor of k, for the keys in the map
  granted   \* history: granted[k], the times of the requests that were served

vars == <<now, entries, granted>>

Full == Burst * Interval

Capped(ticks) == IF ticks > Full THEN Full ELSE ticks

\* rate.Limiter: what visitor v has at time t.
TokensAt(v, t) == Capped(v.tokens + (t - v.last))

\* rate.NewLimiter starts full.
NewVisitor == [tokens |-> Full, last |-> now, lastSeen |-> now]

\* Mutant: limiters are dropped after the time in which one token is gained.
SeenEvictSoon(k) ==
  IF k \in DOMAIN entries
  THEN [entries EXCEPT ![k].lastSeen = now]
  ELSE LET kept == {x \in DOMAIN entries : now - entries[x].lastSeen <= Interval} IN
       [x \in kept \cup {k} |-> IF x = k THEN NewVisitor ELSE entries[x]]

\* limiterStore.get: the entries after a request of k was looked up.
Seen(k) ==
  IF k \in DOMAIN entries
  THEN [entries EXCEPT ![k].lastSeen = now]
  ELSE LET kept == {x \in DOMAIN entries : now - entries[x].lastSeen <= EvictAfter} IN
       [x \in kept \cup {k} |-> IF x = k THEN NewVisitor ELSE entries[x]]

\* Mutant: a refused request costs a token too, down to nothing.
RefuseAtACost(k) ==
  LET seen == Seen(k) IN
  /\ TokensAt(seen[k], now) < Interval
  /\ entries' = [seen EXCEPT ![k].tokens = 0, ![k].last = now]
  /\ UNCHANGED <<now, granted>>

\* limitByIP and limitByUser: the request is passed on, or answered with 429.
Serve(k) ==
  LET seen == Seen(k) IN
  /\ TokensAt(seen[k], now) >= Interval
  /\ entries' = [seen EXCEPT ![k].tokens = TokensAt(seen[k], now) - Interval,
                             ![k].last = now]
  /\ granted' = [granted EXCEPT ![k] = Append(@, now)]
  /\ UNCHANGED now

Refuse(k) ==
  LET seen == Seen(k) IN
  /\ TokensAt(seen[k], now) < Interval
  /\ entries' = seen
  /\ UNCHANGED <<now, granted>>

\* The history keeps the last minute: the times are in order, so the recent ones
\* are the last of them.
Recent(times, t) ==
  LET recent == {i \in DOMAIN times : t - times[i] < Full} IN
  SubSeq(times, Len(times) - Cardinality(recent) + 1, Len(times))

Tick == /\ now < MaxTime
        /\ now' = now + 1
        /\ granted' = [k \in Keys |-> Recent(granted[k], now + 1)]
        /\ UNCHANGED entries

Init == /\ now = 0
        /\ entries = << >>
        /\ granted = [k \in Keys |-> << >>]

Next == Tick \/ \E k \in Keys : Serve(k) \/ Refuse(k)

Spec == Init /\ [][Next]_vars
------------------------------------------------------------------------------
Visitor == [tokens : 0..Full, last : 0..MaxTime, lastSeen : 0..MaxTime]

\* What k may spend now, in ticks.
Allowance(k) == IF k \in DOMAIN entries THEN TokensAt(entries[k], now) ELSE Full

TypeOK ==
  /\ now \in 0..MaxTime
  /\ DOMAIN entries \subseteq Keys
  /\ \A k \in DOMAIN entries : /\ entries[k] \in Visitor
                               /\ entries[k].last <= entries[k].lastSeen
                               /\ entries[k].lastSeen <= now

\* A limiter lets through less than twice its limit in a minute, although its
\* entry may be dropped and made anew in between.
LessThanTwiceTheLimit == \A k \in Keys : Len(granted[k]) < 2 * Burst

\* A key that was served less than its limit in the last minute is served: what
\* it did before, and what it was refused, is not held against it.
UnderTheLimitIsServed ==
  \A k \in Keys : Len(granted[k]) < Burst => Allowance(k) >= Interval

\* Dropping idle entries cannot be noticed.
Promise == INSTANCE RateLimit WITH bucket <- [k \in Keys |-> Allowance(k)]
ImplementsRateLimit == Promise!Spec
==============================================================================
