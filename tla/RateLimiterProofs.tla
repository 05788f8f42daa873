-------------------------- MODULE RateLimiterProofs ---------------------------
(***************************************************************************)
(* Dropping idle limiters cannot be noticed: the limiter implements        *)
(* RateLimit, for every limit, every number of keys, and every EvictAfter  *)
(* that is not shorter than the time in which an empty limiter fills up.   *)
(* This holds because an entry that is dropped is full, and so is the one  *)
(* that replaces it.                                                       *)
(*                                                                         *)
(* And the limit itself holds: what a key was served in any window, and    *)
(* what its limiter still has, are paid for by a full burst and the time   *)
(* that passed (Accounts, with Times and Balance).                         *)
(***************************************************************************)
EXTENDS RateLimiter, FiniteSetTheorems, SequenceTheorems, TLAPS

EntriesOK ==
  /\ now \in 0..MaxTime
  /\ DOMAIN entries \subseteq Keys
  /\ entries = [k \in DOMAIN entries |-> entries[k]]
  /\ \A k \in DOMAIN entries :
       /\ entries[k] \in Visitor
       /\ entries[k].last <= entries[k].lastSeen
       /\ entries[k].lastSeen <= now

\* Full is a number; what it is a product of does not matter below.
LEMMA FullIsPositive ==
  Full \in Nat /\ Interval \in Nat \ {0} /\ Full >= Interval /\ EvictAfter >= Full
  /\ EvictAfter \in Nat /\ MaxTime \in Nat
<1>1. Burst * Interval \in Nat /\ Burst * Interval >= Interval
  BY LimitAssumption
<1> QED
  BY <1>1, LimitAssumption DEF Full

\* A capped amount is between nothing and Full.
LEMMA CappedIsBounded ==
  ASSUME NEW n \in Nat
  PROVE  Capped(n) \in 0..Full /\ (n <= Full => Capped(n) = n) /\ (n >= Full => Capped(n) = Full)
  BY FullIsPositive DEF Capped

\* What a visitor has, at a time that is not before its last request.
LEMMA TokensAreBounded ==
  ASSUME NEW v \in Visitor, NEW t \in Nat, v.last <= t
  PROVE  TokensAt(v, t) \in 0..Full
<1>1. v.tokens + (t - v.last) \in Nat
  BY FullIsPositive DEF Visitor
<1> QED
  BY <1>1, CappedIsBounded DEF TokensAt

\* What a key may have now is between nothing and Full.
LEMMA AllowanceIsBounded ==
  ASSUME EntriesOK, NEW k \in Keys
  PROVE  Allowance(k) \in 0..Full
<1>1. CASE k \in DOMAIN entries
  <2>1. entries[k] \in Visitor /\ entries[k].last <= now /\ now \in Nat
    BY <1>1, FullIsPositive DEF EntriesOK, Visitor
  <2> QED
    BY <1>1, <2>1, TokensAreBounded DEF Allowance
<1>2. CASE k \notin DOMAIN entries
  BY <1>2, FullIsPositive DEF Allowance
<1> QED
  BY <1>1, <1>2

\* What a look-up does: the key's own entry is there and current, entries that
\* remain are as before, and those that are dropped were full.
LEMMA SeenIsFaithful ==
  ASSUME EntriesOK, NEW k \in Keys
  PROVE  /\ k \in DOMAIN Seen(k) /\ DOMAIN Seen(k) \subseteq Keys
         /\ Seen(k) = [x \in DOMAIN Seen(k) |-> Seen(k)[x]]
         /\ \A x \in DOMAIN Seen(k) :
              /\ Seen(k)[x] \in Visitor
              /\ Seen(k)[x].last <= Seen(k)[x].lastSeen
              /\ Seen(k)[x].lastSeen <= now
         /\ Seen(k)[k].lastSeen = now
         /\ \A x \in DOMAIN Seen(k) : TokensAt(Seen(k)[x], now) = Allowance(x)
         /\ \A x \in Keys \ DOMAIN Seen(k) : Allowance(x) = Full
<1>1. CASE k \in DOMAIN entries
  <2>1. Seen(k) = [entries EXCEPT ![k].lastSeen = now]
    BY <1>1 DEF Seen
  <2>2. DOMAIN Seen(k) = DOMAIN entries
    BY <2>1
  <2>3. \A x \in DOMAIN entries :
          Seen(k)[x] = IF x = k THEN [entries[k] EXCEPT !.lastSeen = now] ELSE entries[x]
    BY <2>1
  <2>4. ASSUME NEW x \in DOMAIN entries
        PROVE  /\ Seen(k)[x] \in Visitor
               /\ Seen(k)[x].last = entries[x].last
               /\ Seen(k)[x].tokens = entries[x].tokens
               /\ Seen(k)[x].last <= Seen(k)[x].lastSeen
               /\ Seen(k)[x].lastSeen <= now
    <3>1. CASE x = k
      BY <1>1, <2>3, <3>1, FullIsPositive DEF EntriesOK, Visitor
    <3>2. CASE x # k
      BY <2>3, <3>2 DEF EntriesOK
    <3> QED
      BY <3>1, <3>2
  <2>5. \A x \in DOMAIN entries : TokensAt(Seen(k)[x], now) = Allowance(x)
    BY <2>4 DEF TokensAt, Allowance
  <2>6. \A x \in Keys \ DOMAIN entries : Allowance(x) = Full
    BY DEF Allowance
  <2>7. Seen(k)[k].lastSeen = now
    <3>1. entries[k] \in Visitor /\ Seen(k)[k] = [entries[k] EXCEPT !.lastSeen = now]
      BY <1>1, <2>3 DEF EntriesOK
    <3> QED
      BY <3>1 DEF Visitor
  <2>8. Seen(k) = [x \in DOMAIN Seen(k) |-> Seen(k)[x]]
    BY <2>1
  <2> QED
    BY <1>1, <2>2, <2>4, <2>5, <2>6, <2>7, <2>8 DEF EntriesOK
<1>2. CASE k \notin DOMAIN entries
  <2> DEFINE kept == {x \in DOMAIN entries : now - entries[x].lastSeen <= EvictAfter}
  <2>1. Seen(k) = [x \in kept \cup {k} |-> IF x = k THEN NewVisitor ELSE entries[x]]
    BY <1>2 DEF Seen
  <2>2. /\ NewVisitor \in Visitor
        /\ NewVisitor.last = now /\ NewVisitor.lastSeen = now
        /\ TokensAt(NewVisitor, now) = Full
    BY FullIsPositive DEF NewVisitor, Visitor, TokensAt, Capped, EntriesOK
  <2>3. Allowance(k) = Full
    BY <1>2 DEF Allowance
  <2>4. ASSUME NEW x \in DOMAIN entries, x \notin kept
        PROVE  Allowance(x) = Full
    <3>1. now - entries[x].last >= Full /\ entries[x].tokens \in Nat
          /\ now - entries[x].last \in Nat
      BY <2>4, FullIsPositive DEF EntriesOK, Visitor
    <3> QED
      BY <3>1, FullIsPositive DEF Allowance, TokensAt, Capped
  <2>5. \A x \in Keys \ DOMAIN entries : Allowance(x) = Full
    BY DEF Allowance
  <2>6. DOMAIN Seen(k) = kept \cup {k}
    BY <2>1
  <2>7. \A x \in kept : Seen(k)[x] = entries[x] /\ Allowance(x) = TokensAt(entries[x], now)
    BY <1>2, <2>1 DEF Allowance
  <2>8. Seen(k)[k] = NewVisitor
    BY <2>1
  <2>9. kept \subseteq DOMAIN entries
    OBVIOUS
  <2> HIDE DEF kept
  <2> QED
    BY <1>2, <2>1, <2>2, <2>3, <2>4, <2>5, <2>6, <2>7, <2>8, <2>9 DEF EntriesOK
<1> QED
  BY <1>1, <1>2

------------------------------------------------------------------------------
\* Entries keep their shape, whatever happens.
LEMMA EntriesInv == Spec => []EntriesOK
<1>1. Init => EntriesOK
  BY LimitAssumption DEF Init, EntriesOK
<1>2. EntriesOK /\ [Next]_vars => EntriesOK'
  <2> SUFFICES ASSUME EntriesOK, [Next]_vars PROVE EntriesOK'
    OBVIOUS
  <2>1. CASE UNCHANGED vars
    BY <2>1 DEF vars, EntriesOK
  <2>2. CASE Tick
    <3>1. now' = now + 1 /\ now' \in 0..MaxTime /\ entries' = entries /\ now \in Nat
      BY <2>2, FullIsPositive DEF Tick, EntriesOK
    <3>2. ASSUME NEW k \in DOMAIN entries
          PROVE  entries[k].lastSeen <= now + 1
      BY <3>1, FullIsPositive DEF EntriesOK, Visitor
    <3> QED
      BY <3>1, <3>2 DEF EntriesOK
  <2>3. ASSUME NEW k \in Keys, Serve(k)
        PROVE  EntriesOK'
    <3>1. Allowance(k) \in 0..Full /\ TokensAt(Seen(k)[k], now) = Allowance(k)
          /\ Allowance(k) >= Interval
      BY <2>3, SeenIsFaithful, AllowanceIsBounded DEF Serve
    <3>2. entries' = [Seen(k) EXCEPT ![k] = [Seen(k)[k] EXCEPT !.tokens = Allowance(k) - Interval,
                                                              !.last = now]]
      BY <2>3, <3>1 DEF Serve
    <3>3. DOMAIN entries' = DOMAIN Seen(k)
      BY <3>2
    <3>4. \A x \in DOMAIN Seen(k) : x # k => entries'[x] = Seen(k)[x]
      BY <3>2
    <3>5. entries'[k] = [Seen(k)[k] EXCEPT !.tokens = Allowance(k) - Interval, !.last = now]
      BY <3>2, SeenIsFaithful
    <3>6. /\ entries'[k] \in Visitor
          /\ entries'[k].last <= entries'[k].lastSeen
          /\ entries'[k].lastSeen <= now
      <4>1. Seen(k)[k] \in Visitor /\ Seen(k)[k].lastSeen = now /\ now \in 0..MaxTime
        BY SeenIsFaithful DEF EntriesOK
      <4>2. Allowance(k) - Interval \in 0..Full
        BY <3>1, FullIsPositive
      <4>3. entries'[k] = [tokens |-> Allowance(k) - Interval, last |-> now, lastSeen |-> now]
        BY <3>5, <4>1 DEF Visitor
      <4> QED
        BY <4>1, <4>2, <4>3, FullIsPositive DEF Visitor
    <3>7. now' = now /\ entries' = [x \in DOMAIN entries' |-> entries'[x]]
      BY <2>3, <3>2, <3>3 DEF Serve
    <3> QED
      BY <3>3, <3>4, <3>6, <3>7, SeenIsFaithful DEF EntriesOK
  <2>4. ASSUME NEW k \in Keys, Refuse(k)
        PROVE  EntriesOK'
    <3>1. entries' = Seen(k) /\ now' = now
      BY <2>4 DEF Refuse
    <3> QED
      BY <3>1, SeenIsFaithful DEF EntriesOK
  <2> QED
    BY <2>1, <2>2, <2>3, <2>4 DEF Next
<1> QED
  BY <1>1, <1>2, PTL DEF Spec

\* The entries keep their types, and their times do not run ahead.
THEOREM TypeCorrect == Spec => []TypeOK
<1>1. EntriesOK => TypeOK
  BY DEF EntriesOK, TypeOK
<1> QED
  BY <1>1, EntriesInv, PTL

------------------------------------------------------------------------------
\* A tick gives every key that is not full what a tick gains.
LEMMA TickGains ==
  ASSUME EntriesOK, Tick, NEW k \in Keys
  PROVE  Allowance(k)' = Capped(Allowance(k) + 1)
  BY FullIsPositive DEF Tick, Allowance, TokensAt, Capped, EntriesOK, Visitor

\* A request that is served takes a token of its key, and nothing of others.
LEMMA ServeTakes ==
  ASSUME EntriesOK, NEW k \in Keys, Serve(k)
  PROVE  /\ Allowance(k) \in 0..Full /\ Allowance(k) >= Interval
         /\ Allowance(k)' = Allowance(k) - Interval
         /\ \A x \in Keys \ {k} : Allowance(x)' = Allowance(x)
<1>1. TokensAt(Seen(k)[k], now) = Allowance(k) /\ Allowance(k) >= Interval
      /\ Allowance(k) \in 0..Full
  BY SeenIsFaithful, AllowanceIsBounded DEF Serve
<1>2. /\ now' = now
      /\ entries' = [Seen(k) EXCEPT ![k] = [Seen(k)[k] EXCEPT !.tokens = Allowance(k) - Interval,
                                                              !.last = now]]
  BY <1>1 DEF Serve
<1>3. Allowance(k)' = Allowance(k) - Interval
  <2>1. Seen(k)[k] \in Visitor /\ k \in DOMAIN Seen(k) /\ now \in Nat
    BY SeenIsFaithful, FullIsPositive DEF EntriesOK
  <2>2. k \in DOMAIN entries' /\ entries'[k].tokens = Allowance(k) - Interval
        /\ entries'[k].last = now
    BY <1>2, <2>1 DEF Visitor
  <2>3. Allowance(k)' = Capped(Allowance(k) - Interval + (now - now))
    BY <1>2, <2>2 DEF Allowance, TokensAt, Capped
  <2>4. Allowance(k) - Interval + (now - now) = Allowance(k) - Interval
        /\ Allowance(k) - Interval \in 0..Full
    BY <1>1, <2>1, FullIsPositive
  <2> QED
    BY <2>3, <2>4, CappedIsBounded, FullIsPositive
<1>4. ASSUME NEW x \in Keys, x # k
      PROVE  Allowance(x)' = Allowance(x)
  <2>1. CASE x \in DOMAIN Seen(k)
    <3>1. x \in DOMAIN entries' /\ entries'[x] = Seen(k)[x]
      BY <1>2, <1>4, <2>1
    <3> QED
      BY <1>2, <2>1, <3>1, SeenIsFaithful DEF Allowance, TokensAt
  <2>2. CASE x \notin DOMAIN Seen(k)
    BY <1>2, <2>2, SeenIsFaithful DEF Allowance
  <2> QED
    BY <2>1, <2>2
<1> QED
  BY <1>1, <1>3, <1>4

\* A request that is refused costs nothing.
LEMMA RefuseIsFree ==
  ASSUME EntriesOK, NEW k \in Keys, Refuse(k), NEW x \in Keys
  PROVE  Allowance(x)' = Allowance(x)
  BY SeenIsFaithful DEF Refuse, Allowance, TokensAt

\* The limiter, with the entries it drops, behaves like buckets that are never
\* dropped: every request is answered as theirs would answer it.
THEOREM Implements == Spec => ImplementsRateLimit
<1>1. Init => Promise!Init
  BY DEF Init, Promise!Init, Allowance, Full, Promise!Full
<1>2. EntriesOK /\ EntriesOK' /\ [Next]_vars =>
        [Promise!Next]_<<now, [k \in Keys |-> Allowance(k)]>>
  <2> SUFFICES ASSUME EntriesOK, EntriesOK', [Next]_vars
               PROVE  [Promise!Next]_<<now, [k \in Keys |-> Allowance(k)]>>
    OBVIOUS
  <2>0. Promise!Full = Full /\ \A n : Promise!Capped(n) = Capped(n)
    BY DEF Promise!Full, Full, Promise!Capped, Capped
  <2>1. CASE UNCHANGED vars
    BY <2>1 DEF vars, Allowance, TokensAt
  <2>2. CASE Tick
    <3>1. \A k \in Keys : Allowance(k)' = Capped(Allowance(k) + 1)
      BY <2>2, TickGains
    <3>2. Promise!Tick
      BY <2>0, <2>2, <3>1 DEF Tick, Promise!Tick
    <3> QED
      BY <3>2 DEF Promise!Next
  <2>3. ASSUME NEW k \in Keys, Serve(k)
        PROVE  Promise!Serve(k)
    <3>1. now' = now
      BY <2>3 DEF Serve
    <3> QED
      BY <2>3, <3>1, ServeTakes DEF Promise!Serve
  <2>4. ASSUME NEW k \in Keys, Refuse(k)
        PROVE  UNCHANGED <<now, [x \in Keys |-> Allowance(x)]>>
    <3>1. now' = now
      BY <2>4 DEF Refuse
    <3>2. \A x \in Keys : Allowance(x)' = Allowance(x)
      BY <2>4, RefuseIsFree
    <3> QED
      BY <3>1, <3>2
  <2> QED
    BY <2>1, <2>2, <2>3, <2>4 DEF Next, Promise!Next
<1> QED
  BY <1>1, <1>2, EntriesInv, PTL DEF Spec, ImplementsRateLimit, Promise!Spec

------------------------------------------------------------------------------
(* What was served in the last minute, and what may be spent now.           *)

\* Times g in order, none later than t and none older than a minute.
Times(g, t) ==
  /\ g \in Seq(Nat)
  /\ \A i \in 1 .. Len(g) : g[i] <= t /\ t - g[i] < Full
  /\ \A i, j \in 1 .. Len(g) : i <= j => g[i] <= g[j]

\* What the last n requests took, in ticks.
Taken(n) == n * Interval

\* Times g and what is left, a, account for each other: the requests from any of
\* them on took no more than a minute's tokens and what was gained since, and
\* what was gained since is there, but for what the later ones took.
Balance(g, a, t) ==
  /\ \A i \in 1 .. Len(g) :
       /\ Taken(Len(g) - i + 1) + a <= Full + (t - g[i])
       /\ t - g[i] <= Taken(Len(g) - i) + a
  /\ Taken(Len(g)) + a >= Full

Accounts ==
  /\ granted = [k \in Keys |-> granted[k]]
  /\ \A k \in Keys : Times(granted[k], now) /\ Balance(granted[k], Allowance(k), now)

\* The products, one request at a time.
LEMMA OneMore ==
  ASSUME NEW n \in Nat
  PROVE  Taken(n) \in Nat /\ Taken(n + 1) = Taken(n) + Interval /\ Taken(0) = 0
  BY FullIsPositive DEF Taken

\* More requests take at least as much.
LEMMA ProductsAreMonotonic ==
  ASSUME NEW p \in Nat, NEW q \in Nat, p <= q
  PROVE  ~(q * Interval < p * Interval)
<1>1. PICK d \in Nat : q = p + d
  BY q - p \in Nat /\ q = p + (q - p)
<1>2. q * Interval = p * Interval + d * Interval
  BY <1>1, FullIsPositive
<1>3. d * Interval \in Nat /\ p * Interval \in Nat
  BY FullIsPositive
<1> QED
  BY <1>2, <1>3

\* The recent ones of times in order are the last of them.
LEMMA RecentAreLast ==
  ASSUME NEW g \in Seq(Nat), NEW t \in Nat,
         \A i, j \in 1 .. Len(g) : i <= j => g[i] <= g[j]
  PROVE  \E m \in 0 .. Len(g) :
           /\ Recent(g, t) \in Seq(Nat)
           /\ Len(Recent(g, t)) = Len(g) - m
           /\ \A i \in 1 .. Len(g) - m : Recent(g, t)[i] = g[m + i]
           /\ \A i \in 1 .. Len(g) : i > m <=> t - g[i] < Full
<1> DEFINE n == Len(g)
           recent == {i \in DOMAIN g : t - g[i] < Full}
           c == Cardinality(recent)
<1>1. n \in Nat /\ DOMAIN g = 1 .. n /\ \A i \in 1 .. n : g[i] \in Nat
  OBVIOUS
<1>0. n = Len(g)
  OBVIOUS
<1> HIDE DEF n
<1>2. IsFiniteSet(1 .. n) /\ Cardinality(1 .. n) = n
  <2>1. 1 \in Int /\ n \in Int /\ (IF 1 > n THEN 0 ELSE n - 1 + 1) = n
    BY <1>1
  <2>2. IsFiniteSet(1 .. n) /\ Cardinality(1 .. n) = IF 1 > n THEN 0 ELSE n - 1 + 1
    BY <2>1, FS_Interval
  <2> QED
    BY <2>1, <2>2
<1>3. IsFiniteSet(recent) /\ c \in Nat /\ c <= n
  BY <1>1, <1>2, FS_Subset, FS_CardinalityType
<1>4. ASSUME NEW i \in 1 .. n, i \in recent
      PROVE  i > n - c
  <2>1. i .. n \subseteq recent
    <3> SUFFICES ASSUME NEW j \in i .. n PROVE j \in recent
      OBVIOUS
    <3>1. j \in 1 .. n /\ i <= j
      BY <1>1
    <3>2. g[i] <= g[j] /\ t - g[i] < Full /\ g[i] \in Nat /\ g[j] \in Nat
      BY <1>0, <1>1, <1>4, <3>1
    <3> QED
      BY <1>1, <3>1, <3>2, FullIsPositive
  <2>2. Cardinality(i .. n) = n - i + 1
    <3>1. i \in Int /\ n \in Int /\ ~(i > n)
      BY <1>1
    <3> QED
      BY <3>1, FS_Interval
  <2> HIDE DEF recent
  <2>3. Cardinality(i .. n) <= c
    BY <1>3, <2>1, FS_Subset
  <2>4. n - i + 1 <= c
    BY <2>2, <2>3
  <2> QED
    BY <1>1, <1>3, <2>4
<1>5. ASSUME NEW i \in 1 .. n, i \notin recent
      PROVE  i <= n - c
  <2>1. recent \subseteq (i + 1) .. n
    <3> SUFFICES ASSUME NEW j \in recent, j <= i PROVE FALSE
      BY <1>1
    <3>1. j \in 1 .. n /\ t - g[j] < Full
      BY <1>1
    <3>2. g[j] <= g[i] /\ g[i] \in Nat /\ g[j] \in Nat
      BY <1>0, <1>1, <3>1
    <3>3. ~(t - g[i] < Full)
      BY <1>1, <1>5
    <3> QED
      BY <3>1, <3>2, <3>3, FullIsPositive
  <2>2. IsFiniteSet((i + 1) .. n) /\ Cardinality((i + 1) .. n) = n - i
    <3>1. i + 1 \in Int /\ n \in Int
          /\ (IF i + 1 > n THEN 0 ELSE n - (i + 1) + 1) = n - i
      BY <1>1
    <3> QED
      BY <3>1, FS_Interval
  <2> HIDE DEF recent
  <2>3. c <= n - i
    BY <2>1, <2>2, FS_Subset
  <2> QED
    BY <1>1, <1>3, <2>3
<1>6. Recent(g, t) = SubSeq(g, n - c + 1, n)
  BY <1>0 DEF Recent
<1>7. \A i \in 1 .. n : i > n - c <=> t - g[i] < Full
  BY <1>1, <1>3, <1>4, <1>5
<1> HIDE DEF recent, c
<1>8. /\ Recent(g, t) \in Seq(Nat)
      /\ Len(Recent(g, t)) = n - (n - c)
      /\ \A i \in 1 .. n - (n - c) : Recent(g, t)[i] = g[(n - c) + i]
  <2>1. n - c + 1 \in Int /\ n \in Int /\ \A i \in (n - c + 1) .. n : g[i] \in Nat
    BY <1>1, <1>3
  <2>2. /\ SubSeq(g, n - c + 1, n) \in Seq(Nat)
        /\ Len(SubSeq(g, n - c + 1, n)) = IF n - c + 1 <= n THEN n - (n - c + 1) + 1 ELSE 0
        /\ \A i \in 1 .. n - (n - c + 1) + 1 :
             SubSeq(g, n - c + 1, n)[i] = g[(n - c + 1) + i - 1]
    BY <2>1, SubSeqProperties
  <2>3. (IF n - c + 1 <= n THEN n - (n - c + 1) + 1 ELSE 0) = n - (n - c)
        /\ n - (n - c + 1) + 1 = n - (n - c)
    BY <1>1, <1>3
  <2>4. \A i \in 1 .. n - (n - c) : (n - c + 1) + i - 1 = (n - c) + i
    BY <1>1, <1>3
  <2> QED
    BY <1>6, <2>2, <2>3, <2>4
<1>9. n - c \in 0 .. n
  BY <1>1, <1>3
<1> QED
  BY <1>0, <1>7, <1>8, <1>9

\* A tick later, what is no longer recent had been gained back.
LEMMA TickBalances ==
  ASSUME NEW g, NEW a \in 0..Full, NEW t \in Nat, Times(g, t), Balance(g, a, t)
  PROVE  LET h == Recent(g, t + 1) IN Times(h, t + 1) /\ Balance(h, Capped(a + 1), t + 1)
<1> DEFINE h == Recent(g, t + 1)
           b == Capped(a + 1)
<1>a. /\ g \in Seq(Nat)
      /\ \A i, j \in 1 .. Len(g) : i <= j => g[i] <= g[j]
  BY DEF Times
<1>b. t + 1 \in Nat
  OBVIOUS
<1>1. PICK m \in 0 .. Len(g) :
           /\ h \in Seq(Nat)
           /\ Len(h) = Len(g) - m
           /\ \A i \in 1 .. Len(g) - m : h[i] = g[m + i]
           /\ \A i \in 1 .. Len(g) : i > m <=> (t + 1) - g[i] < Full
  BY <1>a, <1>b, RecentAreLast
<1> DEFINE n == Len(g)
           l == Len(h)
<1>2. /\ n \in Nat
      /\ \A i \in 1 .. n : g[i] \in Nat /\ g[i] <= t /\ t - g[i] < Full
      /\ \A i, j \in 1 .. n : i <= j => g[i] <= g[j]
  BY DEF Times
<1>c. h \in Seq(Nat)
  BY <1>1
<1>d. /\ m \in 0 .. n /\ l = n - m
      /\ \A i \in 1 .. n - m : h[i] = g[m + i]
      /\ \A i \in 1 .. n : i > m <=> (t + 1) - g[i] < Full
  BY <1>1
<1>e. /\ \A i \in 1 .. n : /\ Taken(n - i + 1) + a <= Full + (t - g[i])
                          /\ t - g[i] <= Taken(n - i) + a
      /\ Taken(n) + a >= Full
  BY DEF Balance
<1>f. a \in 0..Full /\ t \in Nat
  OBVIOUS
<1>3. b \in 0..Full /\ b <= a + 1 /\ (b = a + 1 \/ b = Full)
  BY FullIsPositive DEF Capped
<1> HIDE DEF h, b, n, l
<1>4. \A i \in 1 .. l : m + i \in 1 .. n /\ m + i > m /\ h[i] = g[m + i]
                        /\ l - i = n - (m + i) /\ l - i \in Nat /\ l - i + 1 \in Nat
  BY <1>2, <1>d
<1>5. \A j \in Nat : Taken(j) \in Nat
  BY OneMore
<1>6. Times(h, t + 1)
  <2>1. \A i \in 1 .. l : h[i] <= t + 1 /\ (t + 1) - h[i] < Full
    <3> SUFFICES ASSUME NEW i \in 1 .. l
                 PROVE  h[i] <= t + 1 /\ (t + 1) - h[i] < Full
      OBVIOUS
    <3>1. m + i \in 1 .. n /\ m + i > m /\ h[i] = g[m + i]
      BY <1>4
    <3>2. g[m + i] \in Nat /\ g[m + i] <= t /\ (t + 1) - g[m + i] < Full
      BY <1>2, <1>d, <3>1
    <3> QED
      BY <1>f, <3>1, <3>2
  <2>2. \A i, j \in 1 .. l : i <= j => h[i] <= h[j]
    BY <1>2, <1>4, <1>d
  <2> QED
    BY <1>c, <2>1, <2>2 DEF Times, l
<1>7. ASSUME NEW i \in 1 .. l
      PROVE  /\ Taken(l - i + 1) + b <= Full + ((t + 1) - h[i])
             /\ (t + 1) - h[i] <= Taken(l - i) + b
  <2>1. /\ Taken(l - i + 1) + a <= Full + (t - h[i])
        /\ t - h[i] <= Taken(l - i) + a
        /\ (t + 1) - h[i] < Full
    <3>1. m + i \in 1 .. n /\ m + i > m /\ h[i] = g[m + i] /\ l - i = n - (m + i)
      BY <1>4
    <3>2. /\ Taken(n - (m + i) + 1) + a <= Full + (t - g[m + i])
          /\ t - g[m + i] <= Taken(n - (m + i)) + a
      BY <1>e, <3>1
    <3>3. (t + 1) - g[m + i] < Full
      BY <1>d, <3>1
    <3> QED
      BY <3>1, <3>2, <3>3
  <2>2. Taken(l - i + 1) \in Nat /\ Taken(l - i) \in Nat /\ h[i] \in Nat
    BY <1>2, <1>4, <1>5
  <2>3. Taken(l - i + 1) + b <= Full + ((t + 1) - h[i])
    BY <1>3, <1>f, <2>1, <2>2, FullIsPositive
  <2>4. (t + 1) - h[i] <= Taken(l - i) + b
    BY <1>3, <1>f, <2>1, <2>2, FullIsPositive
  <2> QED
    BY <2>3, <2>4
<1>8. Taken(l) + b >= Full
  <2>1. CASE m = 0
    <3>1. l = n /\ Taken(n) \in Nat
      BY <1>2, <1>5, <1>d, <2>1
    <3> QED
      BY <1>3, <1>e, <1>f, <3>1, FullIsPositive
  <2>2. CASE m # 0
    <3>1. m \in 1 .. n /\ l = n - m /\ l \in Nat /\ g[m] \in Nat
      BY <1>2, <1>d, <2>2
    <3>2. t - g[m] <= Taken(l) + a
      BY <1>e, <3>1
    <3>3. (t + 1) - g[m] >= Full
      BY <1>d, <1>f, <3>1, FullIsPositive
    <3>4. Taken(l) \in Nat
      BY <1>5, <3>1
    <3> QED
      BY <1>3, <1>f, <3>1, <3>2, <3>3, <3>4, FullIsPositive
  <2> QED
    BY <2>1, <2>2
<1> QED
  BY <1>6, <1>7, <1>8 DEF Balance, h, b, l

\* A request that is served is the last one, and has taken its token.
LEMMA ServeBalances ==
  ASSUME NEW g, NEW a \in 0..Full, NEW t \in Nat, Times(g, t), Balance(g, a, t),
         a >= Interval
  PROVE  Times(Append(g, t), t) /\ Balance(Append(g, t), a - Interval, t)
<1> DEFINE h == Append(g, t)
           n == Len(g)
           l == Len(h)
<1>a. g \in Seq(Nat) /\ t \in Nat
  BY DEF Times
<1>1. /\ n \in Nat
      /\ \A i \in 1 .. n : g[i] \in Nat /\ g[i] <= t /\ t - g[i] < Full
      /\ \A i, j \in 1 .. n : i <= j => g[i] <= g[j]
  BY DEF Times
<1>b. h \in Seq(Nat) /\ l = n + 1
  BY <1>a, AppendProperties
<1>2. /\ h[n + 1] = t
      /\ \A i \in 1 .. n : h[i] = g[i]
  BY <1>a, AppendProperties
<1>c. /\ \A i \in 1 .. n : /\ Taken(n - i + 1) + a <= Full + (t - g[i])
                          /\ t - g[i] <= Taken(n - i) + a
      /\ Taken(n) + a >= Full
  BY DEF Balance
<1>d. a \in 0..Full /\ t \in Nat /\ a >= Interval
  OBVIOUS
<1> HIDE DEF h, n, l
<1>3. Times(h, t)
  <2>1. \A i \in 1 .. l : h[i] <= t /\ t - h[i] < Full
    BY <1>1, <1>2, <1>b, <1>d, FullIsPositive
  <2>2. \A i, j \in 1 .. l : i <= j => h[i] <= h[j]
    BY <1>1, <1>2, <1>b, <1>d
  <2> QED
    BY <1>b, <2>1, <2>2 DEF Times, l
<1>4. ASSUME NEW i \in 1 .. l
      PROVE  /\ Taken(l - i + 1) + (a - Interval) <= Full + (t - h[i])
             /\ t - h[i] <= Taken(l - i) + (a - Interval)
  <2>1. CASE i = n + 1
    <3>1. l - i = 0 /\ l - i + 1 = 0 + 1
      BY <1>1, <1>b, <2>1
    <3>2. Taken(0) = 0 /\ Taken(0 + 1) = Interval
      BY OneMore, FullIsPositive
    <3>3. Taken(l - i) = 0 /\ Taken(l - i + 1) = Interval
      BY <3>1, <3>2
    <3> QED
      BY <1>2, <1>d, <2>1, <3>3, FullIsPositive
  <2>2. CASE i # n + 1
    <3>1. /\ i \in 1 .. n /\ n - i \in Nat /\ n - i + 1 \in Nat
          /\ l - i = (n - i) + 1 /\ l - i + 1 = (n - i + 1) + 1
      BY <1>1, <1>b, <2>2
    <3>2. /\ Taken(n - i + 1) + a <= Full + (t - g[i])
          /\ t - g[i] <= Taken(n - i) + a
      BY <1>c, <3>1
    <3>3. /\ Taken(l - i) = Taken(n - i) + Interval /\ Taken(n - i) \in Nat
          /\ Taken(l - i + 1) = Taken(n - i + 1) + Interval /\ Taken(n - i + 1) \in Nat
      BY <3>1, OneMore
    <3> QED
      BY <1>1, <1>2, <1>d, <3>1, <3>2, <3>3, FullIsPositive
  <2> QED
    BY <2>1, <2>2
<1>5. Taken(l) + (a - Interval) >= Full
  <2>1. Taken(n) \in Nat /\ Taken(n + 1) = Taken(n) + Interval
    BY <1>1, OneMore
  <2> QED
    BY <1>b, <1>c, <1>d, <2>1, FullIsPositive
<1>6. Balance(h, a - Interval, t)
  BY <1>4, <1>5 DEF Balance, l
<1> QED
  BY <1>3, <1>6 DEF h

\* The accounts of every key are kept by every step.
LEMMA AccountsInv == Spec => []Accounts
<1>1. Init => Accounts
  <2> SUFFICES ASSUME Init PROVE Accounts
    OBVIOUS
  <2>1. now = 0 /\ granted = [k \in Keys |-> << >>]
    BY DEF Init
  <2>2. \A k \in Keys : Allowance(k) = Full
    BY DEF Init, Allowance
  <2>3. << >> \in Seq(Nat) /\ Len(<< >>) = 0
    OBVIOUS
  <2>4. Times(<< >>, 0) /\ Balance(<< >>, Full, 0)
    BY <2>3, OneMore, FullIsPositive DEF Times, Balance
  <2> QED
    BY <2>1, <2>2, <2>4 DEF Accounts
<1>2. EntriesOK /\ Accounts /\ [Next]_vars => Accounts'
  <2> SUFFICES ASSUME EntriesOK, Accounts, [Next]_vars PROVE Accounts'
    OBVIOUS
  <2>0. /\ now \in Nat
        /\ \A k \in Keys : /\ Allowance(k) \in 0..Full
                           /\ Times(granted[k], now) /\ Balance(granted[k], Allowance(k), now)
    BY AllowanceIsBounded, FullIsPositive DEF Accounts, EntriesOK
  <2>1. CASE UNCHANGED vars
    <3>1. now' = now /\ granted' = granted /\ \A k \in Keys : Allowance(k)' = Allowance(k)
      BY <2>1 DEF vars, Allowance, TokensAt
    <3> QED
      BY <3>1 DEF Accounts
  <2>2. CASE Tick
    <3>1. now' = now + 1 /\ granted' = [k \in Keys |-> Recent(granted[k], now + 1)]
      BY <2>2 DEF Tick
    <3>2. ASSUME NEW k \in Keys
          PROVE  Times(granted'[k], now') /\ Balance(granted'[k], Allowance(k)', now')
      <4>1. Allowance(k)' = Capped(Allowance(k) + 1)
        BY <2>2, TickGains
      <4>2. granted'[k] = Recent(granted[k], now + 1)
        BY <3>1
      <4>3. /\ Times(Recent(granted[k], now + 1), now + 1)
            /\ Balance(Recent(granted[k], now + 1), Capped(Allowance(k) + 1), now + 1)
        BY <2>0, TickBalances
      <4> QED
        BY <3>1, <4>1, <4>2, <4>3
    <3> QED
      BY <3>1, <3>2 DEF Accounts
  <2>3. ASSUME NEW k \in Keys, Serve(k)
        PROVE  Accounts'
    <3>1. now' = now /\ granted' = [granted EXCEPT ![k] = Append(granted[k], now)]
      BY <2>3 DEF Serve
    <3>2. /\ Allowance(k) >= Interval /\ Allowance(k)' = Allowance(k) - Interval
          /\ \A x \in Keys \ {k} : Allowance(x)' = Allowance(x)
      BY <2>3, ServeTakes
    <3>3. /\ granted'[k] = Append(granted[k], now)
          /\ \A x \in Keys \ {k} : granted'[x] = granted[x]
          /\ granted' = [x \in Keys |-> granted'[x]]
      BY <3>1 DEF Accounts
    <3>4. Times(granted'[k], now') /\ Balance(granted'[k], Allowance(k)', now')
      <4>1. /\ Times(Append(granted[k], now), now)
            /\ Balance(Append(granted[k], now), Allowance(k) - Interval, now)
        BY <2>0, <3>2, ServeBalances
      <4> QED
        BY <3>1, <3>2, <3>3, <4>1
    <3>5. ASSUME NEW x \in Keys \ {k}
          PROVE  Times(granted'[x], now') /\ Balance(granted'[x], Allowance(x)', now')
      BY <2>0, <3>1, <3>2, <3>3
    <3> QED
      BY <3>3, <3>4, <3>5 DEF Accounts
  <2>4. ASSUME NEW k \in Keys, Refuse(k)
        PROVE  Accounts'
    <3>1. now' = now /\ granted' = granted /\ \A x \in Keys : Allowance(x)' = Allowance(x)
      BY <2>4, RefuseIsFree DEF Refuse
    <3> QED
      BY <3>1 DEF Accounts
  <2> QED
    BY <2>1, <2>2, <2>3, <2>4 DEF Next
<1> QED
  BY <1>1, <1>2, EntriesInv, PTL DEF Spec

\* A key is served less than twice its limit in a minute: the first request of
\* the minute found at most a full bucket, and less than another was gained since.
THEOREM NeverTwice == Spec => []LessThanTwiceTheLimit
<1>1. EntriesOK /\ Accounts => LessThanTwiceTheLimit
  <2> SUFFICES ASSUME EntriesOK, Accounts, NEW k \in Keys
               PROVE  Len(granted[k]) < 2 * Burst
    BY DEF LessThanTwiceTheLimit
  <2> DEFINE g == granted[k]
  <2>1. /\ g \in Seq(Nat) /\ Len(g) \in Nat /\ now \in Nat /\ Allowance(k) \in 0..Full
        /\ Times(g, now) /\ Balance(g, Allowance(k), now)
    BY AllowanceIsBounded, FullIsPositive DEF Accounts, Times, EntriesOK
  <2> HIDE DEF g
  <2>2. CASE Len(g) = 0
    BY <2>2, LimitAssumption DEF g
  <2>3. CASE Len(g) # 0
    <3>1. 1 \in 1 .. Len(g) /\ Len(g) - 1 + 1 = Len(g) /\ g[1] \in Nat
      BY <2>1, <2>3
    <3>2. Taken(Len(g)) + Allowance(k) <= Full + (now - g[1]) /\ now - g[1] < Full
      BY <2>1, <3>1 DEF Balance, Times
    <3>3. Taken(Len(g)) \in Nat
      BY <2>1, OneMore
    <3>4. Taken(Len(g)) < 2 * Full
      BY <2>1, <3>1, <3>2, <3>3, FullIsPositive
    <3>5. Len(g) * Interval < (2 * Burst) * Interval
      BY <3>4, LimitAssumption DEF Taken, Full
    <3>6. 2 * Burst \in Nat /\ Len(g) \in Nat
      BY <2>1, LimitAssumption
    <3>7. ~(2 * Burst <= Len(g))
      BY <3>5, <3>6, ProductsAreMonotonic, FullIsPositive
    <3> QED
      BY <3>6, <3>7 DEF g
  <2> QED
    BY <2>2, <2>3
<1> QED
  BY <1>1, EntriesInv, AccountsInv, PTL

\* Who was served less than the limit in the last minute has a token left:
\* everything else has been gained back, and refusals took nothing.
THEOREM ServedUnderTheLimit == Spec => []UnderTheLimitIsServed
<1>1. EntriesOK /\ Accounts => UnderTheLimitIsServed
  <2> SUFFICES ASSUME EntriesOK, Accounts, NEW k \in Keys, Len(granted[k]) < Burst
               PROVE  Allowance(k) >= Interval
    BY DEF UnderTheLimitIsServed
  <2> DEFINE n == Len(granted[k])
  <2>1. n \in Nat /\ Allowance(k) \in 0..Full /\ Taken(n) + Allowance(k) >= Full
    BY AllowanceIsBounded, FullIsPositive DEF Accounts, Times, Balance
  <2>2. n + 1 <= Burst
    BY <2>1, LimitAssumption
  <2> HIDE DEF n
  <2>3. (n + 1) * Interval <= Burst * Interval
    BY <2>1, <2>2, LimitAssumption
  <2>4. Taken(n) + Interval <= Full /\ Taken(n) \in Nat
    BY <2>1, <2>3, OneMore DEF Taken, Full
  <2> QED
    BY <2>1, <2>4, FullIsPositive
<1> QED
  BY <1>1, EntriesInv, AccountsInv, PTL
==============================================================================
